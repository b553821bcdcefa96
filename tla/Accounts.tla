------------------------------ MODULE Accounts ------------------------------
(***************************************************************************)
(* The rows of users (src/src/auth/auth.service.ts, entities/user.entity.ts):*)
(* registration by email, login with a Google account, which finds, links   *)
(* or creates a row, and the API key of a row.  Requests interleave at the  *)
(* awaits of the database and of bcrypt; the database enforces one row per  *)
(* email and one row per Google account.                                    *)
(*                                                                          *)
(* A verified Google token names an account of Google (its sub) and the     *)
(* email the account has at that time; the email of an account may change.  *)
(* An API key, its prefix and its hash are the number it was generated with.*)
(***************************************************************************)
EXTENDS Integers, FiniteSets

CONSTANTS
  Emails,    \* emails of users
  Subs,      \* accounts of Google
  NoSub,     \* no account of Google
  Requests,  \* concurrent requests
  MaxKeys    \* bound on API keys generated

ASSUME NoSubAssumption == NoSub \notin Subs
ASSUME MaxKeysAssumption == MaxKeys \in Nat

VARIABLES
  rows,       \* the rows of users: their Google account and API key
  requests,   \* the requests in progress
  keys,       \* API keys generated so far
  givenKeys,  \* API keys returned to a client
  created,    \* history: how many requests were told they created the row
  reached,    \* history: the rows that each Google account logged in to
  overwritten,\* history: Google accounts whose link another one replaced
  keyRevoked  \* history: whether a revocation of the row's key completed since
              \* a key was last asked for, and whether a generation overlapped it

accountVars == <<rows, requests, keys, givenKeys, created, reached, overwritten, keyRevoked>>

NoKey == 0
NoRow == [sub |-> NoSub, key |-> -1]
Rows == [sub: Subs \union {NoSub}, key: 0..MaxKeys] \union {NoRow}

NoRequest == [pc |-> "idle"]
InRequest ==
  {NoRequest}
    \union [pc: {"insert"}, email: Emails]
    \union [pc: {"findEmail", "link", "insertLinked"}, email: Emails, sub: Subs]
    \union [pc: {"storeKey", "replaceKey"}, email: Emails, key: 1..MaxKeys]

AccountsInit ==
  /\ rows = [e \in Emails |-> NoRow]
  /\ requests = [r \in Requests |-> NoRequest]
  /\ keys = 0
  /\ givenKeys = {}
  /\ created = [e \in Emails |-> 0]
  /\ reached = [s \in Subs |-> {}]
  /\ overwritten = {}
  /\ keyRevoked = [e \in Emails |-> "no"]

Exists(e) == rows[e] # NoRow
Holders(s) == {e \in Emails : rows[e].sub = s}
InProgress(r, pc) == requests[r].pc = pc
Becomes(r, request) == requests' = [requests EXCEPT ![r] = request]
Ends(r) == Becomes(r, NoRequest)

identityVars == <<created, reached, overwritten>>
keyVars == <<keys, givenKeys, keyRevoked>>

-----------------------------------------------------------------------------
(* register *)

\* The email is free, so the password is hashed; otherwise a ConflictException.
Register(r, e) ==
  /\ InProgress(r, "idle")
  /\ ~Exists(e)
  /\ Becomes(r, [pc |-> "insert", email |-> e])
  /\ UNCHANGED <<rows, keyVars, identityVars>>

Create(e, s) ==
  /\ rows' = [rows EXCEPT ![e] = [sub |-> s, key |-> NoKey]]
  /\ created' = [created EXCEPT ![e] = @ + 1]

\* The row is inserted, unless one with the email was inserted meanwhile.
Insert(r) ==
  /\ InProgress(r, "insert")
  /\ IF Exists(requests[r].email)
     THEN UNCHANGED <<rows, created>>
     ELSE Create(requests[r].email, NoSub)
  /\ Ends(r)
  /\ UNCHANGED <<reached, overwritten, keyVars>>

-----------------------------------------------------------------------------
(* socialLogin; login of the user found or created is GenerateTokens *)

Reach(s, e) == reached' = [reached EXCEPT ![s] = @ \union {e}]

\* The user whose row has the Google account.
SocialLogin(r, s, e) ==
  /\ InProgress(r, "idle")
  /\ \/ \E holder \in Holders(s) : Reach(s, holder) /\ UNCHANGED requests
     \/ /\ Holders(s) = {}
        /\ Becomes(r, [pc |-> "findEmail", email |-> e, sub |-> s])
        /\ UNCHANGED reached
  /\ UNCHANGED <<rows, created, overwritten, keyVars>>

\* Otherwise the user with the email, or a new one with a random password.
FindByEmail(r) ==
  /\ InProgress(r, "findEmail")
  /\ requests' = [requests EXCEPT ![r].pc =
       IF Exists(requests[r].email) THEN "link" ELSE "insertLinked"]
  /\ UNCHANGED <<rows, keyVars, identityVars>>

\* Defect: the Google account is not a unique column.
LinkTwice(r) ==
  /\ InProgress(r, "link")
  /\ LET e == requests[r].email
         s == requests[r].sub
     IN /\ rows' = [rows EXCEPT ![e].sub = s]
        /\ overwritten' = overwritten \union ({rows[e].sub} \ {s, NoSub})
        /\ Reach(s, e)
  /\ Ends(r)
  /\ UNCHANGED <<created, keyVars>>

\* The row gets the Google account, in place of any it had, unless another row
\* got it meanwhile.
Link(r) ==
  /\ InProgress(r, "link")
  /\ LET e == requests[r].email
         s == requests[r].sub
     IN IF Holders(s) \subseteq {e}
        THEN /\ rows' = [rows EXCEPT ![e].sub = s]
             /\ overwritten' = overwritten \union ({rows[e].sub} \ {s, NoSub})
             /\ Reach(s, e)
        ELSE UNCHANGED <<rows, overwritten, reached>>
  /\ Ends(r)
  /\ UNCHANGED <<created, keyVars>>

\* The row is inserted, unless one with the email or the Google account was.
InsertLinked(r) ==
  /\ InProgress(r, "insertLinked")
  /\ LET e == requests[r].email
         s == requests[r].sub
     IN IF ~Exists(e) /\ Holders(s) = {}
        THEN Create(e, s) /\ Reach(s, e)
        ELSE UNCHANGED <<rows, created, reached>>
  /\ Ends(r)
  /\ UNCHANGED <<overwritten, keyVars>>

-----------------------------------------------------------------------------
(* API keys *)

\* The user exists; a key is generated and its hash awaited.
GenerateKey(r, e, pc) ==
  /\ InProgress(r, "idle")
  /\ Exists(e)
  /\ keys < MaxKeys
  /\ keys' = keys + 1
  /\ Becomes(r, [pc |-> pc, email |-> e, key |-> keys + 1])
  /\ UNCHANGED <<rows, givenKeys, identityVars>>

GenerateApiKey(r, e) ==
  /\ GenerateKey(r, e, "storeKey")
  /\ keyRevoked' = [keyRevoked EXCEPT ![e] = "no"]

\* "re-generate and discard = effectively revokes old"
RevokeApiKey(r, e) ==
  /\ GenerateKey(r, e, "replaceKey")
  /\ UNCHANGED keyRevoked

StoresKeyOf(r, e) ==
  /\ InProgress(r, "storeKey") \/ InProgress(r, "replaceKey")
  /\ requests[r].email = e

\* Hash and prefix are updated together, and the key is returned.
StoreKey(r) ==
  /\ InProgress(r, "storeKey")
  /\ rows' = [rows EXCEPT ![requests[r].email].key = requests[r].key]
  /\ givenKeys' = givenKeys \union {requests[r].key}
  /\ Ends(r)
  /\ UNCHANGED <<keys, keyRevoked, identityVars>>

KeyRevoked(r) ==
  LET e == requests[r].email IN
    keyRevoked' = [keyRevoked EXCEPT ![e] =
      IF \E other \in Requests \ {r} : StoresKeyOf(other, e) THEN "overlapped" ELSE "alone"]

\* Defect: the new key replaces nothing.
ReplaceNothing(r) ==
  /\ InProgress(r, "replaceKey")
  /\ KeyRevoked(r)
  /\ Ends(r)
  /\ UNCHANGED <<rows, keys, givenKeys, identityVars>>

\* The same update, but the controller returns nothing.
ReplaceKey(r) ==
  /\ InProgress(r, "replaceKey")
  /\ rows' = [rows EXCEPT ![requests[r].email].key = requests[r].key]
  /\ KeyRevoked(r)
  /\ Ends(r)
  /\ UNCHANGED <<keys, givenKeys, identityVars>>

\* validateApiKey finds a row by the key's prefix and compares the hash.
Validates(k) == \E e \in Emails : rows[e].key = k

\* A call of the database or of bcrypt fails, or the process stops.
Fail(r) ==
  /\ ~InProgress(r, "idle")
  /\ Ends(r)
  /\ UNCHANGED <<rows, keyVars, identityVars>>

-----------------------------------------------------------------------------
AccountsNext ==
  \E r \in Requests :
    \/ \E e \in Emails : Register(r, e) \/ GenerateApiKey(r, e) \/ RevokeApiKey(r, e)
    \/ \E s \in Subs, e \in Emails : SocialLogin(r, s, e)
    \/ Insert(r) \/ FindByEmail(r) \/ Link(r) \/ InsertLinked(r)
    \/ StoreKey(r) \/ ReplaceKey(r) \/ Fail(r)

AccountsSpec == AccountsInit /\ [][AccountsNext]_accountVars

-----------------------------------------------------------------------------
(* Properties *)

\* Rows, requests and histories are what they may be.
AccountsTypeOK ==
  /\ rows \in [Emails -> Rows]
  /\ requests \in [Requests -> InRequest]
  /\ keys \in 0..MaxKeys
  /\ givenKeys \subseteq 1..keys
  /\ created \in [Emails -> Nat]
  /\ reached \in [Subs -> SUBSET Emails]
  /\ overwritten \subseteq Subs
  /\ keyRevoked \in [Emails -> {"no", "alone", "overlapped"}]

\* However registrations and Google logins of one email interleave, exactly one
\* of them creates the row, and the others are told so or find it (register and
\* socialLogin look for the email and insert it in two steps).
OneCreator ==
  \A e \in Emails : created[e] = IF Exists(e) THEN 1 ELSE 0

\* A Google account logs in to one row for ever, also when its email changes
\* between two tokens that are used at the same time, unless another Google
\* account took over its row (socialLogin).
IdentityKeepsRow ==
  \A s \in Subs : Cardinality(reached[s]) > 1 => s \in overwritten

\* A person has one row, whichever way, and however often at once, they register
\* and log in (register, socialLogin).
OneRowEach == AccountsTypeOK /\ OneCreator /\ IdentityKeepsRow

\* Once the key of a row was revoked, and no generation was in progress at that
\* time, no key a client holds is valid until one is asked for
\* (generateApiKey, revokeApiKey).
RevokedKeyDead ==
  \A e \in Emails : keyRevoked[e] = "alone" => rows[e].key \notin givenKeys

\* A revoked key is dead, and a key that stopped working never works again: an
\* update made late by a request that was overtaken brings none back.
KeysStayDead ==
  [][/\ RevokedKeyDead'
     /\ \A k \in givenKeys : ~Validates(k) => ~Validates(k)']_accountVars

=============================================================================
