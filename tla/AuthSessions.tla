---------------------------- MODULE AuthSessions ----------------------------
(***************************************************************************)
(* The sessions of one user (src/src/auth/auth.service.ts, token-revocation.*)
(* service.ts, strategies/jwt.strategy.ts): refresh tokens that rotate, of  *)
(* which the user row keeps the hash of one, and access tokens that are     *)
(* valid until they expire or their jti is in the table of revoked tokens.  *)
(* Requests interleave at the awaits of the database and of bcrypt.         *)
(*                                                                          *)
(* A refresh token and its hash are the number it was generated with, and   *)
(* an access token is its jti, the number of the login that signed it.      *)
(***************************************************************************)
EXTENDS Integers, FiniteSets

CONSTANTS
  Handlers,   \* concurrent requests
  MaxLogins   \* bound on pairs of tokens generated

ASSUME MaxLoginsAssumption == MaxLogins \in Nat
ASSUME HandlersFinite == IsFiniteSet(Handlers)

VARIABLES
  stored,     \* User.refreshTokenHash
  generated,  \* pairs of tokens generated so far
  given,      \* pairs of tokens returned to a client
  expired,    \* access tokens past their exp
  revoked,    \* rows of revoked_tokens
  handlers,   \* the requests in progress
  exchanges,  \* history: how often each refresh token was exchanged
  everRevoked,\* history: the access tokens a row was saved for
  loggedOut   \* history: whether a logout completed since a login was last asked
              \* for, and whether another request was in progress meanwhile

vars == <<stored, generated, given, expired, revoked, handlers,
          exchanges, everRevoked, loggedOut>>

Tokens == 1..MaxLogins
NoToken == 0

PCs == {"idle", "compare", "clear", "store", "revoke", "clearLogout", "checkRevoked"}
Handler == [pc: PCs, token: 0..MaxLogins, seen: 0..MaxLogins]
Idle == [pc |-> "idle", token |-> NoToken, seen |-> NoToken]

Init ==
  /\ stored = NoToken
  /\ generated = 0
  /\ given = {}
  /\ expired = {}
  /\ revoked = {}
  /\ handlers = [h \in Handlers |-> Idle]
  /\ exchanges = [t \in Tokens |-> 0]
  /\ everRevoked = {}
  /\ loggedOut = "no"

At(h, pc) == handlers[h].pc = pc
Start(h, pc, token, seen) ==
  handlers' = [handlers EXCEPT ![h] = [pc |-> pc, token |-> token, seen |-> seen]]
Goto(h, pc) == handlers' = [handlers EXCEPT ![h].pc = pc]
Finish(h) == handlers' = [handlers EXCEPT ![h] = Idle]

-----------------------------------------------------------------------------
(* login *)

\* Both tokens are generated; the hash of the refresh token is awaited.
GenerateTokens(h) ==
  /\ generated < MaxLogins
  /\ generated' = generated + 1
  /\ Start(h, "store", generated + 1, NoToken)

\* validateCredentials succeeded.
Login(h) ==
  /\ At(h, "idle")
  /\ GenerateTokens(h)
  /\ loggedOut' = "no"
  /\ UNCHANGED <<stored, given, expired, revoked, exchanges, everRevoked>>

\* The update of the user row, and the pair of tokens is returned.
StoreRefreshToken(h) ==
  /\ At(h, "store")
  /\ stored' = handlers[h].token
  /\ given' = given \union {handlers[h].token}
  /\ Finish(h)
  /\ UNCHANGED <<generated, expired, revoked, exchanges, everRevoked, loggedOut>>

-----------------------------------------------------------------------------
(* refreshTokens *)

\* The row is read; without a stored hash the request is refused.
RefreshTokens(h, token) ==
  /\ At(h, "idle")
  /\ token \in given
  /\ stored # NoToken
  /\ Start(h, "compare", token, stored)
  /\ UNCHANGED <<stored, generated, given, expired, revoked, exchanges, everRevoked, loggedOut>>

\* bcrypt compares with the hash that was read.
Compare(h) ==
  /\ At(h, "compare")
  /\ IF handlers[h].token = handlers[h].seen THEN Goto(h, "clear") ELSE Finish(h)
  /\ UNCHANGED <<stored, generated, given, expired, revoked, exchanges, everRevoked, loggedOut>>

\* Defect: the old refresh token is stored again instead of a new one.
RotateKeepsToken(h) ==
  /\ At(h, "clear")
  /\ generated < MaxLogins
  /\ generated' = generated + 1
  /\ stored' = NoToken
  /\ Goto(h, "store")
  /\ exchanges' = [exchanges EXCEPT ![handlers[h].token] = @ + 1]
  /\ UNCHANGED <<given, expired, revoked, everRevoked, loggedOut>>

\* Defect: the old refresh token keeps working until the new one is stored.
RotateLate(h) ==
  /\ At(h, "clear")
  /\ GenerateTokens(h)
  /\ exchanges' = [exchanges EXCEPT ![handlers[h].token] = @ + 1]
  /\ UNCHANGED <<stored, given, expired, revoked, everRevoked, loggedOut>>

\* "Rotate: invalidate the old refresh token immediately", then login.
Rotate(h) ==
  /\ At(h, "clear")
  /\ stored' = NoToken
  /\ GenerateTokens(h)
  /\ exchanges' = [exchanges EXCEPT ![handlers[h].token] = @ + 1]
  /\ UNCHANGED <<given, expired, revoked, everRevoked, loggedOut>>

-----------------------------------------------------------------------------
(* JwtStrategy.validate, logout, revokeToken *)

\* Passport verified signature and expiry; the blacklist is asked next.
Authenticate(h, jti) ==
  /\ At(h, "idle")
  /\ jti \in given \ expired
  /\ Start(h, "checkRevoked", jti, NoToken)
  /\ UNCHANGED <<stored, generated, given, expired, revoked, exchanges, everRevoked, loggedOut>>

\* Defect: the blacklist is not asked.
AcceptUnchecked(h) ==
  /\ At(h, "checkRevoked")
  /\ \/ Goto(h, "revoke")
     \/ Finish(h)
  /\ UNCHANGED <<stored, generated, given, expired, revoked, exchanges, everRevoked, loggedOut>>

\* The request is let through: any request of the user, or its logout, which
\* goes on to revoke the token it came with.
Accept(h) ==
  /\ At(h, "checkRevoked")
  /\ handlers[h].token \notin revoked
  /\ \/ Goto(h, "revoke")
     \/ Finish(h)
  /\ UNCHANGED <<stored, generated, given, expired, revoked, exchanges, everRevoked, loggedOut>>

Reject(h) ==
  /\ At(h, "checkRevoked")
  /\ handlers[h].token \in revoked
  /\ Finish(h)
  /\ UNCHANGED <<stored, generated, given, expired, revoked, exchanges, everRevoked, loggedOut>>

\* The row is saved.  Logout ignores an error: a second row of one jti, which
\* the unique index refuses, and a save the database fails.
LogoutRevoke(h) ==
  /\ At(h, "revoke")
  /\ \/ /\ revoked' = revoked \union {handlers[h].token}
        /\ everRevoked' = everRevoked \union {handlers[h].token}
     \/ UNCHANGED <<revoked, everRevoked>>
  /\ Goto(h, "clearLogout")
  /\ UNCHANGED <<stored, generated, given, expired, exchanges, loggedOut>>

LoggedOut(h) ==
  loggedOut' = IF \E g \in Handlers \ {h} : ~At(g, "idle") THEN "overlapped" ELSE "alone"

\* Defect: the refresh token is forgotten.
LogoutKeepsRefresh(h) ==
  /\ At(h, "clearLogout")
  /\ LoggedOut(h)
  /\ Finish(h)
  /\ UNCHANGED <<stored, generated, given, expired, revoked, exchanges, everRevoked>>

LogoutClear(h) ==
  /\ At(h, "clearLogout")
  /\ stored' = NoToken
  /\ LoggedOut(h)
  /\ Finish(h)
  /\ UNCHANGED <<generated, given, expired, revoked, exchanges, everRevoked>>

\* An administrator revokes a token; decode does not verify, so also one that
\* has expired.
RevokeToken(jti) ==
  /\ jti \in given \ revoked
  /\ revoked' = revoked \union {jti}
  /\ everRevoked' = everRevoked \union {jti}
  /\ UNCHANGED <<stored, generated, given, expired, handlers, exchanges, loggedOut>>

\* Nothing in the repository calls purgeExpired, which is written for periodic use.
PurgeExpired ==
  /\ revoked' = revoked \ expired
  /\ UNCHANGED <<stored, generated, given, expired, handlers, exchanges, everRevoked, loggedOut>>

\* An access token reaches its exp.
Expire(jti) ==
  /\ jti \in given \ expired
  /\ expired' = expired \union {jti}
  /\ UNCHANGED <<stored, generated, given, revoked, handlers, exchanges, everRevoked, loggedOut>>

\* A call of the database or of bcrypt fails, or the process stops: the request
\* ends where it is.
Abandon(h) ==
  /\ ~At(h, "idle")
  /\ Finish(h)
  /\ UNCHANGED <<stored, generated, given, expired, revoked, exchanges, everRevoked, loggedOut>>

-----------------------------------------------------------------------------
Step(h) ==
  \/ StoreRefreshToken(h) \/ Compare(h) \/ Rotate(h)
  \/ Accept(h) \/ Reject(h) \/ LogoutRevoke(h) \/ LogoutClear(h)
  \/ Abandon(h)

Next ==
  \/ \E h \in Handlers : Step(h) \/ Login(h)
  \/ \E h \in Handlers, t \in Tokens : RefreshTokens(h, t) \/ Authenticate(h, t)
  \/ \E t \in Tokens : RevokeToken(t) \/ Expire(t)
  \/ PurgeExpired

Spec == Init /\ [][Next]_vars

-----------------------------------------------------------------------------
(* Properties *)

\* The rows, the tokens and the requests are what they may be.
TypeOK ==
  /\ stored \in 0..MaxLogins
  /\ generated \in 0..MaxLogins
  /\ given \subseteq Tokens
  /\ expired \subseteq given
  /\ revoked \subseteq given
  /\ handlers \in [Handlers -> Handler]
  /\ exchanges \in [Tokens -> Nat]
  /\ everRevoked \subseteq given
  /\ loggedOut \in {"no", "alone", "overlapped"}

\* A refresh token that stopped working (it was exchanged, replaced by a later
\* login, or the user logged out) never works again, whatever requests that
\* still know it are in progress (generateRefreshToken, refreshTokens).
SpentStaysSpent ==
  [][\A t \in given : stored # t => stored' # t]_vars

\* Concurrent refreshes may exchange one token several times, but only as often
\* as there are requests that read it before the first of them rotated it.
OverlapBoundsExchanges ==
  /\ TypeOK
  /\ \A t \in Tokens :
       exchanges[t] + Cardinality({h \in Handlers :
           At(h, "clear") /\ handlers[h].token = t}) <= Cardinality(Handlers)

\* A token that was revoked is let through by no request, also when expired
\* rows are purged while the blacklist is asked, unless it expired meanwhile
\* ("Blacklist a token by its jti until its natural expiry").
RevokedNotAccepted ==
  [][\A h \in Handlers :
       At(h, "checkRevoked") /\ At(h, "revoke")'
         => handlers[h].token \notin everRevoked \ expired]_vars

\* "Hashed refresh token stored on the user, null when logged out": once the user
\* logged out, no refresh token works until a login is asked for, unless another
\* request was in progress when logout cleared the row (logout).
LoggedOutHasNoToken == loggedOut = "alone" => stored = NoToken

=============================================================================
