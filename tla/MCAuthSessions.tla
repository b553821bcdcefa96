--------------------------- MODULE MCAuthSessions ---------------------------
(***************************************************************************)
(* Instances of AuthSessions and Accounts for TLC.  The sessions are those  *)
(* of a user who was registered.  The interleavings within either are       *)
(* explored in full, and sessions follow the creation of the first row      *)
(* (SessionsOfOneUser).                                                     *)
(***************************************************************************)
EXTENDS AuthSessions, Accounts, TLC

AuthInit == Init /\ AccountsInit

AuthNext ==
  \/ Next /\ (\E e \in Emails : Exists(e)) /\ UNCHANGED accountVars
  \/ AccountsNext /\ UNCHANGED vars

AuthSpec == AuthInit /\ [][AuthNext]_<<vars, accountVars>>

SessionsOfOneUser ==
  \/ generated = 0
  \/ /\ \A r \in Requests : InProgress(r, "idle")
     /\ Cardinality({e \in Emails : Exists(e)}) = 1
     /\ keys = 0 /\ \A s \in Subs : reached[s] = {}

AuthSymmetry ==
  Permutations(Handlers) \union Permutations(Emails)
    \union Permutations(Subs) \union Permutations(Requests)
=============================================================================
