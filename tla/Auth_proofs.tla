----------------------------- MODULE Auth_proofs -----------------------------
(***************************************************************************)
(* Proofs about AuthSessions and Accounts, for any number of requests,      *)
(* logins, emails, Google accounts and API keys.                            *)
(***************************************************************************)
EXTENDS AuthSessions, Accounts, FiniteSetTheorems, TLAPS

-----------------------------------------------------------------------------
(* AuthSessions *)

(* A request knows a token that was given out, or holds one that nobody else *)
(* has and nobody was given; what is stored was given out.                   *)
TokensOwned ==
  /\ given \subseteq 1..generated
  /\ stored # NoToken => stored \in given
  /\ \A h \in Handlers :
       /\ ~At(h, "idle") /\ ~At(h, "store") => handlers[h].token \in given
       /\ At(h, "store") => handlers[h].token \in (1..generated) \ given
  /\ \A g, h \in Handlers :
       At(g, "store") /\ At(h, "store") /\ handlers[g].token = handlers[h].token => g = h

(* The requests that will still exchange a token: they read its hash while  *)
(* it was stored.                                                           *)
Readers(t) ==
  {h \in Handlers : /\ handlers[h].token = t
                    /\ At(h, "clear") \/ (At(h, "compare") /\ handlers[h].seen = t)}

(* A token that was exchanged is not stored, so that it gets no new readers. *)
ExchangesCounted ==
  \A t \in Tokens :
    /\ exchanges[t] > 0 => stored # t /\ t \in given
    /\ exchanges[t] + Cardinality(Readers(t)) <= Cardinality(Handlers)

(* A row of a revoked token is purged only when the token has expired.       *)
RevokedRecorded == everRevoked \ expired \subseteq revoked

(* After a logout that nothing overlapped, no request can store a token.     *)
LoggedOutQuiet ==
  loggedOut = "alone" =>
    /\ stored = NoToken
    /\ \A h \in Handlers : handlers[h].pc \in {"idle", "checkRevoked", "revoke", "clearLogout"}

SessionInv == TypeOK /\ TokensOwned /\ ExchangesCounted /\ RevokedRecorded /\ LoggedOutQuiet


LEMMA SessionInit == Init => SessionInv
<1> SUFFICES ASSUME Init PROVE SessionInv
  OBVIOUS
<1>1. TypeOK
  BY MaxLoginsAssumption DEF Init, TypeOK, Handler, Idle, PCs, NoToken
<1>2. TokensOwned /\ RevokedRecorded /\ LoggedOutQuiet
  BY DEF Init, TokensOwned, RevokedRecorded, LoggedOutQuiet, At, Idle
<1>3. ExchangesCounted
  <2>1. \A t \in Tokens : Readers(t) = {}
    BY DEF Init, Readers, At, Idle
  <2> QED BY <2>1, FS_EmptySet, FS_CardinalityType, HandlersFinite
    DEF Init, ExchangesCounted
<1> QED BY <1>1, <1>2, <1>3 DEF SessionInv

\* A request that moves to another await keeps its tokens, and the others stay.
LEMMA RequestMoves ==
  ASSUME TypeOK, NEW h \in Handlers, NEW pc \in PCs, Goto(h, pc) \/ (Finish(h) /\ pc = "idle")
  PROVE  /\ handlers' \in [Handlers -> Handler]
         /\ At(h, pc)'
         /\ pc # "idle" => /\ handlers'[h].token = handlers[h].token
                           /\ handlers'[h].seen = handlers[h].seen
         /\ \A g \in Handlers \ {h} : handlers'[g] = handlers[g]
<1>1. /\ handlers \in [Handlers -> Handler] /\ handlers[h] \in Handler
      /\ handlers[h].token \in 0..MaxLogins /\ handlers[h].seen \in 0..MaxLogins
  BY DEF TypeOK, Handler
<1>2. CASE Goto(h, pc)
  <2>1. handlers' = [handlers EXCEPT ![h] = [handlers[h] EXCEPT !.pc = pc]]
    BY <1>1, <1>2 DEF Goto
  <2>2. [handlers[h] EXCEPT !.pc = pc]
          = [pc |-> pc, token |-> handlers[h].token, seen |-> handlers[h].seen]
    BY <1>1 DEF Handler
  <2> QED BY <1>1, <2>1, <2>2 DEF Handler, At
<1>3. CASE Finish(h) /\ pc = "idle"
  BY <1>1, <1>3, MaxLoginsAssumption DEF Finish, Idle, NoToken, Handler, At
<1> QED BY <1>2, <1>3

LEMMA SessionTyped ==
  ASSUME SessionInv, [Next]_vars
  PROVE  TypeOK' /\ TokensOwned' /\ RevokedRecorded' /\ LoggedOutQuiet'
<1> USE MaxLoginsAssumption
    DEF SessionInv, TypeOK, TokensOwned, RevokedRecorded, LoggedOutQuiet,
        Handler, PCs, Idle, NoToken, Tokens, At, Start, Goto, Finish
<1>1. ASSUME NEW h \in Handlers, Login(h)
      PROVE  TypeOK' /\ TokensOwned' /\ RevokedRecorded' /\ LoggedOutQuiet'
  <2>1. TypeOK'
    BY <1>1 DEF Login, GenerateTokens
  <2>2. TokensOwned'
    BY <1>1 DEF Login, GenerateTokens
  <2>3. RevokedRecorded'
    BY <1>1 DEF Login, GenerateTokens
  <2>4. LoggedOutQuiet'
    BY <1>1 DEF Login, GenerateTokens
  <2> QED BY <2>1, <2>2, <2>3, <2>4
<1>2. ASSUME NEW h \in Handlers, StoreRefreshToken(h)
      PROVE  TypeOK' /\ TokensOwned' /\ RevokedRecorded' /\ LoggedOutQuiet'
  <2>1. TypeOK'
    <3>1. handlers[h].token \in 1..generated /\ handlers[h].token \in Tokens
      BY <1>2 DEF StoreRefreshToken
    <3>2. Idle \in Handler
      OBVIOUS
    <3>3. handlers' \in [Handlers -> Handler]
      BY <1>2, <3>2 DEF StoreRefreshToken
    <3>4. given' = given \union {handlers[h].token} /\ given' \subseteq Tokens
      BY <1>2, <3>1 DEF StoreRefreshToken
    <3> QED BY <1>2, <3>1, <3>3, <3>4 DEF StoreRefreshToken
  <2>2. TokensOwned'
    BY <1>2 DEF StoreRefreshToken
  <2>3. RevokedRecorded'
    BY <1>2 DEF StoreRefreshToken
  <2>4. LoggedOutQuiet'
    BY <1>2 DEF StoreRefreshToken
  <2> QED BY <2>1, <2>2, <2>3, <2>4
<1>3. ASSUME NEW h \in Handlers, Compare(h)
      PROVE  TypeOK' /\ TokensOwned' /\ RevokedRecorded' /\ LoggedOutQuiet'
  <2>1. PICK pc \in {"clear", "idle"} : Goto(h, pc) \/ (Finish(h) /\ pc = "idle")
    BY <1>3 DEF Compare
  <2>2. /\ handlers' \in [Handlers -> Handler]
        /\ At(h, pc)' /\ (pc # "idle" => handlers'[h].token = handlers[h].token)
        /\ \A g \in Handlers \ {h} : handlers'[g] = handlers[g]
    BY <2>1, RequestMoves
  <2>3. TypeOK'
    BY <1>3, <2>2 DEF Compare
  <2>4. TokensOwned'
    <3>1. UNCHANGED <<stored, generated, given>> /\ pc # "store"
      BY <1>3 DEF Compare
    <3>2. handlers[h].token \in given /\ ~At(h, "store")
      BY <1>3 DEF Compare
    <3>3. \A g \in Handlers : At(g, "store")' => At(g, "store") /\ handlers'[g] = handlers[g]
      BY <2>2, <3>1
    <3>4. \A g \in Handlers : ~At(g, "idle")' /\ ~At(g, "store")' => handlers'[g].token \in given
      BY <2>2, <3>2
    <3> QED BY <3>1, <3>3, <3>4
  <2>5. RevokedRecorded' /\ LoggedOutQuiet'
    BY <1>3, <2>2 DEF Compare
  <2> QED BY <2>3, <2>4, <2>5
<1>4. ASSUME NEW h \in Handlers, Rotate(h)
      PROVE  TypeOK' /\ TokensOwned' /\ RevokedRecorded' /\ LoggedOutQuiet'
  <2>1. TypeOK'
    BY <1>4, SMTT(30) DEF Rotate, GenerateTokens
  <2>2. TokensOwned'
    BY <1>4, SMTT(30) DEF Rotate, GenerateTokens
  <2>3. RevokedRecorded'
    BY <1>4 DEF Rotate, GenerateTokens
  <2>4. LoggedOutQuiet'
    BY <1>4 DEF Rotate, GenerateTokens
  <2> QED BY <2>1, <2>2, <2>3, <2>4
<1>5. ASSUME NEW h \in Handlers, Accept(h)
      PROVE  TypeOK' /\ TokensOwned' /\ RevokedRecorded' /\ LoggedOutQuiet'
  <2>1. PICK pc \in {"revoke", "idle"} : Goto(h, pc) \/ (Finish(h) /\ pc = "idle")
    BY <1>5 DEF Accept
  <2>2. /\ handlers' \in [Handlers -> Handler]
        /\ At(h, pc)' /\ (pc # "idle" => handlers'[h].token = handlers[h].token)
        /\ \A g \in Handlers \ {h} : handlers'[g] = handlers[g]
    BY <2>1, RequestMoves
  <2>3. TypeOK'
    BY <1>5, <2>2 DEF Accept
  <2>4. TokensOwned'
    <3>1. UNCHANGED <<stored, generated, given>> /\ pc # "store"
      BY <1>5 DEF Accept
    <3>2. handlers[h].token \in given /\ ~At(h, "store")
      BY <1>5 DEF Accept
    <3>3. \A g \in Handlers : At(g, "store")' => At(g, "store") /\ handlers'[g] = handlers[g]
      BY <2>2, <3>1
    <3>4. \A g \in Handlers : ~At(g, "idle")' /\ ~At(g, "store")' => handlers'[g].token \in given
      BY <2>2, <3>2
    <3> QED BY <3>1, <3>3, <3>4
  <2>5. RevokedRecorded' /\ LoggedOutQuiet'
    BY <1>5, <2>2 DEF Accept
  <2> QED BY <2>3, <2>4, <2>5
<1>6. ASSUME NEW h \in Handlers, Reject(h)
      PROVE  TypeOK' /\ TokensOwned' /\ RevokedRecorded' /\ LoggedOutQuiet'
  <2>1. TypeOK'
    BY <1>6 DEF Reject
  <2>2. TokensOwned'
    BY <1>6 DEF Reject
  <2>3. RevokedRecorded'
    BY <1>6 DEF Reject
  <2>4. LoggedOutQuiet'
    BY <1>6 DEF Reject
  <2> QED BY <2>1, <2>2, <2>3, <2>4
<1>7. ASSUME NEW h \in Handlers, LogoutRevoke(h)
      PROVE  TypeOK' /\ TokensOwned' /\ RevokedRecorded' /\ LoggedOutQuiet'
  <2>1. TypeOK'
    BY <1>7 DEF LogoutRevoke
  <2>2. TokensOwned'
    BY <1>7 DEF LogoutRevoke
  <2>3. RevokedRecorded'
    BY <1>7 DEF LogoutRevoke
  <2>4. LoggedOutQuiet'
    BY <1>7 DEF LogoutRevoke
  <2> QED BY <2>1, <2>2, <2>3, <2>4
<1>8. ASSUME NEW h \in Handlers, LogoutClear(h)
      PROVE  TypeOK' /\ TokensOwned' /\ RevokedRecorded' /\ LoggedOutQuiet'
  <2>1. TypeOK'
    BY <1>8 DEF LogoutClear, LoggedOut
  <2>2. TokensOwned'
    BY <1>8 DEF LogoutClear, LoggedOut
  <2>3. RevokedRecorded'
    BY <1>8 DEF LogoutClear, LoggedOut
  <2>4. LoggedOutQuiet'
    BY <1>8 DEF LogoutClear, LoggedOut
  <2> QED BY <2>1, <2>2, <2>3, <2>4
<1>9. ASSUME NEW h \in Handlers, Abandon(h)
      PROVE  TypeOK' /\ TokensOwned' /\ RevokedRecorded' /\ LoggedOutQuiet'
  <2>1. TypeOK'
    BY <1>9 DEF Abandon
  <2>2. TokensOwned'
    BY <1>9 DEF Abandon
  <2>3. RevokedRecorded'
    BY <1>9 DEF Abandon
  <2>4. LoggedOutQuiet'
    BY <1>9 DEF Abandon
  <2> QED BY <2>1, <2>2, <2>3, <2>4
<1>10. ASSUME NEW h \in Handlers, NEW t \in Tokens, RefreshTokens(h, t)
      PROVE  TypeOK' /\ TokensOwned' /\ RevokedRecorded' /\ LoggedOutQuiet'
  <2>1. TypeOK'
    BY <1>10 DEF RefreshTokens
  <2>2. TokensOwned'
    BY <1>10 DEF RefreshTokens
  <2>3. RevokedRecorded'
    BY <1>10 DEF RefreshTokens
  <2>4. LoggedOutQuiet'
    BY <1>10 DEF RefreshTokens
  <2> QED BY <2>1, <2>2, <2>3, <2>4
<1>11. ASSUME NEW h \in Handlers, NEW t \in Tokens, Authenticate(h, t)
      PROVE  TypeOK' /\ TokensOwned' /\ RevokedRecorded' /\ LoggedOutQuiet'
  <2>1. TypeOK'
    BY <1>11 DEF Authenticate
  <2>2. TokensOwned'
    BY <1>11 DEF Authenticate
  <2>3. RevokedRecorded'
    BY <1>11 DEF Authenticate
  <2>4. LoggedOutQuiet'
    BY <1>11 DEF Authenticate
  <2> QED BY <2>1, <2>2, <2>3, <2>4
<1>12. ASSUME NEW t \in Tokens, RevokeToken(t)
      PROVE  TypeOK' /\ TokensOwned' /\ RevokedRecorded' /\ LoggedOutQuiet'
  <2>1. TypeOK'
    BY <1>12 DEF RevokeToken
  <2>2. TokensOwned'
    BY <1>12 DEF RevokeToken
  <2>3. RevokedRecorded'
    BY <1>12 DEF RevokeToken
  <2>4. LoggedOutQuiet'
    BY <1>12 DEF RevokeToken
  <2> QED BY <2>1, <2>2, <2>3, <2>4
<1>13. ASSUME NEW t \in Tokens, Expire(t)
      PROVE  TypeOK' /\ TokensOwned' /\ RevokedRecorded' /\ LoggedOutQuiet'
  <2>1. TypeOK'
    BY <1>13 DEF Expire
  <2>2. TokensOwned'
    BY <1>13 DEF Expire
  <2>3. RevokedRecorded'
    BY <1>13 DEF Expire
  <2>4. LoggedOutQuiet'
    BY <1>13 DEF Expire
  <2> QED BY <2>1, <2>2, <2>3, <2>4
<1>14. ASSUME PurgeExpired
      PROVE  TypeOK' /\ TokensOwned' /\ RevokedRecorded' /\ LoggedOutQuiet'
  <2>1. TypeOK'
    BY <1>14 DEF PurgeExpired
  <2>2. TokensOwned'
    BY <1>14 DEF PurgeExpired
  <2>3. RevokedRecorded'
    BY <1>14 DEF PurgeExpired
  <2>4. LoggedOutQuiet'
    BY <1>14 DEF PurgeExpired
  <2> QED BY <2>1, <2>2, <2>3, <2>4
<1>15. CASE UNCHANGED vars
  BY <1>15 DEF vars
<1> QED
  BY <1>1, <1>2, <1>3, <1>4, <1>5, <1>6, <1>7, <1>8, <1>9, <1>10, <1>11, <1>12, <1>13, <1>14, <1>15
    DEF Next, Step

\* What is stored next is nothing, or a token nobody was given.
LEMMA SpentStep ==
  ASSUME SessionInv, [Next]_vars
  PROVE  \A t \in given : t \in given' /\ (stored # t => stored' # t)
<1> USE DEF SessionInv, TypeOK, NoToken, Tokens
<1>1. CASE \E h \in Handlers : StoreRefreshToken(h)
  BY <1>1 DEF StoreRefreshToken, TokensOwned
<1>2. CASE UNCHANGED stored /\ UNCHANGED given
  BY <1>2
<1>3. CASE UNCHANGED given /\ stored' = NoToken
  BY <1>3
<1> QED
  BY <1>1, <1>2, <1>3
    DEF Next, Step, Login, Compare, Rotate, Accept, Reject, LogoutRevoke, LogoutClear,
        Abandon, RefreshTokens, Authenticate, RevokeToken, Expire, PurgeExpired, vars

\* Only a request that reads the stored hash becomes a reader of a token.
LEMMA ReadersStep ==
  ASSUME TypeOK, [Next]_vars
  PROVE  \/ \E h \in Handlers : Rotate(h)
         \/ \E h \in Handlers, t \in Tokens : RefreshTokens(h, t)
         \/ UNCHANGED exchanges /\ \A t \in Tokens : Readers(t)' \subseteq Readers(t)
<1> DEFINE NoNewReader == UNCHANGED exchanges /\ \A t \in Tokens : Readers(t)' \subseteq Readers(t)
<1> SUFFICES ASSUME ~(\E h \in Handlers : Rotate(h)),
                    ~(\E h \in Handlers, t \in Tokens : RefreshTokens(h, t))
             PROVE  NoNewReader
  OBVIOUS
<1>1. ASSUME NEW h \in Handlers, UNCHANGED exchanges,
             \A g \in Handlers \ {h} : handlers'[g] = handlers[g],
             ~At(h, "clear")', ~At(h, "compare")'
      PROVE  NoNewReader
  BY <1>1 DEF Readers, At
<1>2. ASSUME NEW h \in Handlers, Compare(h)
      PROVE  NoNewReader
  <2>1. PICK pc \in {"clear", "idle"} :
          /\ Goto(h, pc) \/ (Finish(h) /\ pc = "idle")
          /\ pc = "clear" => handlers[h].token = handlers[h].seen
    BY <1>2 DEF Compare
  <2>2. pc \in PCs
    BY DEF PCs
  <2>3. /\ At(h, pc)' /\ (pc # "idle" => handlers'[h].token = handlers[h].token)
        /\ \A g \in Handlers \ {h} : handlers'[g] = handlers[g]
    BY <2>1, <2>2, RequestMoves
  <2> QED BY <1>2, <2>1, <2>3 DEF Compare, Readers, At
<1>3. ASSUME NEW h \in Handlers, NEW pc \in PCs \ {"clear", "compare"}, UNCHANGED exchanges,
             Goto(h, pc) \/ (Finish(h) /\ pc = "idle")
      PROVE  NoNewReader
  BY <1>1, <1>3, RequestMoves DEF At
<1>4. ASSUME NEW h \in Handlers, NEW pc \in PCs \ {"clear", "compare"}, UNCHANGED exchanges,
             NEW token, Start(h, pc, token, NoToken)
      PROVE  NoNewReader
  BY <1>1, <1>4 DEF At, Start, TypeOK
<1>5. ASSUME NEW h \in Handlers, Login(h) \/ (Step(h) /\ ~Compare(h) /\ ~Rotate(h))
      PROVE  NoNewReader
  BY <1>3, <1>4, <1>5
    DEF Login, GenerateTokens, Step, StoreRefreshToken, Accept, Reject, LogoutRevoke,
        LogoutClear, Abandon, PCs
<1>6. ASSUME NEW h \in Handlers, NEW t \in Tokens, Authenticate(h, t)
      PROVE  NoNewReader
  BY <1>4, <1>6 DEF Authenticate, PCs
<1>7. CASE UNCHANGED <<handlers, exchanges>>
  BY <1>7 DEF Readers, At
<1> QED
  BY <1>2, <1>5, <1>6, <1>7 DEF Next, RevokeToken, Expire, PurgeExpired, vars

LEMMA ExchangesStep ==
  ASSUME SessionInv, [Next]_vars
  PROVE  ExchangesCounted'
<1> USE DEF SessionInv
<1> SUFFICES ASSUME NEW t \in Tokens
             PROVE  /\ exchanges'[t] > 0 => stored' # t /\ t \in given'
                    /\ exchanges'[t] + Cardinality(Readers(t)') <= Cardinality(Handlers)
  BY DEF ExchangesCounted
<1>1. /\ exchanges[t] \in Nat
      /\ exchanges[t] > 0 => stored # t /\ t \in given
      /\ exchanges[t] + Cardinality(Readers(t)) <= Cardinality(Handlers)
  BY DEF ExchangesCounted, TypeOK
<1>2. /\ IsFiniteSet(Readers(t)) /\ Cardinality(Readers(t)) \in Nat
      /\ IsFiniteSet(Readers(t)') /\ Cardinality(Readers(t)') \in Nat
      /\ Cardinality(Readers(t)') <= Cardinality(Handlers) /\ Cardinality(Handlers) \in Nat
  BY HandlersFinite, FS_Subset, FS_CardinalityType DEF Readers
<1>3. ASSUME exchanges'[t] = exchanges[t], Readers(t)' \subseteq Readers(t)
      PROVE  /\ exchanges'[t] > 0 => stored' # t /\ t \in given'
             /\ exchanges'[t] + Cardinality(Readers(t)') <= Cardinality(Handlers)
  <2>1. Cardinality(Readers(t)') <= Cardinality(Readers(t))
    BY <1>2, <1>3, FS_Subset
  <2> QED BY <1>1, <1>2, <1>3, <2>1, SpentStep
<1>4. ASSUME NEW h \in Handlers, Rotate(h)
      PROVE  /\ exchanges'[t] > 0 => stored' # t /\ t \in given'
             /\ exchanges'[t] + Cardinality(Readers(t)') <= Cardinality(Handlers)
  <2>1. /\ \A g \in Handlers \ {h} : handlers'[g] = handlers[g]
        /\ At(h, "store")' /\ At(h, "clear") /\ stored' = NoToken /\ given' = given
    BY <1>4 DEF Rotate, GenerateTokens, Start, At, TypeOK
  <2>2. CASE handlers[h].token = t
    <3>1. t \in given /\ exchanges'[t] = exchanges[t] + 1
      BY <1>4, <2>1, <2>2 DEF Rotate, TokensOwned, TypeOK, At
    <3>2. h \in Readers(t) /\ Readers(t)' \subseteq Readers(t) \ {h}
      BY <2>1, <2>2 DEF Readers, At
    <3>3. /\ IsFiniteSet(Readers(t) \ {h})
          /\ Cardinality(Readers(t) \ {h}) = Cardinality(Readers(t)) - 1
      BY <1>2, <3>2, FS_RemoveElement
    <3>4. Cardinality(Readers(t)') <= Cardinality(Readers(t)) - 1
      BY <3>2, <3>3, FS_Subset
    <3>5. stored' # t
      BY <2>1 DEF Tokens, NoToken
    <3> QED BY <1>1, <1>2, <2>1, <3>1, <3>4, <3>5
  <2>3. CASE handlers[h].token # t
    <3>1. exchanges'[t] = exchanges[t]
      BY <1>4, <2>3 DEF Rotate, TypeOK
    <3>2. Readers(t)' \subseteq Readers(t)
      BY <2>1 DEF Readers, At
    <3> QED BY <1>3, <3>1, <3>2
  <2> QED BY <2>2, <2>3
<1>5. ASSUME NEW h \in Handlers, NEW u \in Tokens, RefreshTokens(h, u)
      PROVE  /\ exchanges'[t] > 0 => stored' # t /\ t \in given'
             /\ exchanges'[t] + Cardinality(Readers(t)') <= Cardinality(Handlers)
  <2>1. /\ \A g \in Handlers \ {h} : handlers'[g] = handlers[g]
        /\ handlers'[h] = [pc |-> "compare", token |-> u, seen |-> stored]
        /\ UNCHANGED <<exchanges, stored, given>>
    BY <1>5 DEF RefreshTokens, Start, TypeOK
  <2>2. CASE stored = t
    BY <1>1, <1>2, <2>1, <2>2
  <2>3. CASE stored # t
    <3>1. Readers(t)' \subseteq Readers(t)
      BY <2>1, <2>3 DEF Readers, At
    <3> QED BY <1>3, <2>1, <3>1
  <2> QED BY <2>2, <2>3
<1> QED BY <1>3, <1>4, <1>5, ReadersStep

LEMMA SessionInductive == SessionInv /\ [Next]_vars => SessionInv'
BY SessionTyped, ExchangesStep DEF SessionInv

LEMMA SessionInvariant == Spec => []SessionInv
BY SessionInit, SessionInductive, PTL DEF Spec

\* One refresh token is exchanged at most once by each of the requests that read
\* the user's row before the first of them rotated it (refreshTokens): a reader
\* that exchanges stops being one, and there are no more readers than requests.
THEOREM ExchangesBounded == Spec => []OverlapBoundsExchanges
<1>1. SessionInv => OverlapBoundsExchanges
  <2> SUFFICES ASSUME SessionInv, NEW t \in Tokens
               PROVE  exchanges[t] + Cardinality({h \in Handlers :
                        At(h, "clear") /\ handlers[h].token = t}) <= Cardinality(Handlers)
    BY DEF OverlapBoundsExchanges, SessionInv
  <2> DEFINE exchanging == {h \in Handlers : At(h, "clear") /\ handlers[h].token = t}
  <2>1. exchanging \subseteq Readers(t)
    BY DEF Readers
  <2>2. IsFiniteSet(Readers(t))
    BY HandlersFinite, FS_Subset DEF Readers
  <2>3. Cardinality(exchanging) <= Cardinality(Readers(t))
        /\ Cardinality(exchanging) \in Nat /\ Cardinality(Readers(t)) \in Nat
    BY <2>1, <2>2, FS_Subset, FS_CardinalityType
  <2>4. Cardinality(Handlers) \in Nat
    BY HandlersFinite, FS_CardinalityType
  <2>5. exchanges[t] \in Nat /\ exchanges[t] + Cardinality(Readers(t)) <= Cardinality(Handlers)
    BY DEF SessionInv, TypeOK, ExchangesCounted
  <2> QED BY <2>3, <2>4, <2>5
<1> QED BY <1>1, SessionInvariant, PTL

\* No refresh token that stopped working works again, whichever requests still
\* know it (generateRefreshToken, refreshTokens).
THEOREM SpentTokensStaySpent == Spec => SpentStaysSpent
<1>1. SessionInv /\ [Next]_vars => [\A t \in given : stored # t => stored' # t]_vars
  BY SpentStep
<1> QED BY <1>1, SessionInvariant, PTL DEF Spec, SpentStaysSpent

\* A revoked access token is not let through while the blacklist is purged of
\* expired rows (isRevoked, purgeExpired): its row stays until it has expired.
THEOREM RevokedTokensRejected == Spec => RevokedNotAccepted
<1>1. ASSUME SessionInv, [Next]_vars, NEW h \in Handlers, At(h, "checkRevoked"), At(h, "revoke")'
      PROVE  handlers[h].token \notin everRevoked \ expired
  <2> USE DEF SessionInv
  <2>1. ASSUME NEW g \in Handlers, Step(g) \/ Login(g)
        PROVE  Accept(h)
    BY <1>1, <2>1
      DEF Step, Login, GenerateTokens, StoreRefreshToken, Compare, Rotate, Reject,
          Accept, LogoutRevoke, LogoutClear, Abandon, Start, Goto, Finish, Idle, At,
          TypeOK
  <2>2. Accept(h)
    BY <1>1, <2>1
      DEF Next, RefreshTokens, Authenticate, Start, RevokeToken, Expire, PurgeExpired,
          vars, At, TypeOK
  <2> QED BY <1>1, <2>2 DEF Accept, RevokedRecorded
<1>2. SessionInv /\ [Next]_vars =>
        [\A h \in Handlers : At(h, "checkRevoked") /\ At(h, "revoke")'
           => handlers[h].token \notin everRevoked \ expired]_vars
  BY <1>1
<1> QED BY <1>2, SessionInvariant, PTL DEF Spec, RevokedNotAccepted

\* After a logout nothing overlapped, no refresh token works until a login is
\* asked for (logout): a request that could store one needs one that is stored.
THEOREM LogoutForgetsToken == Spec => []LoggedOutHasNoToken
<1>1. SessionInv => LoggedOutHasNoToken
  BY DEF SessionInv, LoggedOutQuiet, LoggedOutHasNoToken
<1> QED BY <1>1, SessionInvariant, PTL

-----------------------------------------------------------------------------
(* Accounts *)

HoldsKey(r) == InProgress(r, "storeKey") \/ InProgress(r, "replaceKey")

(* Requests that write to a row go on from having found it.                 *)
RowsFound ==
  \A r \in Requests : InProgress(r, "link") \/ HoldsKey(r) => Exists(requests[r].email)

(* A Google account is linked to one row, and to any row it logged in to    *)
(* unless another account took that over.                                   *)
LinksKept ==
  /\ \A e, f \in Emails : rows[e].sub = rows[f].sub /\ rows[e].sub \in Subs => e = f
  /\ \A s \in Subs \ overwritten : \A e \in reached[s] : rows[e].sub = s

(* The key a request is about to store is known to nobody else.             *)
KeysOwned ==
  /\ \A e \in Emails : rows[e].key <= keys
  /\ \A r \in Requests : HoldsKey(r) =>
       /\ requests[r].key \in (1..keys) \ givenKeys
       /\ \A e \in Emails : rows[e].key # requests[r].key
  /\ \A q, r \in Requests :
       HoldsKey(q) /\ HoldsKey(r) /\ requests[q].key = requests[r].key => q = r

(* After a revocation that no generation overlapped, none is in progress.   *)
RevokedQuiet ==
  \A e \in Emails : keyRevoked[e] = "alone" =>
    /\ rows[e].key \notin givenKeys
    /\ \A r \in Requests : InProgress(r, "storeKey") => requests[r].email # e

AccountsInv ==
  /\ AccountsTypeOK /\ OneCreator
  /\ RowsFound /\ LinksKept /\ KeysOwned /\ RevokedQuiet

LEMMA RequestFacts ==
  ASSUME AccountsTypeOK, NEW r \in Requests
  PROVE  /\ requests[r].pc \in {"idle", "insert", "findEmail", "link", "insertLinked",
                                "storeKey", "replaceKey"}
         /\ ~InProgress(r, "idle") => requests[r].email \in Emails
         /\ requests[r].pc \in {"findEmail", "link", "insertLinked"} =>
              /\ requests[r].sub \in Subs
              /\ \A pc : [requests[r] EXCEPT !.pc = pc]
                           = [pc |-> pc, email |-> requests[r].email, sub |-> requests[r].sub]
         /\ HoldsKey(r) => requests[r].key \in 1..MaxKeys
<1>1. requests[r] \in InRequest
  BY DEF AccountsTypeOK
<1> QED BY <1>1 DEF InRequest, NoRequest, InProgress, HoldsKey

LEMMA RowFacts ==
  ASSUME AccountsTypeOK, NEW e \in Emails
  PROVE  /\ rows[e].sub \in Subs \union {NoSub} /\ rows[e].key \in Int
         /\ Exists(e) <=> rows[e].key \in 0..MaxKeys
         /\ ~Exists(e) <=> rows[e].key = -1
         /\ ~Exists(e) => rows[e].sub = NoSub
         /\ \A s \in Subs \union {NoSub} :
              [rows[e] EXCEPT !.sub = s] = [sub |-> s, key |-> rows[e].key]
         /\ \A k \in 0..MaxKeys : [rows[e] EXCEPT !.key = k] = [sub |-> rows[e].sub, key |-> k]
<1>1. rows[e] \in Rows
  BY DEF AccountsTypeOK
<1> QED BY <1>1, MaxKeysAssumption DEF Rows, NoRow, Exists

LEMMA AccountsStart == AccountsInit => AccountsInv
<1> SUFFICES ASSUME AccountsInit PROVE AccountsInv
  OBVIOUS
<1> USE MaxKeysAssumption, NoSubAssumption DEF AccountsInit
<1>1. AccountsTypeOK
  BY DEF AccountsTypeOK, Rows, InRequest
<1>2. OneCreator
  BY DEF OneCreator, Exists
<1>3. RowsFound /\ KeysOwned /\ RevokedQuiet
  BY DEF RowsFound, KeysOwned, RevokedQuiet, HoldsKey, InProgress, NoRequest, NoRow
<1>4. LinksKept
  BY DEF LinksKept, NoRow
<1> QED BY <1>1, <1>2, <1>3, <1>4 DEF AccountsInv

\* A request that ends, and changes nothing else, leaves the invariant.
LEMMA RequestEnds ==
  ASSUME AccountsInv, NEW r \in Requests, Ends(r), UNCHANGED <<rows, keyVars, identityVars>>
  PROVE  AccountsInv'
<1> USE DEF AccountsInv, Ends, Becomes, identityVars, keyVars
<1>1. AccountsTypeOK'
  BY DEF AccountsTypeOK, InRequest
<1>2. \A q \in Requests : requests'[q].pc # "idle" => requests'[q] = requests[q]
  BY DEF AccountsTypeOK, NoRequest
<1>3. OneCreator' /\ RowsFound' /\ LinksKept' /\ KeysOwned' /\ RevokedQuiet'
  BY <1>2
    DEF OneCreator, RowsFound, LinksKept, KeysOwned, RevokedQuiet, HoldsKey, InProgress,
        Exists
<1> QED BY <1>1, <1>3

LEMMA AccountsInductive == AccountsInv /\ [AccountsNext]_accountVars => AccountsInv'
<1> SUFFICES ASSUME AccountsInv, [AccountsNext]_accountVars PROVE AccountsInv'
  OBVIOUS
<1> USE MaxKeysAssumption, NoSubAssumption, RequestFacts, RowFacts
    DEF AccountsInv, Becomes, Ends, identityVars, keyVars
<1>1. ASSUME NEW r \in Requests, NEW e \in Emails, Register(r, e)
      PROVE  AccountsInv'
  <2> USE <1>1 DEF Register
  <2>1. AccountsTypeOK'
    BY DEF AccountsTypeOK, InRequest
  <2>2. OneCreator'
    BY DEF OneCreator, Exists
  <2>3. RowsFound'
    BY DEF RowsFound, HoldsKey, InProgress, Exists
  <2>4. LinksKept'
    BY DEF LinksKept
  <2>5. KeysOwned'
    BY DEF KeysOwned, HoldsKey, InProgress
  <2>6. RevokedQuiet'
    BY DEF RevokedQuiet, InProgress
  <2> QED BY <2>1, <2>2, <2>3, <2>4, <2>5, <2>6
<1>2. ASSUME NEW r \in Requests, NEW e \in Emails, GenerateApiKey(r, e)
      PROVE  AccountsInv'
  <2> USE <1>2 DEF GenerateApiKey, GenerateKey
  <2>1. AccountsTypeOK'
    BY DEF AccountsTypeOK, InRequest
  <2>2. OneCreator'
    BY DEF OneCreator, Exists
  <2>3. RowsFound'
    BY DEF RowsFound, HoldsKey, InProgress, Exists
  <2>4. LinksKept'
    BY DEF LinksKept
  <2>5. KeysOwned'
    BY DEF AccountsTypeOK, KeysOwned, HoldsKey, InProgress
  <2>6. RevokedQuiet'
    BY DEF AccountsTypeOK, RevokedQuiet, InProgress
  <2> QED BY <2>1, <2>2, <2>3, <2>4, <2>5, <2>6
<1>3. ASSUME NEW r \in Requests, NEW e \in Emails, RevokeApiKey(r, e)
      PROVE  AccountsInv'
  <2> USE <1>3 DEF RevokeApiKey, GenerateKey
  <2>1. AccountsTypeOK'
    BY DEF AccountsTypeOK, InRequest
  <2>2. OneCreator'
    BY DEF OneCreator, Exists
  <2>3. RowsFound'
    BY DEF RowsFound, HoldsKey, InProgress, Exists
  <2>4. LinksKept'
    BY DEF LinksKept
  <2>5. KeysOwned'
    BY DEF AccountsTypeOK, KeysOwned, HoldsKey, InProgress
  <2>6. RevokedQuiet'
    BY DEF RevokedQuiet, InProgress
  <2> QED BY <2>1, <2>2, <2>3, <2>4, <2>5, <2>6
<1>4. ASSUME NEW r \in Requests, NEW s \in Subs, NEW e \in Emails, SocialLogin(r, s, e)
      PROVE  AccountsInv'
  <2> USE <1>4 DEF SocialLogin, Reach
  <2>1. AccountsTypeOK'
    <3>1. requests' \in [Requests -> InRequest]
      BY DEF AccountsTypeOK, InRequest
    <3>2. reached' \in [Subs -> SUBSET Emails]
      BY DEF AccountsTypeOK, Holders
    <3> QED BY <3>1, <3>2 DEF AccountsTypeOK
  <2>2. OneCreator'
    BY DEF OneCreator, Exists
  <2>3. RowsFound'
    BY DEF AccountsTypeOK, RowsFound, HoldsKey, InProgress, Exists
  <2>4. LinksKept'
    BY DEF AccountsTypeOK, LinksKept, Holders
  <2>5. KeysOwned'
    BY DEF AccountsTypeOK, KeysOwned, HoldsKey, InProgress
  <2>6. RevokedQuiet'
    BY DEF AccountsTypeOK, RevokedQuiet, InProgress
  <2> QED BY <2>1, <2>2, <2>3, <2>4, <2>5, <2>6
<1>5. ASSUME NEW r \in Requests, Insert(r)
      PROVE  AccountsInv'
  <2> USE <1>5 DEF Insert, Create
  <2>1. AccountsTypeOK'
    BY DEF AccountsTypeOK, Rows, InRequest, NoKey, RowsFound, Exists
  <2>2. OneCreator'
    BY DEF AccountsTypeOK, OneCreator, Exists, NoKey
  <2>3. RowsFound'
    BY DEF AccountsTypeOK, RowsFound, HoldsKey, InProgress, NoRequest, Exists
  <2>4. LinksKept'
    BY DEF AccountsTypeOK, LinksKept, InProgress
  <2>5. KeysOwned'
    BY SMTT(30) DEF AccountsTypeOK, KeysOwned, HoldsKey, InProgress, NoRequest, NoKey
  <2>6. RevokedQuiet'
    BY SMTT(30) DEF AccountsTypeOK, RevokedQuiet, InProgress, NoRequest, NoKey
  <2> QED BY <2>1, <2>2, <2>3, <2>4, <2>5, <2>6
<1>6. ASSUME NEW r \in Requests, FindByEmail(r)
      PROVE  AccountsInv'
  <2> USE <1>6 DEF FindByEmail
  <2>1. AccountsTypeOK'
    BY DEF AccountsTypeOK, InRequest, NoRequest, InProgress
  <2>2. OneCreator'
    BY DEF OneCreator, Exists
  <2>3. RowsFound'
    BY DEF RowsFound, HoldsKey, InProgress, Exists
  <2>4. LinksKept'
    BY DEF LinksKept
  <2>5. KeysOwned'
    BY DEF KeysOwned, HoldsKey, InProgress
  <2>6. RevokedQuiet'
    BY DEF RevokedQuiet, InProgress
  <2> QED BY <2>1, <2>2, <2>3, <2>4, <2>5, <2>6
<1>7. ASSUME NEW r \in Requests, Link(r)
      PROVE  AccountsInv'
  <2> USE <1>7 DEF Link, Reach
  <2> DEFINE e == requests[r].email
             s == requests[r].sub
  <2>1. e \in Emails /\ s \in Subs /\ Exists(e)
    BY DEF InProgress, RowsFound
  <2>2. CASE ~(Holders(s) \subseteq {e})
    <3>1. UNCHANGED <<rows, overwritten, reached>>
      BY <2>2
    <3>2. /\ requests' = [requests EXCEPT ![r] = NoRequest]
          /\ UNCHANGED <<created, keys, givenKeys, keyRevoked>>
      OBVIOUS
    <3> QED BY <3>1, <3>2, RequestEnds
  <2>3. CASE Holders(s) \subseteq {e}
    <3>1. /\ rows' = [rows EXCEPT ![e] = [sub |-> s, key |-> rows[e].key]]
          /\ overwritten' = overwritten \union ({rows[e].sub} \ {s, NoSub})
          /\ reached' = [reached EXCEPT ![s] = @ \union {e}]
      BY <2>1, <2>3 DEF AccountsTypeOK
    <3>2. AccountsTypeOK'
      <4>1. rows' \in [Emails -> Rows]
        BY <2>1, <3>1 DEF AccountsTypeOK, Rows
      <4>2. requests' \in [Requests -> InRequest]
        BY DEF AccountsTypeOK, InRequest
      <4>3. overwritten' \subseteq Subs /\ reached' \in [Subs -> SUBSET Emails]
        BY <2>1, <3>1 DEF AccountsTypeOK
      <4> QED BY <4>1, <4>2, <4>3 DEF AccountsTypeOK
    <3>3. OneCreator' /\ RowsFound'
      <4>1. \A f \in Emails : Exists(f)' <=> Exists(f)
        BY <2>1, <3>1 DEF Exists, NoRow, AccountsTypeOK
      <4> QED BY <4>1 DEF OneCreator, RowsFound, HoldsKey, InProgress, NoRequest
    <3>4. LinksKept'
      <4>1. \A f \in Emails : rows[f].sub = s => f = e
        BY <2>3 DEF Holders
      <4>2. \A f \in Emails : rows'[f].sub = IF f = e THEN s ELSE rows[f].sub
        BY <2>1, <3>1 DEF AccountsTypeOK
      <4>3. \A f, g \in Emails : rows'[f].sub = rows'[g].sub /\ rows'[f].sub \in Subs => f = g
        BY <4>1, <4>2 DEF LinksKept
      <4>4. \A t \in Subs \ overwritten' : \A f \in reached'[t] : rows'[f].sub = t
        <5> SUFFICES ASSUME NEW t \in Subs, t \notin overwritten', NEW f \in reached'[t]
                     PROVE  rows'[f].sub = t
          OBVIOUS
        <5>1. t \notin overwritten /\ (t = s \/ rows[e].sub # t)
          BY <3>1
        <5>2. f \in Emails /\ (f \in reached[t] \/ (t = s /\ f = e))
          BY <2>1, <3>1 DEF AccountsTypeOK
        <5>3. f \in reached[t] => rows[f].sub = t
          BY <5>1 DEF LinksKept
        <5> QED BY <4>2, <5>1, <5>2, <5>3
      <4> QED BY <4>3, <4>4 DEF LinksKept
    <3>5. \A f \in Emails : rows'[f].key = rows[f].key
      BY <2>1, <3>1 DEF AccountsTypeOK
    <3>6. KeysOwned' /\ RevokedQuiet'
      BY <3>5 DEF KeysOwned, RevokedQuiet, HoldsKey, InProgress, NoRequest
    <3> QED BY <3>2, <3>3, <3>4, <3>6
  <2> QED BY <2>2, <2>3
<1>8. ASSUME NEW r \in Requests, InsertLinked(r)
      PROVE  AccountsInv'
  <2> USE <1>8 DEF InsertLinked, Create, Reach
  <2>1. AccountsTypeOK'
    <3>1. requests' \in [Requests -> InRequest]
      BY DEF AccountsTypeOK, InRequest
    <3>2. reached' \in [Subs -> SUBSET Emails]
      BY DEF AccountsTypeOK, InProgress
    <3>3. rows' \in [Emails -> Rows] /\ created' \in [Emails -> Nat]
      BY DEF AccountsTypeOK, InProgress, Rows, NoKey
    <3> QED BY <3>1, <3>2, <3>3 DEF AccountsTypeOK
  <2>2. OneCreator'
    BY DEF AccountsTypeOK, OneCreator, Exists, NoKey
  <2>3. RowsFound'
    BY DEF AccountsTypeOK, RowsFound, HoldsKey, InProgress, NoRequest, Exists
  <2>4. LinksKept'
    BY DEF AccountsTypeOK, LinksKept, Holders, InProgress
  <2>5. KeysOwned'
    BY DEF AccountsTypeOK, KeysOwned, HoldsKey, InProgress, NoRequest, NoKey
  <2>6. RevokedQuiet'
    BY DEF AccountsTypeOK, RevokedQuiet, InProgress, NoRequest, NoKey
  <2> QED BY <2>1, <2>2, <2>3, <2>4, <2>5, <2>6
<1>9. ASSUME NEW r \in Requests, StoreKey(r)
      PROVE  AccountsInv'
  <2> USE <1>9 DEF StoreKey
  <2> DEFINE e == requests[r].email
             k == requests[r].key
  <2>0. /\ e \in Emails /\ Exists(e) /\ k \in 1..MaxKeys /\ HoldsKey(r)
        /\ rows' = [rows EXCEPT ![e] = [sub |-> rows[e].sub, key |-> k]]
    <3>1. e \in Emails /\ Exists(e) /\ k \in 1..MaxKeys /\ HoldsKey(r)
      BY DEF RowsFound, HoldsKey, InProgress
    <3>2. [rows[e] EXCEPT !.key = k] = [sub |-> rows[e].sub, key |-> k]
      BY <3>1
    <3>3. rows' = [rows EXCEPT ![e] = [rows[e] EXCEPT !.key = k]]
      BY <3>1 DEF AccountsTypeOK
    <3> QED BY <3>1, <3>2, <3>3
  <2>1. AccountsTypeOK'
    <3>1. rows' \in [Emails -> Rows]
      BY <2>0 DEF AccountsTypeOK, Rows
    <3>2. requests' \in [Requests -> InRequest]
      BY DEF AccountsTypeOK, InRequest
    <3>3. givenKeys' \subseteq 1..keys'
      BY <2>0 DEF AccountsTypeOK, KeysOwned
    <3>4. keyRevoked' \in [Emails -> {"no", "alone", "overlapped"}]
      BY DEF AccountsTypeOK
    <3> QED BY <3>1, <3>2, <3>3, <3>4 DEF AccountsTypeOK
  <2>2. OneCreator'
    BY <2>0 DEF OneCreator, Exists, NoRow
  <2>3. RowsFound'
    BY DEF RowsFound, HoldsKey, InProgress, NoRequest, Exists, NoRow
  <2>4. LinksKept'
    BY DEF LinksKept
  <2>5. KeysOwned'
    BY DEF AccountsTypeOK, KeysOwned, HoldsKey, InProgress, NoRequest
  <2>6. RevokedQuiet'
    BY DEF RevokedQuiet, KeysOwned, HoldsKey, InProgress, NoRequest
  <2> QED BY <2>1, <2>2, <2>3, <2>4, <2>5, <2>6
<1>10. ASSUME NEW r \in Requests, ReplaceKey(r)
      PROVE  AccountsInv'
  <2> USE <1>10 DEF ReplaceKey, KeyRevoked
  <2> DEFINE e == requests[r].email
             k == requests[r].key
  <2>0. /\ e \in Emails /\ Exists(e) /\ k \in 1..MaxKeys /\ HoldsKey(r)
        /\ rows' = [rows EXCEPT ![e] = [sub |-> rows[e].sub, key |-> k]]
    <3>1. e \in Emails /\ Exists(e) /\ k \in 1..MaxKeys /\ HoldsKey(r)
      BY DEF RowsFound, HoldsKey, InProgress
    <3>2. [rows[e] EXCEPT !.key = k] = [sub |-> rows[e].sub, key |-> k]
      BY <3>1
    <3>3. rows' = [rows EXCEPT ![e] = [rows[e] EXCEPT !.key = k]]
      BY <3>1 DEF AccountsTypeOK
    <3> QED BY <3>1, <3>2, <3>3
  <2>1. AccountsTypeOK'
    <3>1. rows' \in [Emails -> Rows]
      BY <2>0 DEF AccountsTypeOK, Rows
    <3>2. requests' \in [Requests -> InRequest]
      BY DEF AccountsTypeOK, InRequest
    <3>3. givenKeys' \subseteq 1..keys'
      BY <2>0 DEF AccountsTypeOK, KeysOwned
    <3>4. keyRevoked' \in [Emails -> {"no", "alone", "overlapped"}]
      BY DEF AccountsTypeOK
    <3> QED BY <3>1, <3>2, <3>3, <3>4 DEF AccountsTypeOK
  <2>2. OneCreator'
    BY <2>0 DEF OneCreator, Exists, NoRow
  <2>3. RowsFound'
    BY DEF RowsFound, HoldsKey, InProgress, NoRequest, Exists, NoRow
  <2>4. LinksKept'
    BY DEF LinksKept
  <2>5. KeysOwned'
    BY DEF AccountsTypeOK, KeysOwned, HoldsKey, InProgress, NoRequest
  <2>6. RevokedQuiet'
    BY DEF AccountsTypeOK, RevokedQuiet, KeysOwned, HoldsKey, InProgress, NoRequest,
          StoresKeyOf
  <2> QED BY <2>1, <2>2, <2>3, <2>4, <2>5, <2>6
<1>11. ASSUME NEW r \in Requests, Fail(r)
       PROVE  AccountsInv'
  BY <1>11, RequestEnds DEF Fail
<1>12. CASE UNCHANGED accountVars
  BY <1>12
    DEF accountVars, AccountsTypeOK, OneCreator, RowsFound, LinksKept, KeysOwned,
        RevokedQuiet, HoldsKey, InProgress, Exists
<1> QED
  BY <1>1, <1>2, <1>3, <1>4, <1>5, <1>6, <1>7, <1>8, <1>9, <1>10, <1>11, <1>12
    DEF AccountsNext

LEMMA AccountsInvariant == AccountsSpec => []AccountsInv
BY AccountsStart, AccountsInductive, PTL DEF AccountsSpec

\* A person has one row: a row is created by one request, and a Google account
\* reaches one row unless another account took that over (register, socialLogin).
THEOREM OneRowForEach == AccountsSpec => []OneRowEach
<1>1. ASSUME AccountsInv, NEW s \in Subs, Cardinality(reached[s]) > 1
      PROVE  s \in overwritten
  <2> SUFFICES ASSUME s \notin overwritten PROVE FALSE
    OBVIOUS
  <2>1. reached[s] \subseteq Emails
    BY <1>1 DEF AccountsInv, AccountsTypeOK
  <2>2. \A e, f \in reached[s] : e = f
    BY <1>1, <2>1 DEF AccountsInv, LinksKept
  <2>3. CASE reached[s] = {}
    BY <1>1, <2>3, FS_EmptySet
  <2>4. ASSUME NEW e \in reached[s]
        PROVE  Cardinality(reached[s]) = 1
    <3>1. reached[s] = {e}
      BY <2>2, <2>4
    <3> QED BY <3>1, FS_Singleton
  <2> QED BY <1>1, <2>3, <2>4
<1>2. AccountsInv => OneRowEach
  BY <1>1 DEF OneRowEach, IdentityKeepsRow, AccountsInv
<1> QED BY <1>2, AccountsInvariant, PTL

\* What a step stores as the key of a row is no key that a client holds.
LEMMA KeyStep ==
  ASSUME AccountsInv, [AccountsNext]_accountVars
  PROVE  \A e \in Emails : rows'[e].key = rows[e].key \/ rows'[e].key \notin givenKeys
<1> USE RequestFacts DEF AccountsInv
<1>1. ASSUME NEW r \in Requests, StoreKey(r) \/ ReplaceKey(r)
      PROVE  \A e \in Emails : rows'[e].key = rows[e].key \/ rows'[e].key \notin givenKeys
  <2>1. HoldsKey(r) /\ requests[r].key \notin givenKeys
    BY <1>1 DEF StoreKey, ReplaceKey, KeysOwned, HoldsKey
  <2>2. rows' = [rows EXCEPT ![requests[r].email].key = requests[r].key]
    BY <1>1 DEF StoreKey, ReplaceKey
  <2> QED BY <2>1, <2>2 DEF AccountsTypeOK
<1>2. ASSUME NEW r \in Requests, Insert(r) \/ InsertLinked(r)
      PROVE  \A e \in Emails : rows'[e].key = rows[e].key \/ rows'[e].key \notin givenKeys
  <2>1. NoKey \notin givenKeys
    BY MaxKeysAssumption DEF AccountsTypeOK, NoKey
  <2> QED BY <1>2, <2>1 DEF Insert, InsertLinked, Create, AccountsTypeOK
<1>3. ASSUME NEW r \in Requests, Link(r)
      PROVE  \A e \in Emails : rows'[e].key = rows[e].key
  <2>1. CASE UNCHANGED rows
    BY <2>1
  <2>2. CASE rows' = [rows EXCEPT ![requests[r].email].sub = requests[r].sub]
    <3>1. requests[r].email \in Emails /\ requests[r].sub \in Subs
      BY <1>3 DEF Link, InProgress
    <3>2. [rows[requests[r].email] EXCEPT !.sub = requests[r].sub].key = rows[requests[r].email].key
      BY <3>1, RowFacts
    <3> QED BY <2>2, <3>1, <3>2 DEF AccountsTypeOK
  <2> QED BY <1>3, <2>1, <2>2 DEF Link
<1>4. CASE UNCHANGED rows
  BY <1>4
<1> QED
  BY <1>1, <1>2, <1>3, <1>4
    DEF AccountsNext, Register, GenerateApiKey, RevokeApiKey, GenerateKey, SocialLogin,
        FindByEmail, Fail, accountVars

\* A revoked API key is dead until one is asked for, and one that stopped working
\* never works again (generateApiKey, revokeApiKey, validateApiKey): the key a
\* request is about to store is known to nobody.
THEOREM DeadKeysStayDead == AccountsSpec => KeysStayDead
<1>1. AccountsInv' => RevokedKeyDead'
  BY DEF AccountsInv, RevokedQuiet, RevokedKeyDead
<1>2. ASSUME AccountsInv, [AccountsNext]_accountVars
      PROVE  \A k \in givenKeys : ~Validates(k) => ~Validates(k)'
  BY <1>2, KeyStep DEF Validates
<1>3. AccountsInv /\ AccountsInv' /\ [AccountsNext]_accountVars =>
        [/\ RevokedKeyDead'
         /\ \A k \in givenKeys : ~Validates(k) => ~Validates(k)']_accountVars
  BY <1>1, <1>2
<1> QED BY <1>3, AccountsInvariant, PTL DEF AccountsSpec, KeysStayDead

=============================================================================
