---------------------------- MODULE Services_proofs ---------------------------
(***************************************************************************)
(* Proofs about six of the services: the drift detection of a portfolio    *)
(* (DriftDetection), the uploads of large files (ChunkedUploads), the       *)
(* staking of several assets (StakingPortfolio), executions of plans        *)
(* (Rebalancing), what counts the requests (Monitoring) and what limits     *)
(* them (RateLimiter).                                                      *)
(*                                                                          *)
(* Drift.  What an alert, a snapshot and a webhook's calls promise rests on *)
(* three invariants: OneAlert relates the alerts that wait to the breaches  *)
(* of the last calculation, Follows the status of a snapshot to the drift   *)
(* it was calculated from, before rounding, and Told the calls of a webhook *)
(* to the alerts ever raised, which is a sum over the assets.               *)
(*                                                                          *)
(* Uploads.  The parts of a file are in order when a client sends them one  *)
(* after the other and nothing fails in between: TurnsTaken says what the   *)
(* file on disk, the answers and the requests under way have in common then.*)
(* The signature that a file is compared with is the first that it declares *)
(* (FirstDeclared).                                                         *)
(*                                                                          *)
(* Staking.  What a staker holds of an asset is a sum over the positions;   *)
(* the lemmas say what a stake, an item of a withdrawal and a day do to it, *)
(* and the items of a request are a fold: Accounts is what every one of     *)
(* them keeps.                                                              *)
(*                                                                          *)
(* Rebalancing.  The planner and the fee calculator sum up the same costs   *)
(* (CostSum, FeesSum), and the slippage of a trade is the estimate's.       *)
(*                                                                          *)
(* Monitoring.  CountsAgree counts the requests in progress and those that  *)
(* have ended.  An evaluation is a fold over the rules (RulesInOrder): it   *)
(* leaves the alerts a bounded history, and an alert that it neither shows  *)
(* nor resolves goes down by a place for each other rule at most.  Decided  *)
(* says that only the rule of the error rate can meet this, ErrorAlertSafe  *)
(* that the evaluations in progress cannot push its alert out.              *)
(*                                                                          *)
(* Rate limiter.  Followed says what the state of a key still tells of the  *)
(* admissions: a window remembers the last of them and all others are out   *)
(* of it, what is in a bucket and what was taken from it are no more than   *)
(* its capacity and the refill, and a state that was pruned had nothing to  *)
(* tell any more.                                                           *)
(***************************************************************************)
EXTENDS DriftDetection, ChunkedUploads, StakingPortfolio, Rebalancing, Monitoring,
        RateLimiter, SumTheorems, SequenceTheorems

-----------------------------------------------------------------------------
(* Drift detection: the numbers of a calculation.                           *)

LEMMA MaxOfNaturals ==
  ASSUME NEW S, IsFiniteSet(S), S # {}, S \subseteq Nat
  PROVE  Max(S) \in S /\ \A x \in S : Max(S) >= x
<1>1. S \subseteq Int
  OBVIOUS
<1> QED BY <1>1, MaxOfSome

LEMMA DivisionTyped == \A a \in Nat, b \in Nat \ {0} : a \div b \in Nat
OBVIOUS

LEMMA RoundedNear ==
  /\ \A d \in Nat : Rounded(d) \in Nat /\ Rounded(d) - d \in -4..5
  /\ \A d, e \in Nat : d <= e => Rounded(d) <= Rounded(e)
BY DEF Rounded

LEMMA LevelTyped == \A d, t : Level(d, t) \in Levels
BY DEF Level, Levels, Severities

\* The weights of a request.
Weighted(weights) == \E S \in SUBSET Symbols : weights \in [S -> Weights]

LEMMA DriftsTyped ==
  ASSUME NEW weights, Weighted(weights)
  PROVE  /\ DOMAIN weights \subseteq Symbols /\ IsFiniteSet(DOMAIN weights)
         /\ \A a \in DOMAIN weights : Drift(weights, a) \in Nat
<1>1. PICK S \in SUBSET Symbols : weights \in [S -> Weights]
  BY DEF Weighted
<1>2. IsFiniteSet(S)
  BY DriftAssumption, FS_Subset
<1>3. \A a \in S : weights[a] \in Nat /\ Target[a] \in Nat
  BY <1>1, DriftAssumption
<1> QED BY <1>1, <1>2, <1>3 DEF Drift

\* The values of a function on a finite set, and 0, have a maximum.
LEMMA MaxOfValues ==
  ASSUME NEW f, IsFiniteSet(DOMAIN f), f = [a \in DOMAIN f |-> f[a]],
         \A a \in DOMAIN f : f[a] \in Nat,
         NEW V, V = {0} \union {f[a] : a \in DOMAIN f}
  PROVE  Max(V) \in V /\ Max(V) \in Nat /\ \A a \in DOMAIN f : Max(V) >= f[a]
<1> DEFINE T == {f[a] : a \in DOMAIN f}
<1>1. f \in Surjection(DOMAIN f, T)
  BY DEF Surjection
<1>2. IsFiniteSet(T)
  BY <1>1, FS_Surjection
<1>3. IsFiniteSet(V) /\ V # {} /\ V \subseteq Nat
  <2>1. IsFiniteSet({0}) /\ V = {0} \union T
    BY FS_Singleton
  <2>2. IsFiniteSet(V)
    <3>1. \A A, B : IsFiniteSet(A) /\ IsFiniteSet(B) => IsFiniteSet(A \union B)
      BY FS_Union
    <3> HIDE DEF T
    <3> QED BY <1>2, <2>1, <3>1
  <2> QED BY <2>2
<1>4. Max(V) \in V /\ \A x \in V : Max(V) >= x
  BY <1>3, MaxOfNaturals
<1> QED BY <1>3, <1>4

Exact(weights) == Max({0} \union {Drift(weights, a) : a \in DOMAIN weights})

LEMMA ExactDrift ==
  ASSUME NEW weights, Weighted(weights)
  PROVE  /\ Exact(weights) \in Nat
         /\ \A a \in DOMAIN weights : Exact(weights) >= Drift(weights, a)
         /\ Exact(weights) = 0 \/ \E a \in DOMAIN weights : Exact(weights) = Drift(weights, a)
<1> DEFINE f == [a \in DOMAIN weights |-> Drift(weights, a)]
           V == {0} \union {Drift(weights, a) : a \in DOMAIN weights}
<1>1. /\ DOMAIN f = DOMAIN weights /\ V = {0} \union {f[a] : a \in DOMAIN f}
      /\ \A a \in DOMAIN f : f[a] = Drift(weights, a)
      /\ f = [a \in DOMAIN f |-> f[a]]
  OBVIOUS
<1>2. IsFiniteSet(DOMAIN f) /\ \A a \in DOMAIN f : f[a] \in Nat
  BY <1>1, DriftsTyped
<1> HIDE DEF f
<1>3. Max(V) \in V /\ Max(V) \in Nat /\ \A a \in DOMAIN f : Max(V) >= f[a]
  <2> HIDE DEF V
  <2> QED BY <1>1, <1>2, MaxOfValues
<1> QED BY <1>1, <1>3 DEF Exact

LEMMA MaxRounded ==
  ASSUME NEW weights, Weighted(weights)
  PROVE  MaxDrift(weights) = Rounded(Exact(weights))
<1> DEFINE f == [a \in DOMAIN weights |-> Rounded(Drift(weights, a))]
           V == {0} \union {Rounded(Drift(weights, a)) : a \in DOMAIN weights}
<1>1. /\ DOMAIN f = DOMAIN weights /\ V = {0} \union {f[a] : a \in DOMAIN f}
      /\ \A a \in DOMAIN f : f[a] = Rounded(Drift(weights, a))
      /\ f = [a \in DOMAIN f |-> f[a]]
  OBVIOUS
<1>2. IsFiniteSet(DOMAIN f) /\ \A a \in DOMAIN f : f[a] \in Nat
  BY <1>1, DriftsTyped, RoundedNear
<1> HIDE DEF f
<1>3. Max(V) \in V /\ Max(V) \in Nat /\ \A a \in DOMAIN f : Max(V) >= f[a]
  <2> HIDE DEF V
  <2> QED BY <1>1, <1>2, MaxOfValues
<1>4. Rounded(0) = 0
  BY DEF Rounded
<1>5. Max(V) <= Rounded(Exact(weights))
  <2>1. CASE Max(V) = 0
    BY <2>1, ExactDrift, RoundedNear
  <2>2. ASSUME NEW a \in DOMAIN weights, Max(V) = Rounded(Drift(weights, a))
        PROVE  Max(V) <= Rounded(Exact(weights))
    <3>1. Drift(weights, a) \in Nat /\ Exact(weights) \in Nat /\ Drift(weights, a) <= Exact(weights)
      BY DriftsTyped, ExactDrift
    <3> QED BY <2>2, <3>1, RoundedNear
  <2> QED BY <1>3, <2>1, <2>2
<1>6. Rounded(Exact(weights)) <= Max(V)
  <2>1. CASE Exact(weights) = 0
    BY <1>3, <1>4, <2>1
  <2>2. ASSUME NEW a \in DOMAIN weights, Exact(weights) = Drift(weights, a)
        PROVE  Rounded(Exact(weights)) <= Max(V)
    BY <1>1, <1>3, <2>2
  <2> QED BY <2>1, <2>2, ExactDrift
<1>7. Rounded(Exact(weights)) \in Nat
  BY ExactDrift, RoundedNear
<1> QED BY <1>3, <1>5, <1>6, <1>7 DEF MaxDrift

LEMMA BreachedFinite ==
  ASSUME NEW weights, Weighted(weights), NEW t
  PROVE  /\ Breached(weights, t) \subseteq Symbols \X Severities
         /\ IsFiniteSet(Breached(weights, t))
         /\ Cardinality(Breached(weights, t)) \in Nat
<1>1. Breached(weights, t) \subseteq Symbols \X Severities
  BY DriftsTyped DEF Breached
<1>2. IsFiniteSet(Symbols \X Severities)
  <2>1. IsFiniteSet(Severities)
    <3>1. IsFiniteSet({"warning"}) /\ IsFiniteSet({"critical"})
      BY FS_Singleton
    <3>2. Severities = {"warning"} \union {"critical"}
      BY DEF Severities
    <3> QED BY <3>1, <3>2, FS_Union
  <2> QED BY <2>1, DriftAssumption, FS_Product
<1>3. IsFiniteSet(Breached(weights, t))
  BY <1>1, <1>2, FS_Subset
<1> QED BY <1>1, <1>3, FS_CardinalityType

LEMMA OverallTyped ==
  ASSUME NEW weights, Weighted(weights)
  PROVE  OverallDrift(weights) \in Nat
<1> DEFINE f == [a \in DOMAIN weights |-> Rounded(Drift(weights, a))]
           n == Cardinality(DOMAIN weights)
           sum == SumFunction(f)
<1>1. n \in Nat
  BY DriftsTyped, FS_CardinalityType
<1>2. sum \in Nat
  <2>1. IsFiniteSet(DOMAIN f) /\ \A a \in DOMAIN f : f[a] \in Nat
    BY DriftsTyped, RoundedNear
  <2> HIDE DEF f
  <2> QED BY <2>1, SumOfNaturals DEF SumFunction
<1>3. OverallDrift(weights) = IF n = 0 THEN 0 ELSE 10 * ((2 * sum + 10 * n) \div (20 * n))
  BY DEF OverallDrift
<1> HIDE DEF n, sum
<1>4. CASE n # 0
  <2>1. 2 * sum + 10 * n \in Nat /\ 20 * n \in Nat \ {0}
    BY <1>1, <1>2, <1>4
  <2>2. (2 * sum + 10 * n) \div (20 * n) \in Nat
    BY <2>1, DivisionTyped
  <2> QED BY <1>3, <1>4, <2>2
<1> QED BY <1>3, <1>4

\* What StatusFollowsAssets says of one snapshot.
Follows(s) ==
  \/ s.status = Level(s.exact, s.thresholds) /\ (s.status = "healthy" <=> s.breached = 0)
  \/ \E severity \in Severities : s.exact - s.thresholds[severity] \in -5..5

LEMMA SnapshotTyped ==
  ASSUME NEW weights, Weighted(weights), NEW t \in Thresholds
  PROVE  SnapshotOf(weights, t) \in Snapshot
<1>1. /\ MaxDrift(weights) \in Nat /\ OverallDrift(weights) \in Nat
      /\ Cardinality(Breached(weights, t)) \in Nat /\ Exact(weights) \in Nat
      /\ Level(MaxDrift(weights), t) \in Levels
  BY MaxRounded, ExactDrift, RoundedNear, OverallTyped, BreachedFinite, LevelTyped
<1>2. SnapshotOf(weights, t)
        = [status |-> Level(MaxDrift(weights), t), overallDrift |-> OverallDrift(weights),
           maxDrift |-> MaxDrift(weights), breached |-> Cardinality(Breached(weights, t)),
           exact |-> Exact(weights), thresholds |-> t]
  BY DEF SnapshotOf, Exact
<1> QED BY <1>1, <1>2 DEF Snapshot

LEMMA SnapshotFollows ==
  ASSUME NEW weights, Weighted(weights), NEW t \in Thresholds
  PROVE  Follows(SnapshotOf(weights, t))
<1> DEFINE s == SnapshotOf(weights, t)
           e == Exact(weights)
<1>1. /\ s.status = Level(Rounded(e), t) /\ s.exact = e /\ s.thresholds = t
      /\ s.breached = Cardinality(Breached(weights, t))
  BY MaxRounded DEF SnapshotOf, Exact
<1>2. e \in Nat /\ Rounded(e) \in Nat /\ Rounded(e) - e \in -4..5
  BY ExactDrift, RoundedNear
<1>3. \A severity \in Severities : t[severity] \in Nat
  BY DEF Thresholds
<1>4. "warning" \in Severities /\ "critical" \in Severities
  BY DEF Severities
<1> HIDE DEF s, e
<1> SUFFICES ASSUME \A severity \in Severities : ~ (e - t[severity] \in -5..5)
             PROVE  Follows(s)
  BY <1>1 DEF Follows, s
<1>5. \A severity \in Severities : Rounded(e) >= t[severity] <=> e >= t[severity]
  BY <1>2, <1>3
<1>6. Level(Rounded(e), t) = Level(e, t)
  <2>1. \A severity \in Severities : Rounded(e) < t[severity] <=> e < t[severity]
    BY <1>2, <1>3
  <2> QED BY <1>4, <1>5, <2>1 DEF Level
<1>7. Level(e, t) = "healthy" <=> Breached(weights, t) = {}
  <2>1. ASSUME Level(e, t) = "healthy" PROVE Breached(weights, t) = {}
    <3>1. e < t["critical"] /\ e < t["warning"]
      BY <1>2, <1>3, <1>4, <2>1 DEF Level
    <3>2. ASSUME NEW a \in DOMAIN weights PROVE Level(Drift(weights, a), t) = "healthy"
      <4>1. Drift(weights, a) \in Nat /\ Drift(weights, a) <= e
        BY DriftsTyped, ExactDrift DEF e
      <4>2. /\ ~ (Drift(weights, a) >= t["critical"])
            /\ ~ (Drift(weights, a) >= t["warning"])
        BY <1>2, <1>3, <1>4, <3>1, <4>1
      <4> QED BY <4>2 DEF Level
    <3> QED BY <3>2 DEF Breached, Severities
  <2>2. ASSUME Level(e, t) # "healthy" PROVE Breached(weights, t) # {}
    <3>1. Level(e, t) \in Severities
      BY <2>2 DEF Level, Severities
    <3>2. \E severity \in Severities : e >= t[severity]
      BY <1>4, <2>2 DEF Level
    <3>3. e # 0
      BY <1>2, <1>3, <3>2
    <3>4. PICK a \in DOMAIN weights : Drift(weights, a) = e
      BY <3>3, ExactDrift DEF e
    <3>5. <<a, Level(e, t)>> \in Breached(weights, t)
      BY <3>1, <3>4 DEF Breached
    <3> QED BY <3>5
  <2> QED BY <2>1, <2>2
<1>8. Cardinality(Breached(weights, t)) = 0 <=> Breached(weights, t) = {}
  BY BreachedFinite, FS_EmptySet
<1> QED BY <1>1, <1>6, <1>7, <1>8 DEF Follows

LEMMA PersistedEntries ==
  ASSUME NEW entries \in Seq(Snapshot), Len(entries) <= HistoryLimit, NEW s \in Snapshot
  PROVE  /\ Persisted(entries, s) \in Seq(Snapshot)
         /\ Len(Persisted(entries, s)) <= HistoryLimit
         /\ \A i \in DOMAIN Persisted(entries, s) :
              \/ Persisted(entries, s)[i] = s
              \/ \E j \in DOMAIN entries : Persisted(entries, s)[i] = entries[j]
<1>1. HistoryLimit \in Nat \ {0} /\ Len(entries) \in Nat
  BY DriftAssumption, LenProperties
<1>2. CASE Len(entries) = HistoryLimit
  <2>1. entries # <<>>
    BY <1>1, <1>2
  <2>2. /\ Tail(entries) \in Seq(Snapshot) /\ Len(Tail(entries)) = Len(entries) - 1
        /\ \A i \in 1..Len(Tail(entries)) : Tail(entries)[i] = entries[i + 1]
    BY <2>1, HeadTailProperties
  <2>3. Persisted(entries, s) = Append(Tail(entries), s)
    BY <1>2 DEF Persisted
  <2> DEFINE rest == Tail(entries)
  <2> HIDE DEF rest
  <2>4. /\ Append(rest, s) \in Seq(Snapshot) /\ Len(Append(rest, s)) = Len(rest) + 1
        /\ \A i \in 1..Len(rest) : Append(rest, s)[i] = rest[i]
        /\ Append(rest, s)[Len(rest) + 1] = s
    BY <2>2, AppendProperties DEF rest
  <2>5. Len(rest) = Len(entries) - 1 /\ \A i \in 1..Len(rest) : rest[i] = entries[i + 1]
    BY <2>2 DEF rest
  <2>6. ASSUME NEW i \in 1..(Len(rest) + 1)
        PROVE  Append(rest, s)[i] = s \/ \E j \in DOMAIN entries : Append(rest, s)[i] = entries[j]
    <3>1. CASE i = Len(rest) + 1
      BY <2>4, <3>1
    <3>2. CASE i # Len(rest) + 1
      <4>1. i \in 1..Len(rest) /\ i + 1 \in 1..Len(entries)
        BY <1>1, <2>5, <3>2
      <4> QED BY <2>4, <2>5, <4>1
    <3> QED BY <3>1, <3>2
  <2>7. DOMAIN Append(rest, s) = 1..(Len(rest) + 1)
    BY <2>4
  <2> QED BY <1>1, <1>2, <2>3, <2>4, <2>5, <2>6, <2>7 DEF rest
<1>3. CASE Len(entries) # HistoryLimit
  <2>1. /\ Append(entries, s) \in Seq(Snapshot) /\ Len(Append(entries, s)) = Len(entries) + 1
        /\ \A i \in 1..Len(entries) : Append(entries, s)[i] = entries[i]
        /\ Append(entries, s)[Len(entries) + 1] = s
    BY AppendProperties
  <2>2. Persisted(entries, s) = Append(entries, s)
    BY <1>3 DEF Persisted
  <2>3. ASSUME NEW i \in 1..(Len(entries) + 1)
        PROVE  \/ Append(entries, s)[i] = s
               \/ \E j \in DOMAIN entries : Append(entries, s)[i] = entries[j]
    <3>1. CASE i = Len(entries) + 1
      BY <2>1, <3>1
    <3>2. CASE i # Len(entries) + 1
      <4>1. i \in 1..Len(entries)
        BY <1>1, <3>2
      <4> QED BY <2>1, <4>1
    <3> QED BY <3>1, <3>2
  <2>4. DOMAIN Append(entries, s) = 1..(Len(entries) + 1)
    BY <2>1
  <2> QED BY <1>1, <1>3, <2>1, <2>2, <2>3, <2>4
<1> QED BY <1>2, <1>3

\* The alerts that a webhook registered for.
ToldTo(hook, raised) == {r \in raised : r[2] \in hook.events}

LEMMA DispatchedHooks ==
  ASSUME NEW hooks \in Seq(Webhook), NEW raised, IsFiniteSet(raised)
  PROVE  /\ Dispatched(hooks, raised) \in Seq(Webhook)
         /\ DOMAIN Dispatched(hooks, raised) = DOMAIN hooks
         /\ \A i \in DOMAIN hooks :
              Dispatched(hooks, raised)[i]
                = [events |-> hooks[i].events,
                   calls |-> hooks[i].calls + Cardinality(ToldTo(hooks[i], raised)),
                   since |-> hooks[i].since]
<1> DEFINE More(i) == Cardinality(ToldTo(hooks[i], raised))
<1>1. \A i \in DOMAIN hooks : More(i) \in Nat
  <2> TAKE i \in DOMAIN hooks
  <2> DEFINE told == ToldTo(hooks[i], raised)
  <2>0. told \subseteq raised
    BY DEF ToldTo
  <2>1. IsFiniteSet(told)
    BY <2>0, FS_Subset
  <2> HIDE DEF told
  <2>2. Cardinality(told) \in Nat
    BY <2>1, FS_CardinalityType
  <2> QED BY <2>2 DEF told
<1>2. Dispatched(hooks, raised) = [i \in DOMAIN hooks |-> [hooks[i] EXCEPT !.calls = @ + More(i)]]
  BY DEF Dispatched, ToldTo
<1> HIDE DEF More
<1>3. \A i \in DOMAIN hooks : hooks[i] \in Webhook
  BY ElementOfSeq
<1>4. \A i \in DOMAIN hooks :
        /\ [hooks[i] EXCEPT !.calls = @ + More(i)]
             = [events |-> hooks[i].events, calls |-> hooks[i].calls + More(i),
                since |-> hooks[i].since]
        /\ [hooks[i] EXCEPT !.calls = @ + More(i)] \in Webhook
  BY <1>1, <1>3 DEF Webhook
<1>5. DOMAIN hooks = 1..Len(hooks) /\ Len(hooks) \in Nat
  BY LenProperties
<1>6. Dispatched(hooks, raised) \in [1..Len(hooks) -> Webhook]
  BY <1>2, <1>4, <1>5, ZenonT(30)
<1>7. Dispatched(hooks, raised) \in Seq(Webhook)
  BY <1>5, <1>6, IsASeq
<1> QED BY <1>2, <1>4, <1>7 DEF More

-----------------------------------------------------------------------------
(* Drift detection: the types, and one alert for each breach.               *)

LEMMA ThresholdsTyped ==
  ASSUME DriftTypeOK, NEW p \in Portfolios
  PROVE  ThresholdsOf(p) \in Thresholds
BY DEF DriftTypeOK, ThresholdsOf, Thresholds

\* The breaches of a calculation that are no duplicates.
NewAlerts(p, weights) ==
  {b \in Breached(weights, ThresholdsOf(p)) : ~Duplicate(p, b[1], b[2])}

LEMMA NewAlertsFinite ==
  ASSUME NEW p, NEW weights, Weighted(weights)
  PROVE  /\ NewAlerts(p, weights) \subseteq Symbols \X Severities
         /\ NewAlerts(p, weights) \subseteq Breached(weights, ThresholdsOf(p))
         /\ IsFiniteSet(NewAlerts(p, weights))
<1> DEFINE t == ThresholdsOf(p)
<1>1. NewAlerts(p, weights) \subseteq Breached(weights, t)
  BY DEF NewAlerts
<1> HIDE DEF t
<1>2. Breached(weights, t) \subseteq Symbols \X Severities /\ IsFiniteSet(Breached(weights, t))
  BY BreachedFinite
<1>3. IsFiniteSet(NewAlerts(p, weights))
  BY <1>1, <1>2, FS_Subset
<1> QED BY <1>1, <1>2, <1>3 DEF t

\* What a calculation does.
LEMMA Calculated ==
  ASSUME NEW p \in Portfolios, NEW weights, CalculateDrift(p, weights)
  PROVE  /\ snapshots < MaxSnapshots /\ snapshots' = snapshots + 1
         /\ driftHistory' = [driftHistory EXCEPT
              ![p] = Persisted(driftHistory[p], SnapshotOf(weights, ThresholdsOf(p)))]
         /\ openAlerts' = [a \in Alerts |->
              IF a[1] = p /\ <<a[2], a[3]>> \in NewAlerts(p, weights)
              THEN openAlerts[a] + 1 ELSE openAlerts[a]]
         /\ webhooks' = [webhooks EXCEPT ![p] = Dispatched(webhooks[p], NewAlerts(p, weights))]
         /\ breaches' = [breaches EXCEPT ![p] = Breached(weights, ThresholdsOf(p))]
         /\ UNCHANGED <<configs, acknowledged>>
BY DEF CalculateDrift, NewAlerts

LEMMA RaisedTyped ==
  ASSUME DriftTypeOK, NEW p \in Portfolios, NEW s \in Severities
  PROVE  Raised(p, s) \in Nat
<1> DEFINE f == [a \in Symbols |-> openAlerts[<<p, a, s>>] + acknowledged[<<p, a, s>>]]
<1>1. DOMAIN f = Symbols /\ \A a \in Symbols : f[a] \in Nat
  BY DEF DriftTypeOK, Alerts
<1> HIDE DEF f
<1>2. SumFunctionOnSet(f, Symbols) \in Nat
  BY <1>1, DriftAssumption, SumOfNaturals
<1>3. Raised(p, s) = SumFunctionOnSet(f, Symbols)
  BY <1>1 DEF Raised, SumFunction, f
<1> QED BY <1>2, <1>3

LEMMA DriftTypeInit == DriftInit => DriftTypeOK
<1> SUFFICES ASSUME DriftInit PROVE DriftTypeOK
  OBVIOUS
<1>1. <<>> \in Seq(Snapshot) /\ <<>> \in Seq(Webhook) /\ Len(<<>>) = 0
  BY EmptySeq
<1>2. DOMAIN configs = {} /\ configs \in [DOMAIN configs -> Thresholds]
  BY DEF DriftInit
<1>3. HistoryLimit \in Nat /\ MaxSnapshots \in Nat
  BY DriftAssumption
<1> QED BY <1>1, <1>2, <1>3 DEF DriftInit, DriftTypeOK

LEMMA DriftTypeStep ==
  ASSUME DriftTypeOK, [DriftNext]_driftVars
  PROVE  DriftTypeOK'
<1> USE DEF DriftTypeOK
<1>1. ASSUME NEW p \in Portfolios, NEW t \in Configs, CreateConfig(p, t)
      PROVE  DriftTypeOK'
  <2>1. t \in Thresholds
    BY DriftAssumption
  <2> QED BY <1>1, <2>1 DEF CreateConfig
<1>2. ASSUME NEW p \in Portfolios, NEW t \in Configs, NEW fields, UpdateConfig(p, fields, t)
      PROVE  DriftTypeOK'
  <2>1. t \in Thresholds
    BY DriftAssumption
  <2>2. [s \in Severities |-> IF s \in fields THEN t[s] ELSE configs[p][s]] \in Thresholds
    BY <1>2, <2>1 DEF UpdateConfig, Thresholds
  <2> QED BY <1>2, <2>2 DEF UpdateConfig
<1>3. ASSUME NEW p \in Portfolios, NEW weights, Weighted(weights), CalculateDrift(p, weights)
      PROVE  DriftTypeOK'
  <2> DEFINE t == ThresholdsOf(p)
             new == NewAlerts(p, weights)
             snapshot == SnapshotOf(weights, t)
  <2>1. t \in Thresholds
    BY ThresholdsTyped
  <2>2. new \subseteq Symbols \X Severities /\ IsFiniteSet(new)
    BY <1>3, NewAlertsFinite
  <2> HIDE DEF t, new
  <2>3. snapshot \in Snapshot /\ Breached(weights, t) \subseteq Symbols \X Severities
    BY <1>3, <2>1, SnapshotTyped, BreachedFinite
  <2> HIDE DEF snapshot
  <2>4. /\ Persisted(driftHistory[p], snapshot) \in Seq(Snapshot)
        /\ Len(Persisted(driftHistory[p], snapshot)) <= HistoryLimit
    BY <2>3, PersistedEntries
  <2>5. Dispatched(webhooks[p], new) \in Seq(Webhook)
    BY <2>2, DispatchedHooks
  <2>6. /\ snapshots < MaxSnapshots /\ snapshots' = snapshots + 1
        /\ driftHistory' = [driftHistory EXCEPT ![p] = Persisted(driftHistory[p], snapshot)]
        /\ openAlerts' = [a \in Alerts |-> IF a[1] = p /\ <<a[2], a[3]>> \in new
                                           THEN openAlerts[a] + 1 ELSE openAlerts[a]]
        /\ webhooks' = [webhooks EXCEPT ![p] = Dispatched(webhooks[p], new)]
        /\ breaches' = [breaches EXCEPT ![p] = Breached(weights, t)]
        /\ UNCHANGED <<configs, acknowledged>>
    BY <1>3, Calculated DEF t, new, snapshot
  <2>7. openAlerts' \in [Alerts -> Nat]
    BY <2>6
  <2>8. snapshots' \in 0..MaxSnapshots
    BY <2>6, DriftAssumption
  <2> QED BY <2>3, <2>4, <2>5, <2>6, <2>7, <2>8
<1>4. ASSUME NEW p \in Portfolios, NEW a \in Symbols, NEW s \in Severities,
             AcknowledgeAlert(p, a, s)
      PROVE  DriftTypeOK'
  <2>1. <<p, a, s>> \in Alerts
    BY DEF Alerts
  <2> QED BY <1>4, <2>1 DEF AcknowledgeAlert
<1>5. ASSUME NEW p \in Portfolios, NEW events \in EventSets, RegisterWebhook(p, events)
      PROVE  DriftTypeOK'
  <2> DEFINE hook == [events |-> events, calls |-> 0,
                      since |-> [s \in Severities |-> Raised(p, s)]]
  <2>1. \A s \in Severities : Raised(p, s) \in Nat
    BY RaisedTyped
  <2>2. hook \in Webhook
    BY <2>1 DEF Webhook
  <2>3. webhooks' = [webhooks EXCEPT ![p] = Append(webhooks[p], hook)]
    BY <1>5 DEF RegisterWebhook
  <2> HIDE DEF hook
  <2>4. Append(webhooks[p], hook) \in Seq(Webhook)
    BY <2>2, AppendProperties
  <2> QED BY <1>5, <2>3, <2>4 DEF RegisterWebhook
<1>6. ASSUME UNCHANGED driftVars PROVE DriftTypeOK'
  BY <1>6 DEF driftVars
<1> QED BY <1>1, <1>2, <1>3, <1>4, <1>5, <1>6 DEF DriftNext, Weighted

\* Of one asset and severity at most one alert waits, and one for each breach.
OneAlert ==
  \A p \in Portfolios, a \in Symbols, s \in Severities :
    openAlerts[<<p, a, s>>] \in (IF <<a, s>> \in breaches[p] THEN {1} ELSE {0, 1})

LEMMA OneAlertStep ==
  ASSUME DriftTypeOK, OneAlert, [DriftNext]_driftVars
  PROVE  OneAlert'
<1> USE DEF OneAlert
<1>1. ASSUME NEW p \in Portfolios, NEW weights, Weighted(weights), CalculateDrift(p, weights)
      PROVE  OneAlert'
  <2> SUFFICES ASSUME NEW q \in Portfolios, NEW a \in Symbols, NEW s \in Severities
               PROVE  openAlerts'[<<q, a, s>>]
                        \in (IF <<a, s>> \in breaches'[q] THEN {1} ELSE {0, 1})
    OBVIOUS
  <2> DEFINE breached == Breached(weights, ThresholdsOf(p))
             new == NewAlerts(p, weights)
  <2>1. <<q, a, s>> \in Alerts /\ openAlerts[<<q, a, s>>] \in {0, 1}
    BY DEF Alerts
  <2>2. <<a, s>> \in new <=> <<a, s>> \in breached /\ ~ (openAlerts[<<p, a, s>>] > 0)
    BY DEF NewAlerts, Duplicate
  <2>3. /\ openAlerts'[<<q, a, s>>] = IF q = p /\ <<a, s>> \in new
                                      THEN openAlerts[<<q, a, s>>] + 1
                                      ELSE openAlerts[<<q, a, s>>]
        /\ breaches' = [breaches EXCEPT ![p] = breached]
    <3>1. openAlerts' = [b \in Alerts |-> IF b[1] = p /\ <<b[2], b[3]>> \in new
                                          THEN openAlerts[b] + 1 ELSE openAlerts[b]]
      BY <1>1, Calculated
    <3>2. breaches' = [breaches EXCEPT ![p] = breached]
      BY <1>1, Calculated
    <3> HIDE DEF new, breached
    <3> QED BY <2>1, <3>1, <3>2
  <2> HIDE DEF new, breached
  <2>4. CASE q = p
    <3>1. breaches'[p] = breached
      BY <2>3 DEF DriftTypeOK
    <3> QED BY <2>1, <2>2, <2>3, <2>4, <3>1
  <2>5. CASE q # p
    BY <2>3, <2>5 DEF DriftTypeOK
  <2> QED BY <2>4, <2>5
<1>2. ASSUME NEW p \in Portfolios, NEW a \in Symbols, NEW s \in Severities,
             AcknowledgeAlert(p, a, s)
      PROVE  OneAlert'
  <2> SUFFICES ASSUME NEW q \in Portfolios, NEW b \in Symbols, NEW r \in Severities
               PROVE  openAlerts'[<<q, b, r>>]
                        \in (IF <<b, r>> \in breaches'[q] THEN {1} ELSE {0, 1})
    OBVIOUS
  <2>1. <<p, a, s>> \in Alerts /\ <<q, b, r>> \in Alerts
    BY DEF Alerts
  <2>2. /\ openAlerts[<<p, a, s>>] = 1
        /\ openAlerts' = [openAlerts EXCEPT ![<<p, a, s>>] = openAlerts[<<p, a, s>>] - 1]
        /\ breaches' = [breaches EXCEPT ![p] = breaches[p] \ {<<a, s>>}]
    <3>1. openAlerts[<<p, a, s>>] \in {0, 1} /\ openAlerts[<<p, a, s>>] > 0
      BY <1>2 DEF AcknowledgeAlert
    <3>2. openAlerts[<<p, a, s>>] = 1
      BY <3>1
    <3> QED BY <1>2, <3>2 DEF AcknowledgeAlert
  <2>3. CASE q = p /\ b = a /\ r = s
    BY <2>1, <2>2, <2>3 DEF DriftTypeOK
  <2>4. CASE ~ (q = p /\ b = a /\ r = s)
    <3>1. openAlerts'[<<q, b, r>>] = openAlerts[<<q, b, r>>]
      BY <2>1, <2>2, <2>4 DEF DriftTypeOK
    <3>2. <<b, r>> \in breaches'[q] => <<b, r>> \in breaches[q]
      BY <2>2 DEF DriftTypeOK
    <3>3. <<b, r>> \in breaches[q] => <<b, r>> \in breaches'[q]
      BY <2>2, <2>4 DEF DriftTypeOK
    <3> QED BY <3>1, <3>2, <3>3
  <2> QED BY <2>3, <2>4
<1>3. ASSUME UNCHANGED <<openAlerts, breaches>> PROVE OneAlert'
  BY <1>3
<1> QED BY <1>1, <1>2, <1>3
        DEF DriftNext, driftVars, Weighted, CreateConfig, UpdateConfig, RegisterWebhook

THEOREM DriftTypeCorrect == DriftSpec => []DriftTypeOK
<1>1. DriftInit => DriftTypeOK
  BY DriftTypeInit
<1>2. DriftTypeOK /\ [DriftNext]_driftVars => DriftTypeOK'
  BY DriftTypeStep
<1> QED BY <1>1, <1>2, PTL DEF DriftSpec

\* At most one alert of an asset and severity waits for an answer, and one does
\* wait for each breach of the last snapshot that nobody acknowledged: the
\* look-up before the insert in calculateDrift asks only for those that wait.
THEOREM AlertsCorrect == DriftSpec => []AlertsFollowBreaches
<1>1. DriftInit => DriftTypeOK /\ OneAlert
  <2>1. DriftInit => OneAlert
    BY DEF DriftInit, OneAlert, Alerts
  <2> QED BY <2>1, DriftTypeInit
<1>2. DriftTypeOK /\ OneAlert /\ [DriftNext]_driftVars => DriftTypeOK' /\ OneAlert'
  BY DriftTypeStep, OneAlertStep
<1>3. DriftTypeOK /\ OneAlert => AlertsFollowBreaches
  BY DEF OneAlert, AlertsFollowBreaches
<1> QED BY <1>1, <1>2, <1>3, PTL DEF DriftSpec

-----------------------------------------------------------------------------
(* Drift detection: the status of a snapshot.                               *)

AllFollow == \A p \in Portfolios : \A i \in DOMAIN driftHistory[p] : Follows(driftHistory[p][i])

LEMMA FollowsStep ==
  ASSUME DriftTypeOK, AllFollow, [DriftNext]_driftVars
  PROVE  AllFollow'
<1> USE DEF AllFollow
<1>1. ASSUME NEW p \in Portfolios, NEW weights, Weighted(weights), CalculateDrift(p, weights)
      PROVE  AllFollow'
  <2> DEFINE snapshot == SnapshotOf(weights, ThresholdsOf(p))
             entries == Persisted(driftHistory[p], snapshot)
  <2>1. snapshot \in Snapshot /\ Follows(snapshot)
    <3>1. ThresholdsOf(p) \in Thresholds
      BY ThresholdsTyped
    <3> QED BY <1>1, <3>1, SnapshotTyped, SnapshotFollows
  <2>2. driftHistory' = [driftHistory EXCEPT ![p] = entries]
    BY <1>1, Calculated
  <2> HIDE DEF snapshot
  <2>3. \A i \in DOMAIN entries : \/ entries[i] = snapshot
                                  \/ \E j \in DOMAIN driftHistory[p] :
                                       entries[i] = driftHistory[p][j]
    BY <2>1, PersistedEntries DEF DriftTypeOK
  <2> HIDE DEF entries
  <2>4. \A i \in DOMAIN entries : Follows(entries[i])
    BY <2>1, <2>3
  <2>5. \A q \in Portfolios : driftHistory'[q] = IF q = p THEN entries ELSE driftHistory[q]
    BY <2>2 DEF DriftTypeOK
  <2>6. ASSUME NEW q \in Portfolios, NEW i \in DOMAIN driftHistory'[q]
        PROVE  Follows(driftHistory'[q][i])
    BY <2>4, <2>5
  <2>7. \A q \in Portfolios : \A i \in DOMAIN driftHistory'[q] : Follows(driftHistory'[q][i])
    BY <2>6
  <2> QED BY <2>7 DEF Follows
<1>2. ASSUME UNCHANGED driftHistory PROVE AllFollow'
  BY <1>2 DEF Follows
<1> QED BY <1>1, <1>2 DEF DriftNext, driftVars, Weighted, CreateConfig, UpdateConfig,
                          RegisterWebhook, AcknowledgeAlert

\* The status of a snapshot, taken from the drifts rounded to four digits, is the
\* worst of its assets', taken from the exact ones, unless the highest drift is
\* within the rounding of a threshold (calculateDrift).
THEOREM SnapshotsCorrect == DriftSpec => []StatusFollowsAssets
<1>1. DriftInit => DriftTypeOK /\ AllFollow
  <2>1. DriftInit => AllFollow
    BY DEF DriftInit, AllFollow
  <2> QED BY <2>1, DriftTypeInit
<1>2. DriftTypeOK /\ AllFollow /\ [DriftNext]_driftVars => DriftTypeOK' /\ AllFollow'
  BY DriftTypeStep, FollowsStep
<1>3. AllFollow => StatusFollowsAssets
  BY DEF AllFollow, Follows, StatusFollowsAssets
<1> QED BY <1>1, <1>2, <1>3, PTL DEF DriftSpec

-----------------------------------------------------------------------------
(* Drift detection: what the webhooks are told.                             *)

OfSeverity(raised, s) == {r \in raised : r[2] = s}

\* A calculation raises each of its new alerts once, and no other.
LEMMA RaisedMore ==
  ASSUME DriftTypeOK, NEW p \in Portfolios, NEW weights, Weighted(weights),
         CalculateDrift(p, weights), NEW s \in Severities
  PROVE  Raised(p, s)' = Raised(p, s) + Cardinality(OfSeverity(NewAlerts(p, weights), s))
<1> DEFINE new == NewAlerts(p, weights)
           R == OfSeverity(new, s)
           class == [r \in R |-> r[1]]
           f == [a \in Symbols |-> openAlerts[<<p, a, s>>] + acknowledged[<<p, a, s>>]]
           h == [a \in Symbols |-> openAlerts'[<<p, a, s>>] + acknowledged'[<<p, a, s>>]]
           g == [a \in Symbols |-> Cardinality(InClass(R, class, a))]
<1>1. /\ new \subseteq Symbols \X Severities /\ IsFiniteSet(new)
      /\ acknowledged' = acknowledged
      /\ openAlerts' = [a \in Alerts |-> IF a[1] = p /\ <<a[2], a[3]>> \in new
                                         THEN openAlerts[a] + 1 ELSE openAlerts[a]]
  BY NewAlertsFinite, Calculated
<1> HIDE DEF new
<1>2. IsFiniteSet(R)
  <2>1. R \subseteq new
    BY DEF OfSeverity
  <2> QED BY <1>1, <2>1, FS_Subset
<1>3. \A a \in Symbols : g[a] = IF <<a, s>> \in new THEN 1 ELSE 0
  <2> TAKE a \in Symbols
  <2>1. CASE <<a, s>> \in new
    <3>1. InClass(R, class, a) = {<<a, s>>}
      BY <1>1, <2>1 DEF InClass, OfSeverity
    <3>2. Cardinality({<<a, s>>}) = 1
      BY FS_Singleton
    <3> QED BY <2>1, <3>1, <3>2
  <2>2. CASE <<a, s>> \notin new
    <3>1. InClass(R, class, a) = {}
      BY <1>1, <2>2 DEF InClass, OfSeverity
    <3> QED BY <2>2, <3>1, FS_EmptySet
  <2> QED BY <2>1, <2>2
<1>4. InClasses(R, class, Symbols) = R
  BY <1>1 DEF InClasses, OfSeverity
<1>5. \A a \in Symbols : g[a] = Cardinality(InClass(R, class, a))
  OBVIOUS
<1> HIDE DEF R, class
<1>6. SumFunctionOnSet(g, Symbols) = Cardinality(R)
  <2> HIDE DEF g
  <2> QED BY <1>2, <1>4, <1>5, DriftAssumption, SumOfClasses
<1>7. \A a \in Symbols : f[a] \in Int /\ g[a] \in Int /\ h[a] = f[a] + g[a]
  <2> TAKE a \in Symbols
  <2>1. <<p, a, s>> \in Alerts
    BY DEF Alerts
  <2>2. /\ openAlerts[<<p, a, s>>] \in Nat /\ acknowledged[<<p, a, s>>] \in Nat
    BY <2>1 DEF DriftTypeOK
  <2>3. openAlerts'[<<p, a, s>>] = IF <<a, s>> \in new THEN openAlerts[<<p, a, s>>] + 1
                                                       ELSE openAlerts[<<p, a, s>>]
    BY <1>1, <2>1
  <2> HIDE DEF g
  <2> QED BY <1>1, <1>3, <2>2, <2>3
<1>8. DOMAIN f = Symbols /\ DOMAIN h = Symbols
  OBVIOUS
<1>9. Raised(p, s) = SumFunctionOnSet(f, Symbols) /\ Raised(p, s)' = SumFunctionOnSet(h, Symbols)
  BY DEF Raised, SumFunction
<1> HIDE DEF f, g, h
<1>10. SumFunctionOnSet(h, Symbols) = SumFunctionOnSet(f, Symbols) + SumFunctionOnSet(g, Symbols)
  BY <1>7, DriftAssumption, SumPlus
<1> QED BY <1>6, <1>9, <1>10 DEF R, new

\* Nothing is raised of a portfolio whose alerts only move from one table to the other.
LEMMA RaisedKept ==
  ASSUME NEW p \in Portfolios, NEW s \in Severities,
         \A a \in Symbols : openAlerts'[<<p, a, s>>] + acknowledged'[<<p, a, s>>]
                              = openAlerts[<<p, a, s>>] + acknowledged[<<p, a, s>>]
  PROVE  Raised(p, s)' = Raised(p, s)
<1>1. [a \in Symbols |-> openAlerts'[<<p, a, s>>] + acknowledged'[<<p, a, s>>]]
      = [a \in Symbols |-> openAlerts[<<p, a, s>>] + acknowledged[<<p, a, s>>]]
  OBVIOUS
<1> QED BY <1>1 DEF Raised

\* The calls of a webhook of the portfolio q.
Told(q, hook) ==
  hook.calls = SumFunction([s \in hook.events \ {"resolved"} |-> Raised(q, s) - hook.since[s]])

LEMMA HookTyped ==
  ASSUME NEW hook \in Webhook
  PROVE  /\ hook.events \ {"resolved"} \subseteq Severities
         /\ IsFiniteSet(hook.events \ {"resolved"})
         /\ \A s \in hook.events \ {"resolved"} : hook.since[s] \in Nat
         /\ hook.calls \in Nat
<1> DEFINE E == hook.events \ {"resolved"}
<1>1. hook.events \in EventSets /\ hook.since \in [Severities -> Nat] /\ hook.calls \in Nat
  BY DEF Webhook
<1>2. E \subseteq Severities
  BY <1>1, DriftAssumption
<1>3. IsFiniteSet(Severities)
  <2>1. IsFiniteSet({"warning"}) /\ IsFiniteSet({"critical"})
    BY FS_Singleton
  <2>2. Severities = {"warning"} \union {"critical"}
    BY DEF Severities
  <2> QED BY <2>1, <2>2, FS_Union
<1> HIDE DEF E
<1>4. IsFiniteSet(E)
  BY <1>2, <1>3, FS_Subset
<1> QED BY <1>1, <1>2, <1>4 DEF E

\* A calculation calls a webhook of its portfolio for what it raises.
LEMMA ToldMore ==
  ASSUME DriftTypeOK, NEW p \in Portfolios, NEW weights, Weighted(weights),
         CalculateDrift(p, weights), NEW hook \in Webhook, Told(p, hook), NEW told,
         told = [events |-> hook.events,
                 calls |-> hook.calls + Cardinality(ToldTo(hook, NewAlerts(p, weights))),
                 since |-> hook.since]
  PROVE  Told(p, told)'
<1> DEFINE new == NewAlerts(p, weights)
           E == hook.events \ {"resolved"}
           R == ToldTo(hook, new)
           class == [r \in R |-> r[2]]
           f == [s \in E |-> Raised(p, s) - hook.since[s]]
           h == [s \in E |-> Raised(p, s)' - hook.since[s]]
           g == [s \in E |-> Cardinality(InClass(R, class, s))]
<1>1. new \subseteq Symbols \X Severities /\ IsFiniteSet(new)
  BY NewAlertsFinite
<1>2. /\ E \subseteq Severities /\ IsFiniteSet(E) /\ \A s \in E : hook.since[s] \in Nat
      /\ hook.calls \in Nat
  BY HookTyped
<1>3. /\ \A s \in E : Raised(p, s) \in Nat
      /\ \A s \in E : Raised(p, s)' = Raised(p, s) + Cardinality(OfSeverity(new, s))
  BY <1>2, RaisedTyped, RaisedMore
<1> HIDE DEF new
<1>4. \A s \in E : InClass(R, class, s) = OfSeverity(new, s)
  BY <1>1, <1>2 DEF InClass, OfSeverity, ToldTo
<1>5. InClasses(R, class, E) = R
  <2>1. \A r \in R : r[2] \in E
    BY <1>1 DEF ToldTo, Severities
  <2> QED BY <2>1 DEF InClasses
<1>6. IsFiniteSet(R)
  <2>1. R \subseteq new
    BY DEF ToldTo
  <2> QED BY <1>1, <2>1, FS_Subset
<1>7. \A s \in E : Cardinality(OfSeverity(new, s)) \in Nat
  <2> TAKE s \in E
  <2>1. OfSeverity(new, s) \subseteq new
    BY DEF OfSeverity
  <2>2. IsFiniteSet(OfSeverity(new, s))
    BY <1>1, <2>1, FS_Subset
  <2> QED BY <2>2, FS_CardinalityType
<1>8. \A s \in E : g[s] = Cardinality(InClass(R, class, s))
  OBVIOUS
<1>9. \A s \in E : f[s] \in Int /\ g[s] \in Int /\ h[s] = f[s] + g[s]
  <2> TAKE s \in E
  <2>1. g[s] = Cardinality(OfSeverity(new, s))
    BY <1>4
  <2>2. f[s] = Raised(p, s) - hook.since[s] /\ h[s] = Raised(p, s)' - hook.since[s]
    OBVIOUS
  <2> HIDE DEF f, g, h
  <2> QED BY <1>2, <1>3, <1>7, <2>1, <2>2
<1>10. SumFunction(f) = SumFunctionOnSet(f, E) /\ SumFunction(h) = SumFunctionOnSet(h, E)
  BY DEF SumFunction
<1>11. Told(p, hook) <=> hook.calls = SumFunction(f)
  BY DEF Told
<1>12. Told(p, told)' <=> told.calls = SumFunction(h)
  BY DEF Told
<1>13. told.calls = hook.calls + Cardinality(R)
  BY DEF new
<1> HIDE DEF f, g, h, R, E, class
<1>14. SumFunctionOnSet(g, E) = Cardinality(R)
  BY <1>2, <1>5, <1>6, <1>8, SumOfClasses
<1>15. SumFunctionOnSet(h, E) = SumFunctionOnSet(f, E) + SumFunctionOnSet(g, E)
  BY <1>2, <1>9, SumPlus
<1> QED BY <1>10, <1>11, <1>12, <1>13, <1>14, <1>15

LEMMA ToldKept ==
  ASSUME NEW q \in Portfolios, NEW hook \in Webhook, Told(q, hook),
         \A s \in Severities : Raised(q, s)' = Raised(q, s)
  PROVE  Told(q, hook)'
<1>1. hook.events \ {"resolved"} \subseteq Severities
  BY HookTyped
<1>2. [s \in hook.events \ {"resolved"} |-> Raised(q, s)' - hook.since[s]]
      = [s \in hook.events \ {"resolved"} |-> Raised(q, s) - hook.since[s]]
  BY <1>1
<1> QED BY <1>2 DEF Told

AllTold == \A p \in Portfolios : \A i \in DOMAIN webhooks[p] : Told(p, webhooks[p][i])

LEMMA HooksTyped ==
  ASSUME DriftTypeOK, NEW p \in Portfolios
  PROVE  /\ webhooks[p] \in Seq(Webhook)
         /\ \A i \in DOMAIN webhooks[p] : webhooks[p][i] \in Webhook
<1>1. webhooks[p] \in Seq(Webhook)
  BY DEF DriftTypeOK
<1> QED BY <1>1, ElementOfSeq

LEMMA AllToldStep ==
  ASSUME DriftTypeOK, AllTold, [DriftNext]_driftVars
  PROVE  AllTold'
<1> SUFFICES ASSUME NEW q \in Portfolios, NEW i \in DOMAIN webhooks'[q],
                    NEW next, next = webhooks'[q][i]
             PROVE  Told(q, next)'
  BY DEF AllTold, Told
<1>1. webhooks \in [Portfolios -> Seq(Webhook)]
  BY DEF DriftTypeOK
<1>2. \* A webhook that stays, of a portfolio for which nothing was raised.
      ASSUME i \in DOMAIN webhooks[q], next = webhooks[q][i],
             \A s \in Severities : Raised(q, s)' = Raised(q, s)
      PROVE  Told(q, next)'
  <2>1. next \in Webhook /\ Told(q, next)
    BY <1>2, HooksTyped DEF AllTold
  <2> QED BY <1>2, <2>1, ToldKept
<1>3. ASSUME UNCHANGED <<openAlerts, acknowledged>>
      PROVE  \A s \in Severities : Raised(q, s)' = Raised(q, s)
  BY <1>3, RaisedKept
<1>4. ASSUME NEW p \in Portfolios, NEW weights, Weighted(weights), CalculateDrift(p, weights)
      PROVE  Told(q, next)'
  <2> DEFINE new == NewAlerts(p, weights)
  <2>1. /\ webhooks' = [webhooks EXCEPT ![p] = Dispatched(webhooks[p], new)]
        /\ acknowledged' = acknowledged
        /\ openAlerts' = [a \in Alerts |-> IF a[1] = p /\ <<a[2], a[3]>> \in new
                                           THEN openAlerts[a] + 1 ELSE openAlerts[a]]
    BY <1>4, Calculated
  <2>2. IsFiniteSet(new) /\ webhooks[p] \in Seq(Webhook)
    BY <1>4, NewAlertsFinite, HooksTyped
  <2> HIDE DEF new
  <2>3. CASE q = p
    <3> DEFINE all == Dispatched(webhooks[p], new)
    <3>1. webhooks'[q] = all
      BY <1>1, <2>1, <2>3
    <3>2. /\ DOMAIN all = DOMAIN webhooks[p]
          /\ \A j \in DOMAIN webhooks[p] :
               all[j] = [events |-> webhooks[p][j].events,
                         calls |-> webhooks[p][j].calls
                                     + Cardinality(ToldTo(webhooks[p][j], new)),
                         since |-> webhooks[p][j].since]
      BY <2>2, DispatchedHooks
    <3> HIDE DEF all
    <3>3. PICK hook : hook = webhooks[p][i]
      OBVIOUS
    <3>4. /\ i \in DOMAIN webhooks[p] /\ hook \in Webhook /\ Told(p, hook)
      BY <2>3, <3>1, <3>2, <3>3, HooksTyped DEF AllTold
    <3>5. next = [events |-> hook.events, calls |-> hook.calls + Cardinality(ToldTo(hook, new)),
                  since |-> hook.since]
      BY <3>1, <3>2, <3>3, <3>4
    <3>6. Told(p, next)'
      BY <1>4, <3>4, <3>5, ToldMore DEF new
    <3> QED BY <2>3, <3>6
  <2>4. CASE q # p
    <3>1. webhooks'[q] = webhooks[q]
      BY <1>1, <2>1, <2>4
    <3>2. \A a \in Symbols, s \in Severities : openAlerts'[<<q, a, s>>] = openAlerts[<<q, a, s>>]
      BY <2>1, <2>4 DEF Alerts
    <3>3. \A s \in Severities : Raised(q, s)' = Raised(q, s)
      BY <2>1, <3>2, RaisedKept
    <3> QED BY <1>2, <3>1, <3>3
  <2> QED BY <2>3, <2>4
<1>5. ASSUME NEW p \in Portfolios, NEW a \in Symbols, NEW r \in Severities,
             AcknowledgeAlert(p, a, r)
      PROVE  Told(q, next)'
  <2>1. ASSUME NEW b \in Symbols, NEW s \in Severities
        PROVE  openAlerts'[<<q, b, s>>] + acknowledged'[<<q, b, s>>]
                 = openAlerts[<<q, b, s>>] + acknowledged[<<q, b, s>>]
    <3>1. <<p, a, r>> \in Alerts /\ <<q, b, s>> \in Alerts
      BY DEF Alerts
    <3>2. /\ openAlerts' = [openAlerts EXCEPT ![<<p, a, r>>] = openAlerts[<<p, a, r>>] - 1]
          /\ acknowledged' = [acknowledged EXCEPT ![<<p, a, r>>] = acknowledged[<<p, a, r>>] + 1]
      BY <1>5 DEF AcknowledgeAlert
    <3>3. CASE <<q, b, s>> = <<p, a, r>>
      BY <3>1, <3>2, <3>3 DEF DriftTypeOK
    <3>4. CASE <<q, b, s>> # <<p, a, r>>
      BY <3>1, <3>2, <3>4 DEF DriftTypeOK
    <3> QED BY <3>3, <3>4
  <2>2. \A s \in Severities : Raised(q, s)' = Raised(q, s)
    BY <2>1, RaisedKept
  <2>3. webhooks'[q] = webhooks[q]
    BY <1>5 DEF AcknowledgeAlert
  <2> QED BY <1>2, <2>2, <2>3
<1>6. ASSUME NEW p \in Portfolios, NEW events \in EventSets, RegisterWebhook(p, events)
      PROVE  Told(q, next)'
  <2> DEFINE hook == [events |-> events, calls |-> 0,
                      since |-> [s \in Severities |-> Raised(p, s)]]
  <2>1. /\ webhooks' = [webhooks EXCEPT ![p] = Append(webhooks[p], hook)]
        /\ UNCHANGED <<openAlerts, acknowledged>>
    BY <1>6 DEF RegisterWebhook
  <2>2. \A s \in Severities : Raised(q, s)' = Raised(q, s)
    BY <1>3, <2>1
  <2>3. CASE q = p /\ i = Len(webhooks[p]) + 1
    <3>1. \A s \in Severities : Raised(p, s) \in Nat
      BY RaisedTyped
    <3>2. hook \in Webhook
      BY <3>1 DEF Webhook
    <3> DEFINE none == [s \in events \ {"resolved"} |-> Raised(p, s)' - hook.since[s]]
    <3>3. events \ {"resolved"} \subseteq Severities /\ IsFiniteSet(events \ {"resolved"})
      BY <3>2, HookTyped
    <3>4. \A s \in events \ {"resolved"} : none[s] = 0
      BY <2>2, <2>3, <3>1, <3>3
    <3>5. SumFunction(none) = 0
      <4>1. DOMAIN none = events \ {"resolved"}
        OBVIOUS
      <4> HIDE DEF none
      <4> QED BY <3>3, <3>4, <4>1, SumOfZeros DEF SumFunction
    <3>6. next = [events |-> events, calls |-> 0, since |-> hook.since]
      <4> HIDE DEF hook
      <4>1. next = hook
        <5>1. Append(webhooks[p], hook)[Len(webhooks[p]) + 1] = hook
          BY <3>2, HooksTyped, AppendProperties
        <5> QED BY <1>1, <2>1, <2>3, <5>1
      <4> QED BY <4>1 DEF hook
    <3>7. PICK since : since = hook.since
      OBVIOUS
    <3>8. next = [events |-> events, calls |-> 0, since |-> since]
      BY <3>6, <3>7
    <3>9. [s \in next.events \ {"resolved"} |-> Raised(q, s)' - next.since[s]] = none
      BY <2>3, <3>7, <3>8
    <3>10. next.calls = 0
      BY <3>8
    <3> HIDE DEF none
    <3> QED BY <3>5, <3>9, <3>10 DEF Told
  <2>4. CASE ~ (q = p /\ i = Len(webhooks[p]) + 1)
    <3>1. \A s \in Severities : Raised(p, s) \in Nat
      BY RaisedTyped
    <3>2. hook \in Webhook
      BY <3>1 DEF Webhook
    <3> HIDE DEF hook
    <3>3. /\ DOMAIN Append(webhooks[p], hook) = 1..(Len(webhooks[p]) + 1)
          /\ DOMAIN webhooks[p] = 1..Len(webhooks[p]) /\ Len(webhooks[p]) \in Nat
          /\ \A j \in 1..Len(webhooks[p]) : Append(webhooks[p], hook)[j] = webhooks[p][j]
      BY <3>2, HooksTyped, AppendProperties, LenProperties
    <3>4. webhooks'[q] = IF q = p THEN Append(webhooks[p], hook) ELSE webhooks[q]
      BY <1>1, <2>1
    <3>5. i \in DOMAIN webhooks[q] /\ next = webhooks[q][i]
      BY <2>4, <3>3, <3>4
    <3> QED BY <1>2, <2>2, <3>5
  <2> QED BY <2>3, <2>4
<1>7. ASSUME UNCHANGED <<openAlerts, acknowledged, webhooks>> PROVE Told(q, next)'
  <2>1. \A s \in Severities : Raised(q, s)' = Raised(q, s)
    BY <1>3, <1>7
  <2> QED BY <1>2, <1>7, <2>1
<1> QED BY <1>4, <1>5, <1>6, <1>7 DEF DriftNext, driftVars, Weighted, CreateConfig, UpdateConfig

\* A webhook is told once of every alert of its severities from its registration
\* on, and of no other: dispatchWebhookNotifications, which awaits no answer, goes
\* through all webhooks of the portfolio with each new alert.
THEOREM WebhooksCorrect == DriftSpec => []WebhooksTold
<1>1. DriftInit => DriftTypeOK /\ AllTold
  <2>1. DriftInit => AllTold
    BY DEF DriftInit, AllTold
  <2> QED BY <2>1, DriftTypeInit
<1>2. DriftTypeOK /\ AllTold /\ [DriftNext]_driftVars => DriftTypeOK' /\ AllTold'
  BY DriftTypeStep, AllToldStep
<1>3. AllTold => WebhooksTold
  BY DEF AllTold, Told, WebhooksTold
<1> QED BY <1>1, <1>2, <1>3, PTL DEF DriftSpec

-----------------------------------------------------------------------------
(* Uploads.                                                                 *)

\* The requests that a connection may carry.
Chunk(u, p) == [op |-> "chunk", upload |-> u, part |-> p]
Completion(u) == [op |-> "complete", upload |-> u]

LEMMA CallsApart ==
  /\ \A u, p : Chunk(u, p) # NoCall
  /\ \A u : Completion(u) # NoCall
  /\ \A u, v, p : Chunk(u, p) # Completion(v)
  /\ \A u, v, p, q : Chunk(u, p) = Chunk(v, q) => u = v /\ p = q
  /\ \A u, v : Completion(u) = Completion(v) => u = v
<1>1. \A u, p : Chunk(u, p).op = "chunk" /\ Chunk(u, p).upload = u /\ Chunk(u, p).part = p
  BY DEF Chunk
<1>2. \A u : Completion(u).op = "complete" /\ Completion(u).upload = u
  BY DEF Completion
<1>3. NoCall.op = "none"
  BY DEF NoCall
<1>4. \A u, v, p, q : Chunk(u, p) = Chunk(v, q) => u = v /\ p = q
  BY <1>1
<1>5. \A u, v : Completion(u) = Completion(v) => u = v
  BY <1>2
<1> QED BY <1>1, <1>2, <1>3, <1>4, <1>5

LEMMA CallsTyped ==
  /\ NoCall \in Calls
  /\ \A u \in Uploads, p \in Parts : Chunk(u, p) \in Calls
  /\ \A u \in Uploads : Completion(u) \in Calls
BY DEF Calls, Chunk, Completion

\* The requests that may be about an upload.
About(u) == {Chunk(u, p) : p \in Parts} \union {Completion(u)}

\* An upload that the client did not initialize left no traces.
Fresh(u) ==
  /\ sends[u] = 0 /\ acked[u] = {} /\ completed[u] = 0
  /\ \A c \in Connections : calls[c] \notin About(u)

OpenedFirst == \A u \in Uploads \ opened : Fresh(u)

LEMMA StoredTyped ==
  ASSUME NEW files, NEW S,
         DOMAIN files \subseteq S, \A v \in DOMAIN files : files[v] \in Seq(Parts),
         NEW u \in S, NEW file \in Seq(Parts)
  PROVE  /\ DOMAIN Stored(files, u, file) = {u} \union DOMAIN files
         /\ DOMAIN Stored(files, u, file) \subseteq S
         /\ Stored(files, u, file)[u] = file
         /\ \A v \in DOMAIN files \ {u} : Stored(files, u, file)[v] = files[v]
         /\ \A v \in DOMAIN Stored(files, u, file) : Stored(files, u, file)[v] \in Seq(Parts)
BY DEF Stored

LEMMA AllParts == [p \in Parts |-> p] \in Seq(Parts)
<1>1. NumParts \in Nat /\ [p \in 1..NumParts |-> p] \in [1..NumParts -> Parts]
  BY ChunkedUploadsAssumption DEF Parts
<1>2. [p \in 1..NumParts |-> p] \in Seq(Parts)
  BY <1>1, IsASeq
<1> QED BY <1>2 DEF Parts

LEMMA UploadsTypeInit == UploadsInit => UploadsTypeOK /\ OpenedFirst
<1> SUFFICES ASSUME UploadsInit PROVE UploadsTypeOK /\ OpenedFirst
  OBVIOUS
<1>1. DOMAIN temp = {} /\ DOMAIN contents = {}
  BY DEF UploadsInit
<1>2. UploadsTypeOK
  BY <1>1, CallsTyped, ChunkedUploadsAssumption DEF UploadsInit, UploadsTypeOK
<1>3. \A u, c : c \in Connections => calls[c] \notin About(u)
  BY CallsApart DEF UploadsInit, About
<1>4. OpenedFirst
  BY <1>3 DEF UploadsInit, OpenedFirst, Fresh
<1> QED BY <1>2, <1>4

\* A request comes up or ends.
LEMMA CallsStep ==
  ASSUME UploadsTypeOK, NEW c \in Connections, NEW call \in Calls,
         calls' = [calls EXCEPT ![c] = call]
  PROVE  /\ calls' \in [Connections -> Calls]
         /\ \A d \in Connections : calls'[d] = IF d = c THEN call ELSE calls[d]
BY DEF UploadsTypeOK

LEMMA UploadsTypeStep ==
  ASSUME UploadsTypeOK, OpenedFirst, [UploadsNext]_uploadVars
  PROVE  UploadsTypeOK' /\ OpenedFirst'
<1> USE DEF UploadsTypeOK, OpenedFirst, Fresh
<1>1. ASSUME NEW u \in Uploads, InitializeMultipartUpload(u)
      PROVE  UploadsTypeOK' /\ OpenedFirst'
  <2>1. opened' = opened \union {u} /\ active' \subseteq opened'
    BY <1>1 DEF InitializeMultipartUpload
  <2>2. DOMAIN temp' \subseteq opened' /\ \A v \in DOMAIN temp' : temp'[v] \in Seq(Parts)
    <3>1. <<>> \in Seq(Parts) /\ u \in opened' /\ DOMAIN temp \subseteq opened'
      BY <2>1, EmptySeq
    <3>2. temp' = Stored(temp, u, <<>>) \/ temp' = temp
      BY <1>1 DEF InitializeMultipartUpload
    <3>3. CASE temp' = Stored(temp, u, <<>>)
      <4> DEFINE file == <<>>
                 S == opened'
                 files == temp
      <4>1. /\ DOMAIN files \subseteq S /\ \A v \in DOMAIN files : files[v] \in Seq(Parts)
            /\ u \in S /\ file \in Seq(Parts) /\ temp' = Stored(files, u, file)
        BY <3>1, <3>3
      <4> HIDE DEF file, S, files
      <4>2. /\ DOMAIN Stored(files, u, file) \subseteq S
            /\ \A v \in DOMAIN Stored(files, u, file) : Stored(files, u, file)[v] \in Seq(Parts)
        BY <4>1, StoredTyped
      <4> QED BY <4>1, <4>2 DEF S
    <3> QED BY <3>1, <3>2, <3>3
  <2> QED BY <1>1, <2>1, <2>2 DEF InitializeMultipartUpload
<1>2. ASSUME NEW c \in Connections, NEW u \in Uploads, NEW p \in Parts, SendChunk(c, u, p)
      PROVE  UploadsTypeOK' /\ OpenedFirst'
  <2>1. calls' = [calls EXCEPT ![c] = Chunk(u, p)] /\ u \in opened
    BY <1>2 DEF SendChunk, Chunk
  <2>2. /\ calls' \in [Connections -> Calls]
        /\ \A d \in Connections : calls'[d] = IF d = c THEN Chunk(u, p) ELSE calls[d]
    BY <2>1, CallsStep, CallsTyped
  <2>3. sends[u] < MaxSends /\ sends' = [sends EXCEPT ![u] = sends[u] + 1]
    BY <1>2 DEF SendChunk
  <2>4. sends' \in [Uploads -> 0..MaxSends]
    BY <2>3, ChunkedUploadsAssumption
  <2>5. disorder' \subseteq Uploads \union {"restart"}
    BY <1>2 DEF SendChunk
  <2>6. UNCHANGED <<provider, opened, active, temp, blocks, contents, acked, completed>>
    BY <1>2 DEF SendChunk
  <2>7. UploadsTypeOK'
    BY <2>2, <2>4, <2>5, <2>6
  <2>8. \A v : v # u => Chunk(u, p) \notin About(v)
    BY CallsApart DEF About
  <2>9. OpenedFirst'
    BY <2>1, <2>2, <2>3, <2>6, <2>8
  <2> QED BY <2>7, <2>9
<1>3. ASSUME NEW c \in Connections, Answered(c)
      PROVE  /\ calls' \in [Connections -> Calls]
             /\ \A d \in Connections : calls'[d] = IF d = c THEN NoCall ELSE calls[d]
             /\ \A v \in Uploads \ opened, d \in Connections : calls'[d] \notin About(v)
  <2>1. /\ calls' \in [Connections -> Calls]
        /\ \A d \in Connections : calls'[d] = IF d = c THEN NoCall ELSE calls[d]
    BY <1>3, CallsStep, CallsTyped DEF Answered
  <2>2. \A v : NoCall \notin About(v)
    BY CallsApart DEF About
  <2> QED BY <2>1, <2>2
<1>4. ASSUME NEW c \in Connections, NEW u \in Uploads, NEW p \in Parts, NEW told \in BOOLEAN,
             UploadChunk(c, u, p, told)
      PROVE  UploadsTypeOK' /\ OpenedFirst'
  <2>1. Answered(c) /\ calls[c] = Chunk(u, p)
    BY <1>4 DEF UploadChunk, Chunk
  <2>2. u \in opened
    BY <2>1 DEF About
  <2>3. UNCHANGED <<provider, opened, active, contents, sends, completed, disorder>>
    BY <1>4 DEF UploadChunk
  <2>4. acked' \in [Uploads -> SUBSET Parts] /\ \A v \in Uploads \ {u} : acked'[v] = acked[v]
    BY <1>4 DEF UploadChunk
  <2>5. /\ blocks' \in [Uploads -> SUBSET Parts]
        /\ DOMAIN temp' \subseteq opened /\ \A v \in DOMAIN temp' : temp'[v] \in Seq(Parts)
    <3>1. CASE provider = "local"
      <4> DEFINE file == IF u \in DOMAIN temp THEN temp[u] ELSE <<>>
      <4>1. file \in Seq(Parts)
        BY EmptySeq
      <4>2. temp' = Stored(temp, u, Append(file, p)) /\ blocks' = blocks
        BY <1>4, <3>1 DEF UploadChunk, AppendLocally
      <4> HIDE DEF file
      <4>3. Append(file, p) \in Seq(Parts)
        BY <4>1, AppendProperties
      <4>4. DOMAIN temp \subseteq opened /\ \A v \in DOMAIN temp : temp[v] \in Seq(Parts)
        OBVIOUS
      <4> DEFINE longer == Append(file, p)
      <4> HIDE DEF longer
      <4>5. /\ DOMAIN Stored(temp, u, longer) \subseteq opened
            /\ \A v \in DOMAIN Stored(temp, u, longer) : Stored(temp, u, longer)[v] \in Seq(Parts)
        <5>1. longer \in Seq(Parts)
          BY <4>3 DEF longer
        <5> QED BY <2>2, <4>4, <5>1, StoredTyped
      <4>6. blocks' \in [Uploads -> SUBSET Parts]
        BY <4>2
      <4>7. temp' = Stored(temp, u, longer)
        BY <4>2 DEF longer
      <4> QED BY <4>5, <4>6, <4>7
    <3>2. CASE provider # "local"
      <4>1. StageBlock(u, p)
        BY <1>4, <3>2 DEF UploadChunk
      <4>2. temp' = temp /\ blocks' \in [Uploads -> SUBSET Parts]
        BY <4>1 DEF StageBlock
      <4> QED BY <4>2
    <3> QED BY <3>1, <3>2
  <2>6. UploadsTypeOK'
    BY <1>3, <2>1, <2>3, <2>4, <2>5
  <2>7. OpenedFirst'
    BY <1>3, <2>1, <2>2, <2>3, <2>4
  <2> QED BY <2>6, <2>7
<1>5. ASSUME NEW c \in Connections, NEW u \in Uploads, SendComplete(c, u)
      PROVE  UploadsTypeOK' /\ OpenedFirst'
  <2>1. acked[u] = Parts /\ calls' = [calls EXCEPT ![c] = Completion(u)]
    BY <1>5 DEF SendComplete, Completion
  <2>2. u \in opened
    <3>1. 1 \in Parts
      BY ChunkedUploadsAssumption DEF Parts
    <3> QED BY <2>1, <3>1
  <2>3. /\ calls' \in [Connections -> Calls]
        /\ \A d \in Connections : calls'[d] = IF d = c THEN Completion(u) ELSE calls[d]
    BY <2>1, CallsStep, CallsTyped
  <2>4. UNCHANGED <<provider, opened, active, temp, blocks, contents, acked, sends, completed,
                    disorder>>
    BY <1>5 DEF SendComplete
  <2>5. \A v : v # u => Completion(u) \notin About(v)
    BY CallsApart DEF About
  <2>6. UploadsTypeOK'
    BY <2>3, <2>4
  <2>7. OpenedFirst'
    BY <2>2, <2>3, <2>4, <2>5
  <2> QED BY <2>6, <2>7
<1>6. ASSUME NEW c \in Connections, NEW u \in Uploads, CompleteMultipartUpload(c, u)
      PROVE  UploadsTypeOK' /\ OpenedFirst'
  <2>1. Answered(c) /\ calls[c] = Completion(u)
    BY <1>6 DEF CompleteMultipartUpload, Completion
  <2>2. u \in opened
    BY <2>1 DEF About
  <2>3. UNCHANGED <<provider, opened, acked, sends, disorder>>
    BY <1>6 DEF CompleteMultipartUpload
  <2>4. completed' = [completed EXCEPT ![u] = completed[u] + 1]
    BY <1>6 DEF CompleteMultipartUpload
  <2>5. /\ blocks' \in [Uploads -> SUBSET Parts] /\ active' \subseteq active
        /\ DOMAIN temp' \subseteq DOMAIN temp /\ \A v \in DOMAIN temp' : temp'[v] = temp[v]
        /\ \E file \in Seq(Parts) : contents' = Stored(contents, u, file)
    <3>1. CASE provider = "local"
      BY <1>6, <3>1 DEF CompleteMultipartUpload, RenameTemp
    <3>2. CASE provider # "local"
      BY <1>6, <3>2, AllParts DEF CompleteMultipartUpload, CommitBlocks
    <3> QED BY <3>1, <3>2
  <2>6. DOMAIN contents' \subseteq opened /\ \A v \in DOMAIN contents' : contents'[v] \in Seq(Parts)
    <3>1. PICK file \in Seq(Parts) : contents' = Stored(contents, u, file)
      BY <2>5
    <3>2. DOMAIN contents \subseteq opened /\ \A v \in DOMAIN contents : contents[v] \in Seq(Parts)
      OBVIOUS
    <3>3. /\ DOMAIN Stored(contents, u, file) \subseteq opened
          /\ \A v \in DOMAIN Stored(contents, u, file) :
               Stored(contents, u, file)[v] \in Seq(Parts)
      BY <2>2, <3>2, StoredTyped
    <3> QED BY <3>1, <3>3
  <2>7. UploadsTypeOK'
    <3>1. completed' \in [Uploads -> Nat]
      BY <2>4
    <3>2. calls' \in [Connections -> Calls]
      BY <1>3, <2>1
    <3>3. \A v \in DOMAIN temp' : temp'[v] \in Seq(Parts)
      BY <2>5
    <3> QED BY <2>3, <2>5, <2>6, <3>1, <3>2, <3>3
  <2>8. OpenedFirst'
    BY <1>3, <2>1, <2>2, <2>3, <2>4
  <2> QED BY <2>7, <2>8
<1>7. ASSUME NEW c \in Connections, CallFails(c) PROVE UploadsTypeOK' /\ OpenedFirst'
  <2>1. /\ Answered(c)
        /\ UNCHANGED <<provider, opened, active, temp, blocks, contents, acked, sends, completed,
                       disorder>>
    BY <1>7 DEF CallFails
  <2> QED BY <1>3, <2>1
<1>8. CASE RestartProcess
  <2>1. \A v : NoCall \notin About(v)
    BY CallsApart DEF About
  <2> QED BY <1>8, <2>1, CallsTyped DEF RestartProcess
<1>9. CASE UNCHANGED uploadVars
  BY <1>9 DEF uploadVars
<1> QED BY <1>1, <1>2, <1>4, <1>5, <1>6, <1>7, <1>8, <1>9 DEF UploadsNext

-----------------------------------------------------------------------------
(* Uploads: parts that are sent one after the other.                        *)

FirstParts(n) == [i \in 1..n |-> i]

\* The client has the answers to all parts it sent, or to all but the last one,
\* which is then the only one that may be under way; it completes what has all.
OneAfterAnother(u) ==
  /\ sends[u] <= NumParts
  /\ acked[u] = 1..sends[u] \/ acked[u] = 1..(sends[u] - 1)
  /\ \A c \in Connections, p \in Parts :
       calls[c] = Chunk(u, p) => p = sends[u] /\ acked[u] = 1..(sends[u] - 1)
  /\ \A c, d \in Connections, p \in Parts :
       calls[c] = Chunk(u, p) /\ calls[d] = Chunk(u, p) => c = d
  /\ \A c \in Connections : calls[c] = Completion(u) => acked[u] = Parts
  /\ completed[u] \in {0, 1} /\ (completed[u] = 1 => acked[u] = Parts)

\* The temporary file holds the first n parts, those with an answer among them.
Holds(u, n) ==
  /\ n <= sends[u] /\ temp[u] = FirstParts(n) /\ acked[u] \subseteq 1..n
  /\ \A c \in Connections, p \in Parts : calls[c] = Chunk(u, p) => n = sends[u] - 1

FileGrows(u) ==
  /\ u \in DOMAIN temp => \E n \in Nat : Holds(u, n)
  /\ u \in opened => (u \in DOMAIN temp <=> completed[u] = 0)
  /\ u \in DOMAIN temp => u \in active \/ "restart" \in disorder

TurnsTaken ==
  provider = "local" => \A u \in Uploads \ disorder : OneAfterAnother(u) /\ FileGrows(u)

LEMMA FirstPartsLonger ==
  ASSUME NEW n \in Nat
  PROVE  /\ Append(FirstParts(n), n + 1) = FirstParts(n + 1)
         /\ FirstParts(0) = <<>> /\ FirstParts(n) \in Seq(Nat)
<1>1. FirstParts(n) \in [1..n -> Nat] /\ FirstParts(n + 1) \in [1..(n + 1) -> Nat]
  BY DEF FirstParts
<1>2. FirstParts(n) \in Seq(Nat) /\ FirstParts(n + 1) \in Seq(Nat) /\ n + 1 \in Nat
  BY <1>1, IsASeq
<1>3. Len(FirstParts(n)) = n /\ Len(FirstParts(n + 1)) = n + 1
  <2>1. DOMAIN FirstParts(n) = 1..n /\ DOMAIN FirstParts(n + 1) = 1..(n + 1)
    BY DEF FirstParts
  <2> QED BY <1>2, <2>1, LenProperties
<1>4. /\ Append(FirstParts(n), n + 1) \in Seq(Nat)
      /\ Len(Append(FirstParts(n), n + 1)) = n + 1
      /\ \A i \in 1..n : Append(FirstParts(n), n + 1)[i] = FirstParts(n)[i]
      /\ Append(FirstParts(n), n + 1)[n + 1] = n + 1
  BY <1>2, <1>3, AppendProperties
<1>5. \A i \in 1..(n + 1) : Append(FirstParts(n), n + 1)[i] = FirstParts(n + 1)[i]
  <2>1. \A i \in 1..(n + 1) : FirstParts(n + 1)[i] = i /\ (i \in 1..n \/ i = n + 1)
    BY DEF FirstParts
  <2>2. \A i \in 1..n : FirstParts(n)[i] = i
    BY DEF FirstParts
  <2> QED BY <1>4, <2>1, <2>2
<1>6. Append(FirstParts(n), n + 1) = FirstParts(n + 1)
  BY <1>2, <1>3, <1>4, <1>5, SeqEqual
<1>7. FirstParts(0) = <<>>
  <2>1. FirstParts(0) \in [1..0 -> Nat]
    BY DEF FirstParts
  <2>2. FirstParts(0) \in Seq(Nat) /\ DOMAIN FirstParts(0) = 1..0
    BY <2>1, IsASeq
  <2>3. Len(FirstParts(0)) = 0
    BY <2>2, LenProperties
  <2> QED BY <2>2, <2>3, EmptySeq
<1> QED BY <1>2, <1>6, <1>7

\* An upload of which a step at most ends requests.
LEMMA TurnsUntouched ==
  ASSUME NEW u \in Uploads, OneAfterAnother(u), FileGrows(u),
         sends'[u] = sends[u], acked'[u] = acked[u], completed'[u] = completed[u],
         u \in opened' <=> u \in opened, u \in DOMAIN temp' <=> u \in DOMAIN temp,
         u \in DOMAIN temp => temp'[u] = temp[u],
         u \in active => u \in active' \/ "restart" \in disorder', disorder \subseteq disorder',
         \A d \in Connections : calls'[d] \in About(u) => calls'[d] = calls[d]
  PROVE  OneAfterAnother(u)' /\ FileGrows(u)'
<1>1. /\ \A d \in Connections, p \in Parts : calls'[d] = Chunk(u, p) => calls[d] = Chunk(u, p)
      /\ \A d \in Connections : calls'[d] = Completion(u) => calls[d] = Completion(u)
  BY DEF About
<1>2. OneAfterAnother(u)'
  BY <1>1 DEF OneAfterAnother
<1>3. u \in DOMAIN temp' => \E n \in Nat : Holds(u, n)'
  <2>1. \A n \in Nat : u \in DOMAIN temp /\ Holds(u, n) => Holds(u, n)'
    BY <1>1 DEF Holds
  <2> QED BY <2>1 DEF FileGrows
<1>4. FileGrows(u)'
  BY <1>3 DEF FileGrows
<1> QED BY <1>2, <1>4

LEMMA TurnsInit == UploadsInit => TurnsTaken
<1> SUFFICES ASSUME UploadsInit, NEW u \in Uploads
             PROVE  OneAfterAnother(u) /\ FileGrows(u)
  BY DEF TurnsTaken
<1>1. \A c \in Connections : calls[c] = NoCall
  BY DEF UploadsInit
<1>2. /\ sends[u] = 0 /\ acked[u] = {} /\ completed[u] = 0
      /\ DOMAIN temp = {} /\ opened = {}
  BY DEF UploadsInit
<1> QED BY <1>1, <1>2, CallsApart, ChunkedUploadsAssumption DEF OneAfterAnother, FileGrows

LEMMA TurnsStep ==
  ASSUME UploadsTypeOK, OpenedFirst, TurnsTaken, [UploadsNext]_uploadVars
  PROVE  TurnsTaken'
<1>0. provider' = provider /\ disorder \subseteq disorder'
  BY ZenonT(30)
     DEF UploadsNext, uploadVars, InitializeMultipartUpload, SendChunk, UploadChunk,
         SendComplete, CompleteMultipartUpload, CallFails, RestartProcess
<1> SUFFICES ASSUME provider = "local", NEW u \in Uploads, u \notin disorder'
             PROVE  OneAfterAnother(u)' /\ FileGrows(u)'
  BY <1>0 DEF TurnsTaken
<1>1. OneAfterAnother(u) /\ FileGrows(u)
  BY <1>0 DEF TurnsTaken
<1>2. /\ sends \in [Uploads -> Nat] /\ acked \in [Uploads -> SUBSET Parts]
      /\ completed \in [Uploads -> Nat] /\ calls \in [Connections -> Calls]
      /\ DOMAIN temp \subseteq opened /\ active \subseteq opened
  <2>1. 0..MaxSends \subseteq Nat
    BY ChunkedUploadsAssumption
  <2> QED BY <2>1 DEF UploadsTypeOK
<1>3. /\ NumParts \in Nat \ {0} /\ \A p : p \in Parts <=> p \in Nat /\ 1 <= p /\ p <= NumParts
      /\ Parts = 1..NumParts
  BY ChunkedUploadsAssumption DEF Parts
<1>4. \A v : NoCall \notin About(v)
  BY CallsApart DEF About
<1>5. \A v, c : v # u => \A p : Chunk(v, p) \notin About(u) /\ Completion(v) \notin About(u)
  BY CallsApart DEF About
<1>6. ASSUME NEW v \in Uploads, InitializeMultipartUpload(v)
      PROVE  OneAfterAnother(u)' /\ FileGrows(u)'
  <2>1. /\ v \notin opened /\ opened' = opened \union {v}
        /\ active' = active \union {v} /\ temp' = Stored(temp, v, <<>>)
        /\ UNCHANGED <<calls, acked, sends, completed, disorder>>
    BY <1>6 DEF InitializeMultipartUpload
  <2>2. /\ DOMAIN temp' = {v} \union DOMAIN temp /\ temp'[v] = <<>>
        /\ \A w \in DOMAIN temp \ {v} : temp'[w] = temp[w]
    BY <2>1 DEF Stored
  <2>3. CASE u = v
    <3>1. Fresh(u)
      BY <2>1, <2>3 DEF OpenedFirst
    <3>2. \A c \in Connections, p \in Parts : calls[c] # Chunk(u, p) /\ calls[c] # Completion(u)
      BY <3>1 DEF Fresh, About
    <3>3. OneAfterAnother(u)'
      BY <1>1, <2>1 DEF OneAfterAnother
    <3>4. Holds(u, 0)'
      <4>1. temp'[u] = FirstParts(0)
        BY <2>2, <2>3, FirstPartsLonger
      <4>2. sends'[u] = 0 /\ acked'[u] = {}
        BY <2>1, <3>1 DEF Fresh
      <4>3. \A c \in Connections, p \in Parts : calls'[c] # Chunk(u, p)
        BY <2>1, <3>2
      <4> QED BY <4>1, <4>2, <4>3 DEF Holds
    <3>5. FileGrows(u)'
      BY <2>1, <2>2, <2>3, <3>1, <3>4 DEF FileGrows, Fresh
    <3> QED BY <3>3, <3>5
  <2>4. CASE u # v
    <3>1. u \in DOMAIN temp' <=> u \in DOMAIN temp
      BY <2>2, <2>4
    <3>2. u \in DOMAIN temp => temp'[u] = temp[u]
      BY <2>2, <2>4
    <3> QED BY <1>1, <2>1, <2>4, <3>1, <3>2, TurnsUntouched
  <2> QED BY <2>3, <2>4
<1>7. ASSUME NEW c \in Connections, NEW v \in Uploads, NEW p \in Parts, SendChunk(c, v, p)
      PROVE  OneAfterAnother(u)' /\ FileGrows(u)'
  <2>1. /\ calls[c] = NoCall /\ calls' = [calls EXCEPT ![c] = Chunk(v, p)]
        /\ sends' = [sends EXCEPT ![v] = sends[v] + 1]
        /\ v = u => InTurn(u, p)
        /\ UNCHANGED <<opened, active, temp, acked, completed>>
    BY <1>7 DEF SendChunk, Chunk
  <2>2. \A d \in Connections : calls'[d] = IF d = c THEN Chunk(v, p) ELSE calls[d]
    BY <1>2, <2>1
  <2>3. CASE u = v
    <3>1. p = sends[u] + 1 /\ acked[u] = 1..sends[u] /\ sends'[u] = p /\ sends[u] \in Nat
      BY <1>2, <2>1, <2>3 DEF InTurn
    <3>2. \A d \in Connections, q \in Parts : calls[d] # Chunk(u, q)
      <4> SUFFICES ASSUME NEW d \in Connections, NEW q \in Parts, calls[d] = Chunk(u, q)
                   PROVE  FALSE
        OBVIOUS
      <4>1. q = sends[u] /\ acked[u] = 1..(sends[u] - 1)
        BY <1>1 DEF OneAfterAnother
      <4>2. sends[u] \in 1..sends[u] /\ sends[u] \notin 1..(sends[u] - 1)
        BY <1>3, <4>1
      <4> QED BY <3>1, <4>1, <4>2
    <3>3. \A d \in Connections, q \in Parts : calls'[d] = Chunk(u, q) => d = c /\ q = p
      BY <2>2, <2>3, <3>2, CallsApart
    <3>4. \A d \in Connections : calls'[d] = Completion(u) => calls[d] = Completion(u)
      BY <2>2, CallsApart
    <3>5. OneAfterAnother(u)'
      <4>1. sends'[u] <= NumParts /\ acked'[u] = 1..(sends'[u] - 1)
        BY <1>3, <2>1, <3>1
      <4>2. \A d \in Connections, q \in Parts :
              calls'[d] = Chunk(u, q) => q = sends'[u] /\ acked'[u] = 1..(sends'[u] - 1)
        BY <3>1, <3>3, <4>1
      <4>3. \A d, e \in Connections, q \in Parts :
              calls'[d] = Chunk(u, q) /\ calls'[e] = Chunk(u, q) => d = e
        BY <3>3
      <4>4. /\ \A d \in Connections : calls'[d] = Completion(u) => acked'[u] = Parts
            /\ completed'[u] \in {0, 1} /\ (completed'[u] = 1 => acked'[u] = Parts)
        BY <1>1, <2>1, <3>4 DEF OneAfterAnother
      <4> QED BY <4>1, <4>2, <4>3, <4>4 DEF OneAfterAnother
    <3>6. ASSUME u \in DOMAIN temp PROVE \E n \in Nat : Holds(u, n)'
      <4>1. PICK n \in Nat : Holds(u, n)
        BY <1>1, <3>6 DEF FileGrows
      <4>2. n = sends[u]
        <5>1. n <= sends[u] /\ 1..sends[u] \subseteq 1..n
          BY <3>1, <4>1 DEF Holds
        <5>2. sends[u] = 0 \/ sends[u] \in 1..sends[u]
          BY <3>1
        <5> QED BY <3>1, <5>1, <5>2
      <4>3. n <= sends'[u] /\ n = sends'[u] - 1
        BY <3>1, <4>2
      <4>4. Holds(u, n)'
        BY <2>1, <4>1, <4>3 DEF Holds
      <4> QED BY <4>4
    <3>7. FileGrows(u)'
      <4>1. "restart" \in disorder => "restart" \in disorder'
        BY <1>0
      <4> QED BY <1>1, <2>1, <3>6, <4>1 DEF FileGrows
    <3> QED BY <3>5, <3>7
  <2>4. CASE u # v
    <3>1. sends'[u] = sends[u]
      BY <1>2, <2>1, <2>4
    <3>2. \A d \in Connections : calls'[d] \in About(u) => calls'[d] = calls[d]
      BY <1>5, <2>2, <2>4
    <3> QED BY <1>0, <1>1, <2>1, <3>1, <3>2, TurnsUntouched
  <2> QED BY <2>3, <2>4
<1>8. ASSUME NEW c \in Connections, Answered(c)
      PROVE  /\ \A d \in Connections : calls'[d] = IF d = c THEN NoCall ELSE calls[d]
             /\ \A d \in Connections : calls'[d] \in About(u) => calls'[d] = calls[d]
  <2>1. \A d \in Connections : calls'[d] = IF d = c THEN NoCall ELSE calls[d]
    BY <1>2, <1>8 DEF Answered
  <2> QED BY <1>4, <2>1
<1>9. ASSUME NEW c \in Connections, NEW v \in Uploads, NEW p \in Parts, NEW told \in BOOLEAN,
             UploadChunk(c, v, p, told)
      PROVE  OneAfterAnother(u)' /\ FileGrows(u)'
  <2>1. /\ calls[c] = Chunk(v, p) /\ Answered(c)
        /\ temp' = Stored(temp, v, Append(IF v \in DOMAIN temp THEN temp[v] ELSE <<>>, p))
        /\ acked' = IF told THEN [acked EXCEPT ![v] = acked[v] \union {p}] ELSE acked
        /\ UNCHANGED <<opened, active, sends, completed, disorder>>
    BY <1>9 DEF UploadChunk, AppendLocally, Chunk
  <2>2. /\ DOMAIN temp' = {v} \union DOMAIN temp
        /\ temp'[v] = Append(IF v \in DOMAIN temp THEN temp[v] ELSE <<>>, p)
        /\ \A w \in DOMAIN temp \ {v} : temp'[w] = temp[w]
    BY <2>1 DEF Stored
  <2>3. CASE u = v
    <3>1. p = sends[u] /\ acked[u] = 1..(sends[u] - 1) /\ sends[u] \in Nat /\ sends[u] <= NumParts
      BY <1>1, <1>2, <2>1, <2>3 DEF OneAfterAnother
    <3>2. p \notin acked[u] /\ acked[u] # Parts
      BY <1>3, <3>1
    <3>3. completed[u] = 0 /\ u \in opened
      <4>1. u \in opened
        <5>1. calls[c] \in About(u)
          BY <2>1, <2>3 DEF About
        <5> QED BY <5>1 DEF OpenedFirst, Fresh
      <4> QED BY <1>1, <3>2, <4>1 DEF OneAfterAnother
    <3>4. u \in DOMAIN temp
      BY <1>1, <3>3 DEF FileGrows
    <3>5. PICK n \in Nat : Holds(u, n)
      BY <1>1, <3>4 DEF FileGrows
    <3>6. n = sends[u] - 1 /\ p = n + 1 /\ temp[u] = FirstParts(n)
      BY <2>1, <2>3, <3>1, <3>5 DEF Holds
    <3>7. temp'[u] = FirstParts(n + 1)
      BY <2>2, <2>3, <3>4, <3>6, FirstPartsLonger
    <3>8. /\ acked'[u] = 1..sends[u] \/ acked'[u] = 1..(sends[u] - 1)
          /\ acked'[u] \subseteq 1..(n + 1)
      <4>1. acked'[u] = acked[u] \/ acked'[u] = acked[u] \union {p}
        BY <1>2, <2>1, <2>3
      <4>2. acked[u] \union {p} = 1..sends[u]
        BY <3>1, <3>6
      <4> QED BY <3>1, <3>6, <4>1, <4>2
    <3>9. \A d \in Connections, q \in Parts : calls'[d] # Chunk(u, q)
      <4> SUFFICES ASSUME NEW d \in Connections, NEW q \in Parts, calls'[d] = Chunk(u, q)
                   PROVE  FALSE
        OBVIOUS
      <4>1. d # c /\ calls[d] = Chunk(u, q)
        BY <1>8, <2>1, CallsApart
      <4>2. q = p
        BY <1>1, <3>1, <4>1 DEF OneAfterAnother
      <4>3. d = c
        BY <1>1, <2>1, <2>3, <4>1, <4>2 DEF OneAfterAnother
      <4> QED BY <4>1, <4>3
    <3>10. \A d \in Connections : calls'[d] # Completion(u)
      <4>1. \A d \in Connections : calls[d] # Completion(u)
        BY <1>1, <3>2 DEF OneAfterAnother
      <4> QED BY <1>8, <2>1, <4>1, CallsApart
    <3>11. OneAfterAnother(u)'
      BY <2>1, <3>1, <3>3, <3>8, <3>9, <3>10 DEF OneAfterAnother
    <3>12. Holds(u, n + 1)'
      <4>1. n + 1 <= sends'[u]
        BY <2>1, <3>1, <3>6
      <4> QED BY <3>7, <3>8, <3>9, <4>1 DEF Holds
    <3>13. FileGrows(u)'
      BY <1>1, <2>1, <2>2, <2>3, <3>4, <3>12 DEF FileGrows
    <3> QED BY <3>11, <3>13
  <2>4. CASE u # v
    <3>1. acked'[u] = acked[u]
      BY <1>2, <2>1, <2>4
    <3>2. /\ u \in DOMAIN temp' <=> u \in DOMAIN temp
          /\ u \in DOMAIN temp => temp'[u] = temp[u]
      BY <2>2, <2>4
    <3> QED BY <1>1, <1>8, <2>1, <3>1, <3>2, TurnsUntouched
  <2> QED BY <2>3, <2>4
<1>10. ASSUME NEW c \in Connections, NEW v \in Uploads, SendComplete(c, v)
       PROVE  OneAfterAnother(u)' /\ FileGrows(u)'
  <2>1. /\ acked[v] = Parts /\ calls' = [calls EXCEPT ![c] = Completion(v)]
        /\ UNCHANGED <<opened, active, temp, acked, sends, completed, disorder>>
    BY <1>10 DEF SendComplete, Completion
  <2>2. \A d \in Connections : calls'[d] = IF d = c THEN Completion(v) ELSE calls[d]
    BY <1>2, <2>1
  <2>3. CASE u = v
    <3>1. \A d \in Connections, q \in Parts : calls'[d] = Chunk(u, q) => calls[d] = Chunk(u, q)
      BY <2>2, CallsApart
    <3>2. OneAfterAnother(u)'
      BY <1>1, <2>1, <2>3, <3>1 DEF OneAfterAnother
    <3>3. \A n \in Nat : Holds(u, n) => Holds(u, n)'
      BY <2>1, <3>1 DEF Holds
    <3>4. FileGrows(u)'
      BY <1>1, <2>1, <3>3 DEF FileGrows
    <3> QED BY <3>2, <3>4
  <2>4. CASE u # v
    <3>1. \A d \in Connections : calls'[d] \in About(u) => calls'[d] = calls[d]
      BY <1>5, <2>2, <2>4
    <3> QED BY <1>1, <2>1, <3>1, TurnsUntouched
  <2> QED BY <2>3, <2>4
<1>11. ASSUME NEW c \in Connections, NEW v \in Uploads, CompleteMultipartUpload(c, v)
       PROVE  OneAfterAnother(u)' /\ FileGrows(u)'
  <2>1. /\ calls[c] = Completion(v) /\ Answered(c) /\ v \in DOMAIN temp
        /\ temp' = [w \in DOMAIN temp \ {v} |-> temp[w]] /\ active' = active \ {v}
        /\ completed' = [completed EXCEPT ![v] = completed[v] + 1]
        /\ UNCHANGED <<opened, acked, sends, disorder>>
    BY <1>11 DEF CompleteMultipartUpload, RenameTemp, Completion
  <2>2. CASE u = v
    <3>1. completed[u] = 0 /\ acked[u] = Parts
      BY <1>1, <1>2, <2>1, <2>2 DEF OneAfterAnother, FileGrows
    <3>2. u \notin DOMAIN temp' /\ completed'[u] = 1
      BY <1>2, <2>1, <2>2, <3>1
    <3>3. /\ \A d \in Connections, q \in Parts : calls'[d] = Chunk(u, q) => calls[d] = Chunk(u, q)
          /\ \A d \in Connections : calls'[d] = Completion(u) => calls[d] = Completion(u)
      BY <1>8, <2>1, CallsApart
    <3>4. OneAfterAnother(u)'
      BY <1>1, <2>1, <3>1, <3>2, <3>3 DEF OneAfterAnother
    <3> QED BY <3>2, <3>4 DEF FileGrows
  <2>3. CASE u # v
    <3>1. completed'[u] = completed[u]
      BY <1>2, <2>1, <2>3
    <3>2. /\ u \in DOMAIN temp' <=> u \in DOMAIN temp
          /\ u \in DOMAIN temp => temp'[u] = temp[u]
          /\ u \in active => u \in active'
      BY <2>1, <2>3
    <3> QED BY <1>1, <1>8, <2>1, <3>1, <3>2, TurnsUntouched
  <2> QED BY <2>2, <2>3
<1>12. ASSUME NEW c \in Connections, CallFails(c)
       PROVE  OneAfterAnother(u)' /\ FileGrows(u)'
  <2>1. /\ Answered(c)
        /\ UNCHANGED <<opened, active, temp, acked, sends, completed, disorder>>
    BY <1>12 DEF CallFails
  <2> QED BY <1>1, <1>8, <2>1, TurnsUntouched
<1>13. CASE RestartProcess
  <2>1. /\ \A d \in Connections : calls'[d] = NoCall
        /\ disorder' = disorder \union {"restart"}
        /\ UNCHANGED <<opened, temp, acked, sends, completed>>
    BY <1>13 DEF RestartProcess
  <2>2. \A d \in Connections : calls'[d] \in About(u) => calls'[d] = calls[d]
    BY <1>4, <2>1
  <2> QED BY <1>1, <2>1, <2>2, TurnsUntouched
<1>14. CASE UNCHANGED uploadVars
  BY <1>1, <1>14, TurnsUntouched DEF uploadVars
<1> QED BY <1>6, <1>7, <1>9, <1>10, <1>11, <1>12, <1>13, <1>14 DEF UploadsNext

LEMMA PartsStep ==
  ASSUME UploadsTypeOK, OpenedFirst, TurnsTaken, PartsInOrder, [UploadsNext]_uploadVars
  PROVE  PartsInOrder'
<1>1. ASSUME NEW c \in Connections, NEW u \in Uploads, CompleteMultipartUpload(c, u)
      PROVE  PartsInOrder'
  <2>1. calls[c] = Completion(u) /\ UNCHANGED <<provider, disorder>>
    BY <1>1 DEF CompleteMultipartUpload, Completion
  <2>2. PICK file : /\ contents' = Stored(contents, u, file)
                    /\ file = [p \in Parts |-> p] \/ (provider = "local" /\ u \in disorder)
    <3>1. CASE provider = "local" /\ u \notin disorder
      <4>1. OneAfterAnother(u) /\ FileGrows(u)
        BY <3>1 DEF TurnsTaken
      <4>2. u \in DOMAIN temp /\ contents' = Stored(contents, u, temp[u])
        BY <1>1, <3>1 DEF CompleteMultipartUpload, RenameTemp
      <4>3. acked[u] = Parts /\ sends[u] <= NumParts
        BY <2>1, <4>1 DEF OneAfterAnother
      <4>4. PICK n \in Nat : n <= sends[u] /\ temp[u] = FirstParts(n) /\ acked[u] \subseteq 1..n
        BY <4>1, <4>2 DEF FileGrows, Holds
      <4>5. n = NumParts
        <5>1. NumParts \in 1..n
          BY <4>3, <4>4, ChunkedUploadsAssumption DEF Parts
        <5>2. sends[u] \in Nat
          BY ChunkedUploadsAssumption DEF UploadsTypeOK
        <5> QED BY <4>3, <4>4, <5>1, <5>2, ChunkedUploadsAssumption
      <4>6. temp[u] = [p \in Parts |-> p]
        BY <4>4, <4>5 DEF FirstParts, Parts
      <4> QED BY <4>2, <4>6
    <3>2. CASE provider = "local" /\ u \in disorder
      BY <1>1, <3>2 DEF CompleteMultipartUpload, RenameTemp
    <3>3. CASE provider # "local"
      BY <1>1, <3>3 DEF CompleteMultipartUpload, CommitBlocks
    <3> QED BY <3>1, <3>2, <3>3
  <2>3. /\ DOMAIN contents' = {u} \union DOMAIN contents /\ contents'[u] = file
        /\ \A v \in DOMAIN contents \ {u} : contents'[v] = contents[v]
    BY <2>2 DEF Stored
  <2> QED BY <2>1, <2>2, <2>3 DEF PartsInOrder
<1>2. ASSUME UNCHANGED <<provider, contents>>, disorder \subseteq disorder'
      PROVE  PartsInOrder'
  BY <1>2 DEF PartsInOrder
<1> QED BY <1>1, <1>2, ZenonT(30)
        DEF UploadsNext, uploadVars, InitializeMultipartUpload, SendChunk, UploadChunk,
            SendComplete, CallFails, RestartProcess

\* A completed file is its parts in their order, and a local upload is completed
\* once and leaves no temporary file, when the client sent one part after the
\* other, whichever answers were lost and whenever the process was restarted:
\* uploadChunk appends a part when it arrives and completeMultipartUpload renames
\* the file, once; with Azure in any order.
THEOREM UploadsCorrect == UploadsSpec => []UploadsRight
<1> DEFINE Inv == UploadsTypeOK /\ OpenedFirst /\ TurnsTaken /\ PartsInOrder
<1>1. UploadsInit => Inv
  <2>1. UploadsInit => PartsInOrder
    BY DEF UploadsInit, PartsInOrder
  <2> QED BY <2>1, UploadsTypeInit, TurnsInit
<1>2. Inv /\ [UploadsNext]_uploadVars => Inv'
  BY UploadsTypeStep, TurnsStep, PartsStep
<1>3. Inv => UploadsRight
  <2> SUFFICES ASSUME Inv PROVE UploadsRight
    OBVIOUS
  <2>1. CompletedOnce
    <3> SUFFICES ASSUME provider = "local", NEW u \in Uploads \ disorder
                 PROVE  /\ completed[u] <= 1
                        /\ u \in DOMAIN temp
                           => completed[u] = 0 /\ (u \in active \/ "restart" \in disorder)
      BY DEF CompletedOnce
    <3>1. OneAfterAnother(u) /\ FileGrows(u)
      BY DEF TurnsTaken
    <3>2. completed[u] <= 1
      BY <3>1 DEF OneAfterAnother
    <3>3. u \in DOMAIN temp => completed[u] = 0 /\ (u \in active \/ "restart" \in disorder)
      BY <3>1 DEF FileGrows, UploadsTypeOK
    <3> QED BY <3>2, <3>3
  <2> QED BY <2>1 DEF UploadsRight
<1> QED
  <2> HIDE DEF Inv
  <2> QED BY <1>1, <1>2, <1>3, PTL DEF UploadsSpec

\* The first of the signatures that a file declares is the one it is compared with.
LEMMA FirstDeclared ==
  ASSUME NEW file \in FileData
  PROVE  LET I == {i \in 1..6 : Signatures[i] = file.mime \/ Signatures[i] = file.ext}
         IN I # {} => MatchingSignature(file) \in I /\ \A i \in I : MatchingSignature(file) <= i
<1> DEFINE I == {i \in 1..6 : Signatures[i] = file.mime \/ Signatures[i] = file.ext}
<1>1. MatchingSignature(file) = IF I # {} THEN Min(I) ELSE 0
  BY DEF MatchingSignature, SelectInSeq, Signatures
<1> SUFFICES ASSUME I # {} PROVE Min(I) \in I /\ \A i \in I : Min(I) <= i
  BY <1>1
<1>2. \A i \in I : i \in 1..6
  OBVIOUS
<1> HIDE DEF I
<1>3. \E i \in I : \A j \in I : i <= j
  <2>1. 1 \in I \/ 2 \in I \/ 3 \in I \/ 4 \in I \/ 5 \in I \/ 6 \in I
    BY <1>2
  <2>2. 1 \notin I => \A j \in I : j \in 2..6
    BY <1>2
  <2>3. 1 \notin I /\ 2 \notin I => \A j \in I : j \in 3..6
    BY <1>2
  <2>4. 1 \notin I /\ 2 \notin I /\ 3 \notin I => \A j \in I : j \in 4..6
    BY <1>2
  <2>5. 1 \notin I /\ 2 \notin I /\ 3 \notin I /\ 4 \notin I => \A j \in I : j \in 5..6
    BY <1>2
  <2>6. 1 \notin I /\ 2 \notin I /\ 3 \notin I /\ 4 \notin I /\ 5 \notin I => \A j \in I : j = 6
    BY <1>2
  <2> QED BY <1>2, <2>1, <2>2, <2>3, <2>4, <2>5, <2>6
<1> QED BY <1>3 DEF Min

\* "Check binary magic bytes to prevent MIME spoofing" holds in part.  A file whose
\* extension stands for its MIME type, or for no signature, begins as its MIME type
\* says when validateFile accepts it.  In general it need not, as find stops at the
\* first signature that the MIME type or the extension has: a JPEG whose name ends in
\* .jpg passes under every MIME type.
THEOREM SignatureOfFirstDeclared ==
  \A maxSize \in Nat \ {0} :
    /\ \A file \in FileData :
         /\ ValidFile(file, maxSize)
         /\ file.mime # "other" /\ file.ext \in {file.mime, "other"}
         => file.begins = file.mime
    /\ \A mime \in Kinds :
         ValidFile([mime |-> mime, ext |-> "jpeg", begins |-> "jpeg", size |-> maxSize], maxSize)
<1> SUFFICES ASSUME NEW maxSize \in Nat \ {0}
             PROVE  /\ \A file \in FileData :
                         /\ ValidFile(file, maxSize)
                         /\ file.mime # "other" /\ file.ext \in {file.mime, "other"}
                         => file.begins = file.mime
                    /\ \A mime \in Kinds :
                         ValidFile([mime |-> mime, ext |-> "jpeg", begins |-> "jpeg",
                                    size |-> maxSize], maxSize)
  OBVIOUS
<1>1. ASSUME NEW file \in FileData, ValidFile(file, maxSize),
             file.mime # "other", file.ext \in {file.mime, "other"}
      PROVE  file.begins = file.mime
  <2> DEFINE I == {i \in 1..6 : Signatures[i] = file.mime \/ Signatures[i] = file.ext}
  <2>1. file.mime \in Kinds \ {"other"}
    BY <1>1 DEF FileData
  <2>2. \E i \in 1..6 : Signatures[i] = file.mime
    BY <2>1 DEF Kinds, ToSet, Signatures
  <2>3. \A i \in 1..6 : Signatures[i] # "other"
    BY DEF Signatures
  <2>4. MatchingSignature(file) \in I
    BY <2>2, FirstDeclared
  <2>5. Signatures[MatchingSignature(file)] = file.mime /\ MatchingSignature(file) # 0
    BY <1>1, <2>3, <2>4
  <2> QED BY <1>1, <2>5 DEF ValidFile
<1>2. ASSUME NEW mime \in Kinds
      PROVE  ValidFile([mime |-> mime, ext |-> "jpeg", begins |-> "jpeg", size |-> maxSize], maxSize)
  <2> DEFINE file == [mime |-> mime, ext |-> "jpeg", begins |-> "jpeg", size |-> maxSize]
             I == {i \in 1..6 : Signatures[i] = file.mime \/ Signatures[i] = file.ext}
  <2>1. Signatures[1] = "jpeg"
    BY DEF Signatures
  <2>2. file \in FileData
    BY DEF FileData, Kinds, ToSet, Signatures
  <2>3. 1 \in I
    BY <2>1
  <2>4. MatchingSignature(file) \in I /\ MatchingSignature(file) <= 1
    BY <2>2, <2>3, FirstDeclared
  <2>5. MatchingSignature(file) = 1
    BY <2>4
  <2> QED BY <2>1, <2>5 DEF ValidFile
<1> QED BY <1>1, <1>2

-----------------------------------------------------------------------------
(* Staking portfolios: sums over the positions of a staker.                 *)

\* What the positions, or items, at the places T are of.
AmountAt(ps, T) == MapThenSumSet(LAMBDA i : ps[i].amount, T)

\* It is the sum of a function.
LEMMA AmountSum ==
  ASSUME NEW ps, NEW T
  PROVE  AmountAt(ps, T) = SumFunctionOnSet([i \in T |-> ps[i].amount], T)
<1> DEFINE f == [i \in T |-> ps[i].amount]
           P(g) == g = [s \in SUBSET T |-> IF s = {} THEN 0
                          ELSE ps[CHOOSE x \in s : TRUE].amount + g[s \ {CHOOSE x \in s : TRUE}]]
<1>1. ASSUME NEW g PROVE P(g) <=> Sums(f, SUBSET T, g)
  <2>1. \A s \in SUBSET T : s # {} => ps[CHOOSE x \in s : TRUE].amount = f[CHOOSE x \in s : TRUE]
    OBVIOUS
  <2> HIDE DEF f
  <2> QED BY <2>1 DEF Sums, TakeOne
<1>2. (CHOOSE g : P(g)) = (CHOOSE g : Sums(f, SUBSET T, g))
  <2> HIDE DEF P, f
  <2> QED BY <1>1
<1>3. AmountAt(ps, T) = (CHOOSE g : P(g))[T]
  BY DEF AmountAt, MapThenSumSet, MapThenFoldSet
<1>4. SumFunctionOnSet(f, T) = (CHOOSE g : Sums(f, SUBSET T, g))[T]
  BY Unfolded
<1> QED BY <1>2, <1>3, <1>4

\* What the elements of a sequence have that are selected.
LEMMA SelectedAmounts ==
  ASSUME NEW ps, NEW n \in Nat, DOMAIN ps = 1..n, \A i \in 1..n : ps[i].amount \in Nat,
         NEW T \in SUBSET (1..n),
         NEW f, \A i \in 1..n : f[i] = IF i \in T THEN ps[i].amount ELSE 0
  PROVE  AmountAt(ps, T) = SumTo(f, n)
<1> DEFINE g == [i \in T |-> ps[i].amount]
<1>1. AmountAt(ps, T) = SumFunctionOnSet(g, T)
  BY AmountSum
<1>2. \A i \in T : g[i] \in Int /\ f[i] = g[i]
  OBVIOUS
<1>3. (\A i \in 1..n : f[i] \in Int) /\ (\A i \in (1..n) \ T : f[i] = 0)
  OBVIOUS
<1>4. IsFiniteSet(1..n) /\ IsFiniteSet(T)
  <2>1. IsFiniteSet(1..n)
    BY FS_Interval
  <2> QED BY <2>1, FS_Subset
<1> HIDE DEF g
<1>5. SumFunctionOnSet(f, T) = SumFunctionOnSet(g, T)
  BY <1>2, <1>4, SumSame
<1>6. SumFunctionOnSet(f, 1..n) = SumFunctionOnSet(f, T)
  BY <1>3, <1>4, SumOfPart
<1> QED BY <1>1, <1>5, <1>6 DEF SumTo

\* What a staker holds of the asset a in locked, or in unlocked, positions, and
\* the part that a day unlocks.
Held(ps, a, locked) ==
  SumOf(ps, LAMBDA p : p.amount, LAMBDA p : p.asset = a /\ (p.daysLeft > 0) = locked)
Locked(ps, a) == Held(ps, a, TRUE)
Free(ps, a) == Held(ps, a, FALSE)
Maturing(ps, a) ==
  SumOf(ps, LAMBDA p : p.amount, LAMBDA p : p.asset = a /\ p.daysLeft = 1)

\* The same as functions of the index.
Part(ps, a, locked) ==
  [i \in DOMAIN ps |->
     IF ps[i].asset = a /\ (ps[i].daysLeft > 0) = locked THEN ps[i].amount ELSE 0]
Ripe(ps, a) ==
  [i \in DOMAIN ps |-> IF ps[i].asset = a /\ ps[i].daysLeft = 1 THEN ps[i].amount ELSE 0]
Asked(ps, a) == [i \in DOMAIN ps |-> IF ps[i].asset = a THEN ps[i].amount ELSE 0]

\* Positions, or items, one after the other.
Listing(ps) ==
  /\ Len(ps) \in Nat /\ DOMAIN ps = 1..Len(ps)
  /\ \A i \in 1..Len(ps) : ps[i].amount \in Nat

LEMMA PositionsListed == ASSUME NEW ps \in Seq(Position) PROVE Listing(ps)
<1>1. \A i \in 1..Len(ps) : ps[i] \in Position
  OBVIOUS
<1> QED BY <1>1 DEF Listing, Position

LEMMA ItemsListed ==
  ASSUME NEW ps \in Seq(WithdrawItem) \union Seq(StakeItem) PROVE Listing(ps)
<1>1. 1..MaxAmount \subseteq Nat
  BY StakingAssumption
<1>2. Len(ps) \in Nat /\ DOMAIN ps = 1..Len(ps)
  OBVIOUS
<1>3. \A i \in 1..Len(ps) : ps[i] \in WithdrawItem \/ ps[i] \in StakeItem
  OBVIOUS
<1> QED BY <1>1, <1>2, <1>3 DEF Listing, WithdrawItem, StakeItem

LEMMA AmountsOf ==
  ASSUME NEW ps, Listing(ps), NEW a
  PROVE  /\ \A locked \in BOOLEAN : Held(ps, a, locked) = SumTo(Part(ps, a, locked), Len(ps))
         /\ Maturing(ps, a) = SumTo(Ripe(ps, a), Len(ps))
         /\ Total(ps, a) = SumTo(Asked(ps, a), Len(ps))
<1> DEFINE n == Len(ps)
<1>0. n \in Nat /\ DOMAIN ps = 1..n /\ \A i \in 1..n : ps[i].amount \in Nat
  BY DEF Listing
<1> HIDE DEF n
<1>1. ASSUME NEW locked \in BOOLEAN
      PROVE  Held(ps, a, locked) = SumTo(Part(ps, a, locked), n)
  <2> DEFINE T == {i \in DOMAIN ps : ps[i].asset = a /\ (ps[i].daysLeft > 0) = locked}
             f == Part(ps, a, locked)
  <2>1. \A i \in 1..n : f[i] = IF i \in T THEN ps[i].amount ELSE 0
    BY <1>0 DEF Part
  <2>2. T \in SUBSET (1..n)
    BY <1>0
  <2>3. Held(ps, a, locked) = AmountAt(ps, T)
    BY DEF AmountAt, Held, SumOf
  <2> HIDE DEF T, f
  <2>4. AmountAt(ps, T) = SumTo(f, n)
    BY <1>0, <2>1, <2>2, SelectedAmounts, SMTT(30)
  <2> QED BY <2>3, <2>4 DEF f
<1>2. Maturing(ps, a) = SumTo(Ripe(ps, a), n)
  <2> DEFINE T == {i \in DOMAIN ps : ps[i].asset = a /\ ps[i].daysLeft = 1}
             f == Ripe(ps, a)
  <2>1. \A i \in 1..n : f[i] = IF i \in T THEN ps[i].amount ELSE 0
    BY <1>0 DEF Ripe
  <2>2. T \in SUBSET (1..n)
    BY <1>0
  <2>3. Maturing(ps, a) = AmountAt(ps, T)
    BY DEF AmountAt, Maturing, SumOf
  <2> HIDE DEF T, f
  <2>4. AmountAt(ps, T) = SumTo(f, n)
    BY <1>0, <2>1, <2>2, SelectedAmounts, SMTT(30)
  <2> QED BY <2>3, <2>4 DEF f
<1>3. Total(ps, a) = SumTo(Asked(ps, a), n)
  <2> DEFINE T == {i \in DOMAIN ps : ps[i].asset = a}
             f == Asked(ps, a)
  <2>1. \A i \in 1..n : f[i] = IF i \in T THEN ps[i].amount ELSE 0
    BY <1>0 DEF Asked
  <2>2. T \in SUBSET (1..n)
    BY <1>0
  <2>3. Total(ps, a) = AmountAt(ps, T)
    BY DEF AmountAt, Total, SumOf
  <2> HIDE DEF T, f
  <2>4. AmountAt(ps, T) = SumTo(f, n)
    BY <1>0, <2>1, <2>2, SelectedAmounts, SMTT(30)
  <2> QED BY <2>3, <2>4 DEF f
<1> QED BY <1>1, <1>2, <1>3 DEF n

\* A sequence without one of its elements.
LEMMA WithoutOne ==
  ASSUME NEW T, NEW ps \in Seq(T), NEW i \in 1..Len(ps)
  PROVE  /\ RemoveAt(ps, i) \in Seq(T) /\ Len(RemoveAt(ps, i)) = Len(ps) - 1
         /\ \A j \in 1..(i - 1) : RemoveAt(ps, i)[j] = ps[j]
         /\ \A j \in i..(Len(ps) - 1) : RemoveAt(ps, i)[j] = ps[j + 1]
<1> DEFINE first == SubSeq(ps, 1, i - 1)
           rest == SubSeq(ps, i + 1, Len(ps))
<1>1. Len(ps) \in Nat /\ i \in Nat /\ i >= 1 /\ i <= Len(ps)
  OBVIOUS
<1>2. /\ first \in Seq(T) /\ Len(first) = i - 1
      /\ \A j \in 1..(i - 1) : first[j] = ps[j]
  BY <1>1
<1>3. /\ rest \in Seq(T) /\ Len(rest) = Len(ps) - i
      /\ \A j \in 1..(Len(ps) - i) : rest[j] = ps[i + j]
  BY <1>1
<1>4. RemoveAt(ps, i) = first \o rest
  BY DEF RemoveAt
<1> HIDE DEF first, rest
<1>5. /\ first \o rest \in Seq(T) /\ Len(first \o rest) = Len(ps) - 1
      /\ \A j \in 1..(Len(ps) - 1) :
           (first \o rest)[j] = IF j <= i - 1 THEN first[j] ELSE rest[j - (i - 1)]
  <2>1. /\ first \o rest \in Seq(T) /\ Len(first \o rest) = Len(first) + Len(rest)
        /\ \A j \in 1..(Len(first) + Len(rest)) :
             (first \o rest)[j] = IF j <= Len(first) THEN first[j] ELSE rest[j - Len(first)]
    BY <1>2, <1>3, ConcatProperties
  <2>2. Len(first) = i - 1 /\ Len(rest) = Len(ps) - i /\ Len(first) + Len(rest) = Len(ps) - 1
    BY <1>1, <1>2, <1>3
  <2> HIDE <1>2, <1>3
  <2> QED BY <2>1, <2>2
<1>6. ASSUME NEW j \in i..(Len(ps) - 1) PROVE RemoveAt(ps, i)[j] = ps[j + 1]
  <2>1. j - (i - 1) \in 1..(Len(ps) - i) /\ i + (j - (i - 1)) = j + 1
    BY <1>1
  <2> QED BY <1>1, <1>3, <1>4, <1>5, <2>1
<1>7. ASSUME NEW j \in 1..(i - 1) PROVE RemoveAt(ps, i)[j] = ps[j]
  BY <1>1, <1>2, <1>4, <1>5
<1> QED BY <1>4, <1>5, <1>6, <1>7

LEMMA PartTyped ==
  ASSUME NEW ps \in Seq(Position), NEW a, NEW locked
  PROVE  /\ DOMAIN Part(ps, a, locked) = 1..Len(ps)
         /\ \A i \in 1..Len(ps) : Part(ps, a, locked)[i] \in Nat
<1>1. Listing(ps)
  BY PositionsListed
<1> QED BY <1>1 DEF Part, Listing

LEMMA HeldTyped ==
  ASSUME NEW ps \in Seq(Position), NEW a, NEW locked \in BOOLEAN
  PROVE  /\ Held(ps, a, locked) = SumTo(Part(ps, a, locked), Len(ps))
         /\ Held(ps, a, locked) \in Int
<1>1. Held(ps, a, locked) = SumTo(Part(ps, a, locked), Len(ps))
  BY PositionsListed, AmountsOf
<1>2. Len(ps) \in Nat /\ \A i \in 1..Len(ps) : Part(ps, a, locked)[i] \in Int
  BY PartTyped
<1>3. SumTo(Part(ps, a, locked), Len(ps)) \in Int
  BY <1>2, SumToTyped
<1> QED BY <1>1, <1>3

\* What is left when a position is removed, or changed.
LEMMA TakesAll ==
  ASSUME NEW ps \in Seq(Position), NEW i \in 1..Len(ps), NEW a, NEW locked \in BOOLEAN
  PROVE  /\ RemoveAt(ps, i) \in Seq(Position)
         /\ Held(RemoveAt(ps, i), a, locked) = Held(ps, a, locked) - Part(ps, a, locked)[i]
<1> DEFINE n == Len(ps)
           left == RemoveAt(ps, i)
           f == Part(ps, a, locked)
           h == Part(left, a, locked)
<1>1. n \in Nat /\ DOMAIN ps = 1..n
  OBVIOUS
<1>2. /\ left \in Seq(Position) /\ Len(left) = n - 1
      /\ \A j \in 1..(i - 1) : left[j] = ps[j]
      /\ \A j \in i..(n - 1) : left[j] = ps[j + 1]
  BY WithoutOne
<1>3. \A j \in 1..n : f[j] \in Int
  BY PartTyped
<1> HIDE DEF left
<1>4. DOMAIN left = 1..(n - 1)
  BY <1>2
<1>5. ASSUME NEW j \in 1..(i - 1) PROVE h[j] = f[j]
  <2>1. j \in 1..n /\ j \in 1..(n - 1)
    BY <1>1
  <2>2. left[j] = ps[j]
    BY <1>2
  <2> QED BY <1>1, <1>4, <2>1, <2>2 DEF Part
<1>6. ASSUME NEW j \in i..(n - 1) PROVE h[j] = f[j + 1]
  <2>1. j + 1 \in 1..n /\ j \in 1..(n - 1)
    BY <1>1
  <2>2. left[j] = ps[j + 1]
    BY <1>2
  <2> QED BY <1>1, <1>4, <2>1, <2>2 DEF Part
<1>7. Held(left, a, locked) = SumTo(h, n - 1) /\ Held(ps, a, locked) = SumTo(f, n)
  BY <1>2, HeldTyped
<1> HIDE DEF f, h, n
<1>8. SumTo(h, n - 1) = SumTo(f, n) - f[i]
  <2>1. i \in 1..n
    BY DEF n
  <2> QED BY <1>1, <1>3, <1>5, <1>6, <2>1, SumToWithout
<1> QED BY <1>2, <1>7, <1>8 DEF f, left

LEMMA TakesSome ==
  ASSUME NEW ps \in Seq(Position), NEW i \in 1..Len(ps), NEW a, NEW locked \in BOOLEAN,
         NEW left \in Seq(Position), Len(left) = Len(ps),
         \A j \in 1..Len(ps) : j # i => left[j] = ps[j]
  PROVE  Held(left, a, locked)
           = Held(ps, a, locked) - Part(ps, a, locked)[i] + Part(left, a, locked)[i]
<1> DEFINE n == Len(ps)
           f == Part(ps, a, locked)
           h == Part(left, a, locked)
<1>1. n \in Nat /\ DOMAIN ps = 1..n /\ DOMAIN left = 1..n /\ IsFiniteSet(1..n)
  BY FS_Interval
<1>2. \A j \in 1..n : f[j] \in Int /\ h[j] \in Int
  BY PartTyped
<1>3. \A j \in (1..n) \ {i} : h[j] = f[j]
  BY <1>1 DEF Part
<1>4. Held(left, a, locked) = SumTo(h, n) /\ Held(ps, a, locked) = SumTo(f, n)
  BY HeldTyped
<1>5. i \in 1..n
  OBVIOUS
<1> HIDE DEF f, h, n
<1>6. SumTo(h, n) = SumTo(f, n) - f[i] + h[i]
  BY <1>1, <1>2, <1>3, <1>5, SumToChanges
<1> QED BY <1>4, <1>6 DEF f, h

\* What an amount of a position has of the asset a.
Share(p, a, amount) == IF p.asset = a THEN amount ELSE 0

\* What is left after a position that is not locked was taken from.
LEMMA TakesOut ==
  ASSUME NEW ps \in Seq(Position), NEW i \in 1..Len(ps), ps[i].daysLeft = 0,
         NEW amount \in Nat \ {0}, ps[i].amount >= amount, NEW a
  PROVE  /\ Taken(ps, i, amount) \in Seq(Position)
         /\ Locked(Taken(ps, i, amount), a) = Locked(ps, a)
         /\ Free(Taken(ps, i, amount), a)
              = Free(ps, a) - Share(ps[i], a, amount)
<1> DEFINE left == Taken(ps, i, amount)
           locked(qs) == Held(qs, a, TRUE)
           free(qs) == Held(qs, a, FALSE)
           inLocked(qs) == Part(qs, a, TRUE)[i]
           inFree(qs) == Part(qs, a, FALSE)[i]
<1>1. ps[i] \in Position /\ DOMAIN ps = 1..Len(ps)
  OBVIOUS
<1>2. /\ inLocked(ps) = 0
      /\ inFree(ps) = (IF ps[i].asset = a THEN ps[i].amount ELSE 0)
  BY <1>1 DEF Part
<1>3. locked(ps) \in Int /\ free(ps) \in Int
  BY HeldTyped
<1>4. CASE ps[i].amount = amount
  <2>1. left = RemoveAt(ps, i)
    BY <1>4 DEF Taken
  <2>2. RemoveAt(ps, i) \in Seq(Position)
    BY TakesAll
  <2>3. locked(RemoveAt(ps, i)) = locked(ps) - inLocked(ps)
    BY TakesAll
  <2>4. free(RemoveAt(ps, i)) = free(ps) - inFree(ps)
    BY TakesAll
  <2> HIDE DEF left, locked, free, inLocked, inFree
  <2>5. left \in Seq(Position) /\ locked(left) = locked(ps)
    BY <1>2, <1>3, <2>1, <2>2, <2>3
  <2>6. free(left) = free(ps) - (IF ps[i].asset = a THEN amount ELSE 0)
    BY <1>2, <1>3, <1>4, <2>1, <2>4
  <2> QED BY <2>5, <2>6 DEF left, locked, free, Share, Locked, Free
<1>5. CASE ps[i].amount # amount
  <2>1. left = [ps EXCEPT ![i].amount = @ - amount]
    BY <1>5 DEF Taken
  <2>2. [ps[i] EXCEPT !.amount = @ - amount] \in Position
    <3>1. ps[i].amount - amount \in Nat \ {0}
      BY <1>1, <1>5 DEF Position
    <3> QED BY <1>1, <3>1 DEF Position
  <2>3. left \in Seq(Position) /\ Len(left) = Len(ps) /\ DOMAIN left = 1..Len(ps)
    BY <2>1, <2>2
  <2>4. /\ left[i] = [ps[i] EXCEPT !.amount = @ - amount]
        /\ \A j \in 1..Len(ps) : j # i => left[j] = ps[j]
    BY <2>1
  <2>5. /\ left[i].asset = ps[i].asset /\ left[i].daysLeft = 0
        /\ left[i].amount = ps[i].amount - amount /\ ps[i].amount \in Nat
    BY <1>1, <2>4 DEF Position
  <2> HIDE DEF left
  <2>11. ASSUME NEW lk \in BOOLEAN
         PROVE  Held(left, a, lk) = Held(ps, a, lk) - Part(ps, a, lk)[i] + Part(left, a, lk)[i]
    BY <2>3, <2>4, TakesSome
  <2>6. locked(left) = locked(ps) - inLocked(ps) + inLocked(left)
    BY <2>11
  <2>7. free(left) = free(ps) - inFree(ps) + inFree(left)
    BY <2>11
  <2>8. /\ inLocked(left) = 0
        /\ inFree(left) = (IF ps[i].asset = a THEN ps[i].amount - amount ELSE 0)
    BY <2>3, <2>5 DEF Part
  <2> HIDE DEF locked, free, inLocked, inFree
  <2>9. locked(left) = locked(ps)
    BY <1>2, <1>3, <2>6, <2>8
  <2>10. free(left) = free(ps) - (IF ps[i].asset = a THEN amount ELSE 0)
    BY <1>2, <1>3, <2>5, <2>7, <2>8
  <2> QED BY <2>3, <2>9, <2>10 DEF left, locked, free, Share, Locked, Free
<1> QED BY <1>4, <1>5 DEF Share, Locked, Free

LEMMA TotalTyped ==
  ASSUME NEW items \in Seq(WithdrawItem) \union Seq(StakeItem), NEW a
  PROVE  /\ Total(items, a) = SumTo(Asked(items, a), Len(items))
         /\ Total(items, a) \in Int
         /\ Len(items) \in Nat /\ DOMAIN items = 1..Len(items)
         /\ \A i \in 1..Len(items) : Asked(items, a)[i] \in Int
<1>1. Listing(items)
  BY ItemsListed
<1>2. Total(items, a) = SumTo(Asked(items, a), Len(items))
  BY <1>1, AmountsOf
<1>3. /\ Len(items) \in Nat /\ DOMAIN items = 1..Len(items)
      /\ \A i \in 1..Len(items) : Asked(items, a)[i] \in Int
  BY <1>1 DEF Listing, Asked
<1>4. SumTo(Asked(items, a), Len(items)) \in Int
  BY <1>3, SumToTyped
<1> QED BY <1>2, <1>3, <1>4

\* One more item.
LEMMA TotalGrows ==
  ASSUME NEW items \in Seq(WithdrawItem), NEW item \in WithdrawItem, NEW a
  PROVE  Total(Append(items, item), a)
           = Total(items, a) + (IF item.asset = a THEN item.amount ELSE 0)
<1> DEFINE n == Len(items)
           more == Append(items, item)
           f == Asked(items, a)
           h == Asked(more, a)
<1>1. /\ more \in Seq(WithdrawItem) /\ Len(more) = n + 1 /\ n \in Nat
      /\ more[n + 1] = item /\ \A i \in 1..n : more[i] = items[i]
  BY AppendProperties
<1> HIDE DEF more
<1>2. /\ Total(items, a) = SumTo(f, n) /\ DOMAIN items = 1..n
      /\ \A i \in 1..n : f[i] \in Int
  BY TotalTyped
<1>3. /\ Total(more, a) = SumTo(h, n + 1) /\ DOMAIN more = 1..(n + 1)
      /\ \A i \in 1..(n + 1) : h[i] \in Int
  BY <1>1, TotalTyped
<1>4. \A i \in 1..n : h[i] = f[i]
  BY <1>1, <1>2, <1>3 DEF Asked
<1>5. h[n + 1] = IF item.asset = a THEN item.amount ELSE 0
  BY <1>1, <1>3 DEF Asked
<1> HIDE DEF n, f, h
<1>6. SumTo(h, n + 1) = SumTo(h, n) + h[n + 1]
  BY <1>1, <1>3, SumToNext
<1>7. SumTo(h, n) = SumTo(f, n)
  BY <1>1, <1>2, <1>4, SumToSame
<1> QED BY <1>2, <1>3, <1>5, <1>6, <1>7 DEF more

-----------------------------------------------------------------------------
(* What the items of a withdrawal do, one after the other.                  *)

\* What a withdrawal may make of an account: what is locked stays, and what is
\* missing of the rest was paid.
Accounts(ps) ==
  {account \in [positions: Seq(Position), paid: Seq(WithdrawItem)] :
     \A a \in Supported :
       /\ Locked(account.positions, a) = Locked(ps, a)
       /\ Free(account.positions, a) + Total(account.paid, a) = Free(ps, a)}

LEMMA WithdrawOneKeeps ==
  ASSUME NEW ps, NEW account \in Accounts(ps), NEW item \in WithdrawItem
  PROVE  WithdrawOne(account, item) \in Accounts(ps)
<1> DEFINE qs == account.positions
           enough == {i \in DOMAIN qs : qs[i].asset = item.asset /\ qs[i].amount >= item.amount}
           unlocked == {i \in enough : i = Min(enough) /\ qs[i].daysLeft = 0}
           i == Min(unlocked)
           new == [positions |-> Taken(qs, i, item.amount), paid |-> Append(account.paid, item)]
<1>1. account \in [positions: Seq(Position), paid: Seq(WithdrawItem)]
  BY DEF Accounts
<1>2. qs \in Seq(Position) /\ account.paid \in Seq(WithdrawItem) /\ DOMAIN qs = 1..Len(qs)
  BY <1>1
<1>3. CASE unlocked = {}
  BY <1>3 DEF WithdrawOne
<1>4. CASE unlocked # {}
  <2>1. WithdrawOne(account, item) = new
    BY <1>4 DEF WithdrawOne
  <2>2. unlocked = {Min(enough)}
    BY <1>4
  <2>3. i = Min(enough) /\ i \in unlocked
    <3>1. \A x : x \in Int => Min({x}) = x
      BY DEF Min
    <3>2. Min(enough) \in Int
      BY <1>2, <2>2
    <3> QED BY <2>2, <3>1, <3>2
  <2>4. i \in 1..Len(qs) /\ qs[i].daysLeft = 0 /\ qs[i].asset = item.asset
        /\ qs[i].amount >= item.amount
    BY <1>2, <2>3
  <2>5. item.amount \in Nat \ {0}
    BY StakingAssumption DEF WithdrawItem
  <2> HIDE DEF i, enough, unlocked, qs
  <2>6. ASSUME NEW a
        PROVE  /\ Taken(qs, i, item.amount) \in Seq(Position)
               /\ Locked(Taken(qs, i, item.amount), a) = Locked(qs, a)
               /\ Free(Taken(qs, i, item.amount), a)
                    = Free(qs, a) - Share(qs[i], a, item.amount)
    <3> DEFINE amount == item.amount
    <3>1. /\ qs \in Seq(Position) /\ i \in 1..Len(qs) /\ qs[i].daysLeft = 0
          /\ amount \in Nat \ {0} /\ qs[i].amount >= amount
      BY <1>2, <2>4, <2>5
    <3> HIDE DEF amount, new
    <3>2. /\ Taken(qs, i, amount) \in Seq(Position)
          /\ Locked(Taken(qs, i, amount), a) = Locked(qs, a)
          /\ Free(Taken(qs, i, amount), a)
               = Free(qs, a) - Share(qs[i], a, amount)
      BY <3>1, TakesOut
    <3> QED BY <3>2 DEF amount
  <2>7. \A a : Total(Append(account.paid, item), a)
           = Total(account.paid, a) + (IF item.asset = a THEN item.amount ELSE 0)
    BY <1>2, TotalGrows
  <2>8. new \in [positions: Seq(Position), paid: Seq(WithdrawItem)]
    BY <1>2, <2>6, AppendProperties
  <2>9. ASSUME NEW a \in Supported
        PROVE  /\ Locked(new.positions, a) = Locked(ps, a)
               /\ Free(new.positions, a) + Total(new.paid, a) = Free(ps, a)
    <3> DEFINE free == Free(qs, a)
               sofar == Total(account.paid, a)
               gets == IF item.asset = a THEN item.amount ELSE 0
    <3>1. free \in Int /\ sofar \in Int /\ gets \in Int
      <4>1. \A lk \in BOOLEAN : Held(qs, a, lk) \in Int
        BY <1>2, HeldTyped
      <4>2. free \in Int
        BY <4>1 DEF Free
      <4>3. sofar \in Int
        BY <1>2, TotalTyped
      <4>4. gets \in Int
        BY <2>5
      <4> QED BY <4>2, <4>3, <4>4
    <3>2. Locked(qs, a) = Locked(ps, a) /\ free + sofar = Free(ps, a)
      BY DEF Accounts, qs
    <3>3. /\ Free(new.positions, a) = free - gets
          /\ Total(new.paid, a) = sofar + gets
          /\ Locked(new.positions, a) = Locked(qs, a)
      BY <2>4, <2>6, <2>7 DEF Share
    <3> HIDE DEF free, sofar, gets, new
    <3>4. (free - gets) + (sofar + gets) = free + sofar
      BY <3>1
    <3> QED BY <3>2, <3>3, <3>4
  <2> HIDE DEF new
  <2> QED BY <2>1, <2>8, <2>9 DEF Accounts
<1> QED BY <1>3, <1>4

\* All the items, one after the other.
LEMMA WithdrawalsKeep ==
  ASSUME NEW ps, NEW account \in Accounts(ps), NEW items \in Seq(WithdrawItem)
  PROVE  FoldLeft(WithdrawOne, account, items) \in Accounts(ps)
<1> DEFINE S == DOMAIN items
           I == Accounts(ps)
           Folds(g) == g = [s \in SUBSET S |-> IF s = {} THEN account
                              ELSE WithdrawOne(g[s \ {Max(s)}], items[Max(s)])]
           step == [p \in I \X S |-> WithdrawOne(p[1], items[p[2]])]
           fold == CHOOSE g : Folds(g)
<1>1. IsFiniteSet(S) /\ S \subseteq Int /\ \A i \in S : items[i] \in WithdrawItem
  <2>1. S = 1..Len(items) /\ Len(items) \in Nat
    OBVIOUS
  <2> QED BY <2>1, FS_Interval
<1>2. FoldLeft(WithdrawOne, account, items) = fold[S]
  BY DEF FoldLeft, MapThenFoldSet
<1>3. step \in [I \X S -> I]
  <2> HIDE DEF I, S
  <2> QED BY <1>1, WithdrawOneKeeps DEF I
<1>4. \A s \in SUBSET S : s # {} => Max(s) \in S
  <2> SUFFICES ASSUME NEW s \in SUBSET S, s # {} PROVE Max(s) \in S
    OBVIOUS
  <2>1. IsFiniteSet(s) /\ s \subseteq Int
    BY <1>1, FS_Subset
  <2> QED BY <2>1, MaxOfSome
<1>5. \E g : Folds(g)
  <2> HIDE DEF I, S, step
  <2>0. account \in I
    BY DEF I
  <2>4. PICK g \in [SUBSET S -> I] : Folding(g, S, account, step)
    <3> HIDE DEF Folds, fold
    <3>1. IsFiniteSet(S) /\ S \subseteq Int
      BY <1>1
    <3> QED BY <1>3, <2>0, <3>1, FoldExists
  <2>1. /\ g \in [SUBSET S -> I] /\ g[{}] = account
        /\ \A s \in SUBSET S : s # {} => g[s] = step[<<g[s \ {Max(s)}], Max(s)>>]
    BY <2>4 DEF Folding
  <2>2. ASSUME NEW s \in SUBSET S, s # {}
        PROVE  step[<<g[s \ {Max(s)}], Max(s)>>] = WithdrawOne(g[s \ {Max(s)}], items[Max(s)])
    <3>1. g[s \ {Max(s)}] \in I /\ Max(s) \in S
      BY <1>4, <2>1, <2>2
    <3> HIDE <2>1
    <3> QED BY <3>1 DEF step
  <2>3. Folds(g)
    BY <2>1, <2>2
  <2> QED BY <2>3
<1>6. Folds(fold)
  <2> HIDE DEF Folds
  <2> QED BY <1>5
<1>7. fold[{}] \in I /\ \A s \in SUBSET S : s # {} /\ fold[s \ {Max(s)}] \in I => fold[s] \in I
  <2> HIDE DEF fold, I, S
  <2>1. fold[{}] = account
    BY <1>6
  <2>2. ASSUME NEW s \in SUBSET S, s # {}, fold[s \ {Max(s)}] \in I PROVE fold[s] \in I
    <3>1. fold[s] = WithdrawOne(fold[s \ {Max(s)}], items[Max(s)])
      BY <1>6, <2>2
    <3>2. items[Max(s)] \in WithdrawItem
      BY <1>1, <1>4, <2>2
    <3> QED BY <2>2, <3>1, <3>2, WithdrawOneKeeps DEF I
  <2> QED BY <2>1, <2>2 DEF I
<1> HIDE DEF fold, I, S
<1>8. fold[S] \in I
  BY <1>1, <1>7, FoldHolds
<1> QED BY <1>2, <1>8 DEF I

-----------------------------------------------------------------------------
(* What a stake and a day do.                                               *)

\* What ripens, and what a request names, is not negative.
LEMMA Naturals ==
  /\ \A ps \in Seq(Position) : \A a : Maturing(ps, a) \in Nat
  /\ \A items \in Seq(WithdrawItem) \union Seq(StakeItem) : \A a : Total(items, a) \in Nat
<1>1. ASSUME NEW ps \in Seq(Position), NEW a PROVE Maturing(ps, a) \in Nat
  <2>1. Listing(ps)
    BY PositionsListed
  <2>2. Maturing(ps, a) = SumTo(Ripe(ps, a), Len(ps))
    BY <2>1, AmountsOf
  <2>3. Len(ps) \in Nat /\ \A i \in 1..Len(ps) : Ripe(ps, a)[i] \in Nat
    BY <2>1 DEF Listing, Ripe
  <2> QED BY <2>2, <2>3, SumToNatural
<1>2. ASSUME NEW items \in Seq(WithdrawItem) \union Seq(StakeItem), NEW a
      PROVE  Total(items, a) \in Nat
  <2>1. Listing(items)
    BY ItemsListed
  <2>2. Total(items, a) = SumTo(Asked(items, a), Len(items))
    BY <2>1, AmountsOf
  <2>3. Len(items) \in Nat /\ \A i \in 1..Len(items) : Asked(items, a)[i] \in Nat
    BY <2>1 DEF Listing, Asked
  <2> QED BY <2>2, <2>3, SumToNatural
<1> QED BY <1>1, <1>2

LEMMA NewTyped ==
  ASSUME NEW item \in StakeItem, item.asset \in Supported
  PROVE  NewPosition(item) \in Position
<1> DEFINE rate == Rates[item.asset]
           value == item.amount * rate
<1>1. item.amount \in Nat \ {0} /\ item.term \in Nat /\ item.term \in 0..MaxTerm
  BY StakingAssumption DEF StakeItem
<1>2. rate \in Nat
  BY StakingAssumption DEF Supported
<1>3. value \in Nat
  <2> HIDE DEF rate
  <2> QED BY <1>1, <1>2
<1>4. value * item.term \in Nat
  <2> HIDE DEF value
  <2> QED BY <1>1, <1>3
<1> QED BY <1>1, <1>4 DEF NewPosition, Position

\* The positions after those that were there.
Stakes(items) == [i \in DOMAIN items |-> NewPosition(items[i])]

\* What is staked is locked.
LEMMA StakesAdd ==
  ASSUME NEW ps \in Seq(Position), NEW items \in Seq(StakeItem), Valid(items), NEW a
  PROVE  /\ ps \o Stakes(items) \in Seq(Position)
         /\ Locked(ps \o Stakes(items), a) = Locked(ps, a) + Total(items, a)
         /\ Free(ps \o Stakes(items), a) = Free(ps, a)
<1> DEFINE m == Len(ps)
           n == Len(items)
           new == Stakes(items)
           all == ps \o new
<1>1. /\ m \in Nat /\ DOMAIN ps = 1..m /\ n \in Nat /\ DOMAIN items = 1..n
      /\ \A i \in 1..n : items[i] \in StakeItem /\ items[i].asset \in Supported
  BY DEF Valid
<1>2. new \in Seq(Position) /\ Len(new) = n
  <2>1. \A i \in 1..n : new[i] \in Position
    BY <1>1, NewTyped DEF Stakes
  <2> QED BY <1>1, <2>1 DEF Stakes
<1>3. \A i \in 1..n : /\ new[i].asset = items[i].asset /\ new[i].amount = items[i].amount
                      /\ new[i].daysLeft > 0
  BY <1>1 DEF Stakes, NewPosition, StakeItem
<1> HIDE DEF new
<1>4. /\ all \in Seq(Position) /\ Len(all) = m + n
      /\ \A i \in 1..m : all[i] = ps[i]
      /\ \A i \in 1..n : all[m + i] = new[i]
  BY <1>1, <1>2, ConcatProperties
<1> HIDE DEF all
<1>5. DOMAIN all = 1..(m + n)
  BY <1>4
<1>6. ASSUME NEW lk \in BOOLEAN
      PROVE  /\ Held(all, a, lk) = SumTo(Part(all, a, lk), m + n)
             /\ Held(ps, a, lk) = SumTo(Part(ps, a, lk), m)
             /\ \A i \in 1..m : /\ Part(ps, a, lk)[i] \in Int
                                /\ Part(all, a, lk)[i] = Part(ps, a, lk)[i]
             /\ \A i \in 1..n :
                  Part(all, a, lk)[m + i] = IF lk THEN Asked(items, a)[i] ELSE 0
             /\ Held(ps, a, lk) \in Int
  <2>1. Held(all, a, lk) = SumTo(Part(all, a, lk), m + n)
    BY <1>4, HeldTyped
  <2>2. Held(ps, a, lk) = SumTo(Part(ps, a, lk), m) /\ Held(ps, a, lk) \in Int
    BY HeldTyped
  <2>3. \A i \in 1..m : Part(ps, a, lk)[i] \in Int
    BY PartTyped
  <2>4. ASSUME NEW i \in 1..m PROVE Part(all, a, lk)[i] = Part(ps, a, lk)[i]
    BY <1>1, <1>4, <1>5 DEF Part
  <2>5. ASSUME NEW i \in 1..n
        PROVE  Part(all, a, lk)[m + i] = IF lk THEN Asked(items, a)[i] ELSE 0
    <3>1. m + i \in 1..(m + n) /\ all[m + i] = new[i]
      BY <1>1, <1>4
    <3> QED BY <1>1, <1>3, <1>5, <3>1 DEF Part, Asked
  <2> QED BY <2>1, <2>2, <2>3, <2>4, <2>5
<1>7. /\ Total(items, a) = SumTo(Asked(items, a), n)
      /\ Total(items, a) \in Int
      /\ \A i \in 1..n : Asked(items, a)[i] \in Int
  BY TotalTyped
<1>8. Locked(all, a) = Locked(ps, a) + Total(items, a)
  <2> DEFINE f == Part(ps, a, TRUE)
             h == Part(all, a, TRUE)
             g == Asked(items, a)
  <2>1. /\ \A i \in 1..m : f[i] \in Int /\ h[i] = f[i]
        /\ \A i \in 1..n : g[i] \in Int /\ h[m + i] = g[i]
    BY <1>6, <1>7
  <2>2. Locked(all, a) = SumTo(h, m + n) /\ Locked(ps, a) = SumTo(f, m)
    BY <1>6 DEF Locked
  <2> HIDE DEF f, g, h, m, n
  <2>3. SumTo(h, m + n) = SumTo(f, m) + SumTo(g, n)
    <3>1. m \in Nat /\ n \in Nat
      BY <1>1
    <3>2. Joined(f, g, h, m, n)
      BY <2>1 DEF Joined
    <3> QED BY <3>1, <3>2, SumToJoins
  <2> QED BY <1>7, <2>2, <2>3 DEF g
<1>9. Free(all, a) = Free(ps, a)
  <2> DEFINE f == Part(ps, a, FALSE)
             h == Part(all, a, FALSE)
             g == [i \in 1..n |-> 0]
  <2>1. /\ \A i \in 1..m : f[i] \in Int /\ h[i] = f[i]
        /\ \A i \in 1..n : g[i] \in Int /\ h[m + i] = g[i]
    <3>1. \A i \in 1..m : f[i] \in Int /\ h[i] = f[i]
      BY <1>6
    <3>2. ASSUME NEW i \in 1..n PROVE h[m + i] = 0
      BY <1>6
    <3>3. \A i \in 1..n : g[i] = 0
      OBVIOUS
    <3> HIDE DEF f, g, h
    <3> QED BY <3>1, <3>2, <3>3
  <2>2. Free(all, a) = SumTo(h, m + n) /\ Free(ps, a) = SumTo(f, m) /\ Free(ps, a) \in Int
    BY <1>6 DEF Free
  <2>3. \A i \in 1..n : g[i] = 0
    OBVIOUS
  <2> HIDE DEF f, g, h, m, n
  <2>4. SumTo(h, m + n) = SumTo(f, m) + SumTo(g, n)
    <3>1. m \in Nat /\ n \in Nat
      BY <1>1
    <3>2. Joined(f, g, h, m, n)
      BY <2>1 DEF Joined
    <3> QED BY <3>1, <3>2, SumToJoins
  <2>5. SumTo(g, n) = 0
    BY <1>1, <2>3, SumToZeros
  <2> QED BY <2>2, <2>4, <2>5
<1> QED BY <1>4, <1>8, <1>9 DEF all, new

\* A day is over.
Later(ps) == [i \in DOMAIN ps |-> [ps[i] EXCEPT !.daysLeft = Max({@ - 1, 0})]]

LEMMA MaxOfTwo == \A d \in Nat : Max({d - 1, 0}) = IF d = 0 THEN 0 ELSE d - 1
BY DEF Max

\* What ripens changes sides.
LEMMA DayRipens ==
  ASSUME NEW ps \in Seq(Position), NEW a
  PROVE  /\ Later(ps) \in Seq(Position)
         /\ Locked(Later(ps), a) = Locked(ps, a) - Maturing(ps, a)
         /\ Free(Later(ps), a) = Free(ps, a) + Maturing(ps, a)
<1> DEFINE n == Len(ps)
           later == Later(ps)
<1>1. n \in Nat /\ DOMAIN ps = 1..n /\ \A i \in 1..n : ps[i] \in Position
  OBVIOUS
<1>2. ASSUME NEW i \in 1..n
      PROVE  /\ later[i] \in Position /\ later[i].asset = ps[i].asset
             /\ later[i].amount = ps[i].amount
             /\ (later[i].daysLeft > 0) <=> (ps[i].daysLeft > 0 /\ ps[i].daysLeft # 1)
             /\ ps[i].daysLeft \in Nat /\ ps[i].amount \in Nat
  <2> DEFINE d == ps[i].daysLeft
  <2>1. d \in Nat /\ d \in 0..MaxTerm /\ MaxTerm \in Nat
    BY <1>1, StakingAssumption DEF Position
  <2>2. Max({d - 1, 0}) = IF d = 0 THEN 0 ELSE d - 1
    BY <2>1, MaxOfTwo
  <2>3. later[i] = [ps[i] EXCEPT !.daysLeft = Max({d - 1, 0})]
    BY <1>1 DEF Later
  <2>4. Max({d - 1, 0}) \in 0..MaxTerm
    BY <2>1, <2>2
  <2>5. later[i] \in Position /\ later[i].asset = ps[i].asset /\ later[i].amount = ps[i].amount
        /\ later[i].daysLeft = Max({d - 1, 0}) /\ ps[i].amount \in Nat
    BY <1>1, <2>3, <2>4 DEF Position
  <2> QED BY <2>1, <2>2, <2>5
<1>3. later \in Seq(Position) /\ Len(later) = n /\ DOMAIN later = 1..n
  <2>1. DOMAIN later = 1..n
    BY <1>1 DEF Later
  <2>2. \A i \in 1..n : later[i] \in Position
    BY <1>2
  <2>3. later = [i \in 1..n |-> later[i]]
    BY <1>1 DEF Later
  <2> HIDE DEF later, n
  <2>4. later \in [1..n -> Position]
    BY <2>2, <2>3
  <2> QED BY <1>1, <2>1, <2>4
<1> HIDE DEF later
<1>4. ASSUME NEW lk \in BOOLEAN
      PROVE  /\ Held(later, a, lk) = SumTo(Part(later, a, lk), n) /\ Held(later, a, lk) \in Int
             /\ Held(ps, a, lk) = SumTo(Part(ps, a, lk), n) /\ Held(ps, a, lk) \in Int
             /\ \A i \in 1..n : Part(ps, a, lk)[i] \in Int /\ Part(later, a, lk)[i] \in Int
  BY <1>3, HeldTyped, PartTyped
<1>5. /\ Maturing(ps, a) = SumTo(Ripe(ps, a), n) /\ Maturing(ps, a) \in Int
      /\ \A i \in 1..n : Ripe(ps, a)[i] \in Int
  <2>1. Maturing(ps, a) = SumTo(Ripe(ps, a), n)
    BY PositionsListed, AmountsOf
  <2>2. Maturing(ps, a) \in Int
    BY Naturals
  <2>3. \A i \in 1..n : Ripe(ps, a)[i] \in Int
    BY <1>1, <1>2 DEF Ripe
  <2> QED BY <2>1, <2>2, <2>3
<1>6. Locked(later, a) = Locked(ps, a) - Maturing(ps, a)
  <2> DEFINE h == Part(ps, a, TRUE)
             f == Part(later, a, TRUE)
             g == Ripe(ps, a)
  <2>1. ASSUME NEW i \in 1..n PROVE f[i] \in Int /\ g[i] \in Int /\ h[i] = f[i] + g[i]
    <3>1. f[i] \in Int /\ g[i] \in Int
      BY <1>4, <1>5
    <3>2. h[i] = f[i] + g[i]
      BY <1>1, <1>2, <1>3 DEF Part, Ripe
    <3> QED BY <3>1, <3>2
  <2>2. /\ Locked(later, a) = SumTo(f, n) /\ Locked(later, a) \in Int
        /\ Locked(ps, a) = SumTo(h, n)
    BY <1>4 DEF Locked
  <2> HIDE DEF f, g, h, n
  <2>3. SumTo(h, n) = SumTo(f, n) + SumTo(g, n)
    BY <1>1, <2>1, SumToPlus
  <2> QED BY <1>5, <2>2, <2>3 DEF g
<1>7. Free(later, a) = Free(ps, a) + Maturing(ps, a)
  <2> DEFINE f == Part(ps, a, FALSE)
             h == Part(later, a, FALSE)
             g == Ripe(ps, a)
  <2>1. ASSUME NEW i \in 1..n PROVE f[i] \in Int /\ g[i] \in Int /\ h[i] = f[i] + g[i]
    <3>1. f[i] \in Int /\ g[i] \in Int
      BY <1>4, <1>5
    <3>2. h[i] = f[i] + g[i]
      BY <1>1, <1>2, <1>3 DEF Part, Ripe
    <3> QED BY <3>1, <3>2
  <2>2. Free(later, a) = SumTo(h, n) /\ Free(ps, a) = SumTo(f, n)
    BY <1>4 DEF Free
  <2> HIDE DEF f, g, h, n
  <2>3. SumTo(h, n) = SumTo(f, n) + SumTo(g, n)
    BY <1>1, <2>1, SumToPlus
  <2> QED BY <1>5, <2>2, <2>3 DEF g
<1> QED BY <1>3, <1>6, <1>7 DEF later

-----------------------------------------------------------------------------
(* The invariant of the staking portfolios.                                 *)

\* What BalancesKept says of the asset a of a staker.
KeptOf(s, a) ==
  /\ (IF s \in DOMAIN positions THEN Locked(positions[s], a) ELSE 0)
       = staked[s][a] - matured[s][a]
  /\ (IF s \in DOMAIN positions THEN Free(positions[s], a) ELSE 0)
       = matured[s][a] - withdrawn[s][a]
Kept == \A s \in Stakers, a \in Supported : KeptOf(s, a)

\* BalancesKept names the same amounts.
LEMMA KeptBalances == BalancesKept <=> StakingTypeOK /\ Kept
BY DEF BalancesKept, Kept, KeptOf, Locked, Free, Held

LEMMA RequestsListed ==
  /\ \A items \in Requests(StakeItem) : items \in Seq(StakeItem) /\ Len(items) \in Nat
  /\ \A items \in Requests(WithdrawItem) : items \in Seq(WithdrawItem)
<1>1. ASSUME NEW Item, NEW items \in Requests(Item) PROVE items \in Seq(Item)
  <2>1. PICK n \in 1..MaxItems : items \in [1..n -> Item]
    BY DEF Requests
  <2>2. n \in Nat
    BY <2>1, StakingAssumption
  <2> QED BY <2>1, <2>2
<1>2. ASSUME NEW items \in Seq(StakeItem) PROVE Len(items) \in Nat
  OBVIOUS
<1> QED BY <1>1, <1>2

\* The inductive invariant: it holds at first, and every action keeps it.
LEMMA StakingStarts == StakingInit => StakingTypeOK /\ Kept /\ ViewsCurrent
<1> SUFFICES ASSUME StakingInit PROVE StakingTypeOK /\ Kept /\ ViewsCurrent
  OBVIOUS
<1>1. DOMAIN <<>> = {}
  OBVIOUS
<1>2. [s \in Stakers |-> [a \in Supported |-> 0]] \in Amounts
  BY DEF Amounts
<1>3. StakingTypeOK
  BY <1>1, <1>2, StakingAssumption DEF StakingTypeOK, StakingInit
<1>4. Kept
  BY <1>1 DEF Kept, KeptOf, StakingInit
<1>5. ViewsCurrent
  BY <1>1 DEF ViewsCurrent, StakingInit
<1> QED BY <1>3, <1>4, <1>5

\* What the caches hold of stakers whose positions a step left as they were.
LEMMA ViewsStay ==
  ASSUME ViewsCurrent, DOMAIN views \subseteq DOMAIN positions,
         DOMAIN yields \subseteq DOMAIN positions,
         DOMAIN positions \subseteq DOMAIN positions', NEW s,
         \A k \in (DOMAIN positions) \ {s} : positions'[k] = positions[k],
         InvalidateCache(s)
  PROVE  /\ ViewsCurrent'
         /\ DOMAIN views' \subseteq DOMAIN positions'
         /\ DOMAIN yields' \subseteq DOMAIN positions'
<1>1. /\ DOMAIN views' = (DOMAIN views) \ {s} /\ DOMAIN yields' = (DOMAIN yields) \ {s}
      /\ \A k \in DOMAIN views' : views'[k] = views[k]
      /\ \A k \in DOMAIN yields' : yields'[k] = yields[k]
  <2>1. views' = Forget(views, s) /\ yields' = Forget(yields, s)
    BY DEF InvalidateCache
  <2>2. /\ DOMAIN views' = (DOMAIN views) \ {s}
        /\ \A k \in DOMAIN views' : views'[k] = views[k]
    BY <2>1 DEF Forget
  <2>3. /\ DOMAIN yields' = (DOMAIN yields) \ {s}
        /\ \A k \in DOMAIN yields' : yields'[k] = yields[k]
    BY <2>1 DEF Forget
  <2> QED BY <2>2, <2>3
<1>2. ASSUME NEW k \in DOMAIN views' PROVE views'[k] = ViewOf(positions'[k])
  BY <1>1 DEF ViewsCurrent
<1>3. ASSUME NEW k \in DOMAIN yields' PROVE yields'[k] = YieldOf(positions'[k])
  BY <1>1 DEF ViewsCurrent
<1> QED BY <1>1, <1>2, <1>3 DEF ViewsCurrent

LEMMA StakeKeeps ==
  ASSUME StakingTypeOK, Kept, ViewsCurrent,
         NEW s \in Stakers, NEW items \in Requests(StakeItem), StakeMulti(s, items)
  PROVE  StakingTypeOK' /\ Kept' /\ ViewsCurrent'
<1> DEFINE before == IF s \in DOMAIN positions THEN positions[s] ELSE <<>>
           after == before \o Stakes(items)
<1>1. items \in Seq(StakeItem) /\ Valid(items) /\ Len(items) \in Nat
  BY RequestsListed DEF StakeMulti
<1>2. before \in Seq(Position)
  BY DEF StakingTypeOK
<1>3. positions' = Remember(positions, s, after)
  BY DEF StakeMulti, Stakes
<1>4. ASSUME NEW a
      PROVE  /\ after \in Seq(Position)
             /\ Locked(after, a) = Locked(before, a) + Total(items, a)
             /\ Free(after, a) = Free(before, a)
             /\ Total(items, a) \in Nat
  <2> HIDE DEF before
  <2> QED BY <1>1, <1>2, StakesAdd, Naturals
<1>5. ASSUME NEW a, s \notin DOMAIN positions PROVE Locked(before, a) = 0 /\ Free(before, a) = 0
  <2>1. before = <<>> /\ Len(before) = 0
    BY <1>5
  <2> HIDE DEF before
  <2>2. ASSUME NEW lk \in BOOLEAN PROVE Held(before, a, lk) = 0
    BY <1>2, <2>1, HeldTyped, SumToNone
  <2> QED BY <2>2 DEF Locked, Free
<1> HIDE DEF after
<1>6. /\ DOMAIN positions' = (DOMAIN positions) \union {s} /\ positions'[s] = after
      /\ \A k \in (DOMAIN positions) \ {s} : positions'[k] = positions[k]
  BY <1>3 DEF Remember
<1>7. /\ staked' \in Amounts /\ \A a \in Supported : staked'[s][a] = staked[s][a] + Total(items, a)
      /\ \A k \in Stakers \ {s} : staked'[k] = staked[k]
  <2>1. staked' = [staked EXCEPT ![s] = [a \in Supported |-> staked[s][a] + Total(items, a)]]
    BY DEF StakeMulti
  <2>2. staked \in [Stakers -> [Supported -> Nat]] /\ \A a \in Supported : Total(items, a) \in Nat
    BY <1>4 DEF StakingTypeOK, Amounts
  <2>3. [a \in Supported |-> staked[s][a] + Total(items, a)] \in [Supported -> Nat]
    BY <2>2
  <2>4. staked' \in Amounts
    BY <2>1, <2>2, <2>3 DEF Amounts
  <2> QED BY <2>1, <2>2, <2>4
<1>8. UNCHANGED <<matured, withdrawn>>
  BY DEF StakeMulti
<1>9. made' \in 0..MaxStakes
  BY <1>1, StakingAssumption DEF StakeMulti, StakingTypeOK
<1>10. /\ ViewsCurrent' /\ DOMAIN views' \subseteq DOMAIN positions'
       /\ DOMAIN yields' \subseteq DOMAIN positions'
  BY <1>6, ViewsStay DEF StakeMulti, StakingTypeOK
<1>11. StakingTypeOK'
  <2>1. \A k \in DOMAIN positions' : positions'[k] \in Seq(Position)
    BY <1>4, <1>6 DEF StakingTypeOK
  <2> QED BY <1>6, <1>7, <1>8, <1>9, <1>10, <2>1 DEF StakingTypeOK
<1>12. ASSUME NEW k \in Stakers, NEW a \in Supported PROVE KeptOf(k, a)'
  <2>1. KeptOf(k, a)
    BY DEF Kept
  <2>2. CASE k # s
    BY <1>6, <1>7, <1>8, <2>1, <2>2 DEF KeptOf
  <2>3. CASE k = s
    <3>1. /\ Locked(before, a) = staked[s][a] - matured[s][a]
          /\ Free(before, a) = matured[s][a] - withdrawn[s][a]
      BY <1>5, <2>1, <2>3 DEF KeptOf
    <3>2. /\ staked[s][a] \in Nat /\ matured[s][a] \in Nat /\ Total(items, a) \in Nat
      BY <1>4 DEF StakingTypeOK, Amounts
    <3>3. /\ Locked(after, a) = staked'[s][a] - matured'[s][a]
          /\ Free(after, a) = matured'[s][a] - withdrawn'[s][a]
      BY <1>4, <1>7, <1>8, <3>1, <3>2
    <3> QED BY <1>6, <2>3, <3>3 DEF KeptOf
  <2> QED BY <2>2, <2>3
<1> QED BY <1>10, <1>11, <1>12 DEF Kept

LEMMA WithdrawKeeps ==
  ASSUME StakingTypeOK, Kept, ViewsCurrent,
         NEW s \in Stakers, NEW items \in Requests(WithdrawItem), WithdrawMulti(s, items)
  PROVE  StakingTypeOK' /\ Kept' /\ ViewsCurrent'
<1> DEFINE before == [positions |-> positions[s], paid |-> <<>>]
           account == FoldLeft(WithdrawOne, before, items)
<1>1. items \in Seq(WithdrawItem) /\ s \in DOMAIN positions /\ positions[s] \in Seq(Position)
  BY RequestsListed DEF WithdrawMulti, StakingTypeOK
<1>2. account \in Accounts(positions[s])
  <2>1. <<>> \in Seq(WithdrawItem) /\ Len(<<>>) = 0
    OBVIOUS
  <2>2. ASSUME NEW a PROVE Total(<<>>, a) = 0
    BY <2>1, TotalTyped, SumToNone
  <2>3. \A a : Free(positions[s], a) \in Int
    <3>1. ASSUME NEW a, NEW lk \in BOOLEAN PROVE Held(positions[s], a, lk) \in Int
      BY <1>1, HeldTyped
    <3> QED BY <3>1 DEF Free
  <2>4. before \in Accounts(positions[s])
    BY <1>1, <2>1, <2>2, <2>3 DEF Accounts
  <2> HIDE DEF before
  <2> QED BY <1>1, <2>4, WithdrawalsKeep
<1> DEFINE after == account.positions
           paid == account.paid
<1>3. /\ positions' = [positions EXCEPT ![s] = after]
      /\ withdrawn' =
           [withdrawn EXCEPT ![s] = [a \in Supported |-> withdrawn[s][a] + Total(paid, a)]]
  BY DEF WithdrawMulti
<1> HIDE DEF account
<1>4. /\ after \in Seq(Position) /\ paid \in Seq(WithdrawItem)
      /\ \A a \in Supported : /\ Locked(after, a) = Locked(positions[s], a)
                              /\ Free(after, a) + Total(paid, a) = Free(positions[s], a)
  BY <1>2 DEF Accounts
<1>5. \A a : Total(paid, a) \in Nat
  BY <1>4, Naturals
<1> HIDE DEF after, paid
<1>6. /\ DOMAIN positions' = DOMAIN positions /\ positions'[s] = after
      /\ \A k \in (DOMAIN positions) \ {s} : positions'[k] = positions[k]
  BY <1>1, <1>3
<1>7. /\ withdrawn' \in Amounts
      /\ \A a \in Supported : withdrawn'[s][a] = withdrawn[s][a] + Total(paid, a)
      /\ \A k \in Stakers \ {s} : withdrawn'[k] = withdrawn[k]
  <2>1. withdrawn \in [Stakers -> [Supported -> Nat]]
    BY DEF StakingTypeOK, Amounts
  <2>2. [a \in Supported |-> withdrawn[s][a] + Total(paid, a)] \in [Supported -> Nat]
    BY <1>5, <2>1
  <2>3. withdrawn' \in Amounts
    BY <1>3, <2>1, <2>2 DEF Amounts
  <2> QED BY <1>3, <2>1, <2>3
<1>8. UNCHANGED <<staked, matured, made>>
  BY DEF WithdrawMulti
<1>10. /\ ViewsCurrent' /\ DOMAIN views' \subseteq DOMAIN positions'
       /\ DOMAIN yields' \subseteq DOMAIN positions'
  BY <1>6, ViewsStay DEF WithdrawMulti, StakingTypeOK
<1>11. StakingTypeOK'
  <2>1. \A k \in DOMAIN positions' : positions'[k] \in Seq(Position)
    BY <1>4, <1>6 DEF StakingTypeOK
  <2> QED BY <1>6, <1>7, <1>8, <1>10, <2>1 DEF StakingTypeOK
<1>12. ASSUME NEW k \in Stakers, NEW a \in Supported PROVE KeptOf(k, a)'
  <2>1. KeptOf(k, a)
    BY DEF Kept
  <2>2. CASE k # s
    BY <1>6, <1>7, <1>8, <2>1, <2>2 DEF KeptOf
  <2>3. CASE k = s
    <3>1. /\ Locked(positions[s], a) = staked[s][a] - matured[s][a]
          /\ Free(positions[s], a) = matured[s][a] - withdrawn[s][a]
      BY <1>1, <2>1, <2>3 DEF KeptOf
    <3>2. /\ withdrawn[s][a] \in Nat /\ matured[s][a] \in Nat /\ Total(paid, a) \in Nat
          /\ Free(after, a) \in Int
      <4>1. ASSUME NEW lk \in BOOLEAN PROVE Held(after, a, lk) \in Int
        BY <1>4, HeldTyped
      <4> QED BY <1>5, <4>1 DEF StakingTypeOK, Amounts, Free
    <3>3. /\ Locked(after, a) = staked'[s][a] - matured'[s][a]
          /\ Free(after, a) = matured'[s][a] - withdrawn'[s][a]
      <4>1. /\ Locked(after, a) = Locked(positions[s], a)
            /\ Free(after, a) + Total(paid, a) = Free(positions[s], a)
        BY <1>4
      <4>2. withdrawn'[s][a] = withdrawn[s][a] + Total(paid, a)
        BY <1>7
      <4>3. staked'[s][a] = staked[s][a] /\ matured'[s][a] = matured[s][a]
        BY <1>8
      <4>4. Locked(after, a) = staked'[s][a] - matured'[s][a]
        BY <3>1, <4>1, <4>3
      <4>5. Free(after, a) = matured[s][a] - (withdrawn[s][a] + Total(paid, a))
        BY <3>1, <3>2, <4>1
      <4> QED BY <4>2, <4>3, <4>4, <4>5
    <3> QED BY <1>1, <1>6, <2>3, <3>3 DEF KeptOf
  <2> QED BY <2>2, <2>3
<1> QED BY <1>10, <1>11, <1>12 DEF Kept

LEMMA DayKeeps ==
  ASSUME StakingTypeOK, Kept, ViewsCurrent, Day
  PROVE  StakingTypeOK' /\ Kept' /\ ViewsCurrent'
<1> DEFINE ripe(s, a) == IF s \in DOMAIN positions THEN Maturing(positions[s], a) ELSE 0
<1>1. /\ positions' = [s \in DOMAIN positions |-> Later(positions[s])]
      /\ views' = <<>> /\ yields' = <<>> /\ UNCHANGED <<staked, withdrawn, made>>
  BY DEF Day, Later
<1>2. matured' = [s \in Stakers |-> [a \in Supported |-> matured[s][a] + ripe(s, a)]]
  BY DEF Day, Maturing
<1>3. ASSUME NEW s \in DOMAIN positions, NEW a
      PROVE  /\ positions'[s] \in Seq(Position)
             /\ Locked(positions'[s], a) = Locked(positions[s], a) - ripe(s, a)
             /\ Free(positions'[s], a) = Free(positions[s], a) + ripe(s, a)
             /\ Maturing(positions[s], a) \in Nat
  <2>1. positions[s] \in Seq(Position) /\ positions'[s] = Later(positions[s])
    BY <1>1 DEF StakingTypeOK
  <2>2. ripe(s, a) = Maturing(positions[s], a)
    OBVIOUS
  <2> HIDE DEF ripe
  <2> QED BY <2>1, <2>2, DayRipens, Naturals
<1>4. \A s, a : ripe(s, a) \in Nat
  BY <1>3
<1>5. \A s, a : s \notin DOMAIN positions => ripe(s, a) = 0
  OBVIOUS
<1> HIDE DEF ripe
<1>6. matured' \in Amounts
  <2>1. matured \in [Stakers -> [Supported -> Nat]]
    BY DEF StakingTypeOK, Amounts
  <2>2. \A s \in Stakers : [a \in Supported |-> matured[s][a] + ripe(s, a)] \in [Supported -> Nat]
    BY <1>4, <2>1
  <2> QED BY <1>2, <2>2 DEF Amounts
<1>7. DOMAIN views' = {} /\ DOMAIN yields' = {} /\ DOMAIN positions' = DOMAIN positions
  BY <1>1
<1>8. StakingTypeOK'
  <2>1. \A s \in DOMAIN positions' : positions'[s] \in Seq(Position)
    BY <1>3, <1>7
  <2> QED BY <1>1, <1>6, <1>7, <2>1 DEF StakingTypeOK
<1>9. ASSUME NEW s \in Stakers, NEW a \in Supported PROVE KeptOf(s, a)'
  <2>1. KeptOf(s, a)
    BY DEF Kept
  <2>2. /\ matured'[s][a] = matured[s][a] + ripe(s, a) /\ ripe(s, a) \in Nat
        /\ staked[s][a] \in Nat /\ matured[s][a] \in Nat /\ withdrawn[s][a] \in Nat
    BY <1>2, <1>4 DEF StakingTypeOK, Amounts
  <2>3. CASE s \in DOMAIN positions
    <3>1. /\ Locked(positions[s], a) = staked[s][a] - matured[s][a]
          /\ Free(positions[s], a) = matured[s][a] - withdrawn[s][a]
      BY <2>1, <2>3 DEF KeptOf
    <3>2. /\ Locked(positions'[s], a) = staked[s][a] - matured'[s][a]
          /\ Free(positions'[s], a) = matured'[s][a] - withdrawn[s][a]
      BY <1>3, <2>2, <2>3, <3>1
    <3> QED BY <1>1, <1>7, <2>3, <3>2 DEF KeptOf
  <2>4. CASE s \notin DOMAIN positions
    BY <1>1, <1>5, <1>7, <2>1, <2>2, <2>4 DEF KeptOf
  <2> QED BY <2>3, <2>4
<1>10. ViewsCurrent'
  BY <1>7 DEF ViewsCurrent
<1> QED BY <1>8, <1>9, <1>10 DEF Kept

LEMMA ViewsKeep ==
  ASSUME StakingTypeOK, Kept, ViewsCurrent, NEW s \in Stakers,
         GetPortfolioView(s) \/ GetAggregatedYield(s) \/ Expire(s)
  PROVE  StakingTypeOK' /\ Kept' /\ ViewsCurrent'
<1>1. UNCHANGED <<positions, staked, matured, withdrawn, made>>
  BY DEF GetPortfolioView, GetAggregatedYield, Expire
<1>2. Kept'
  BY <1>1 DEF Kept, KeptOf
<1>3. /\ ViewsCurrent' /\ DOMAIN views' \subseteq DOMAIN positions
      /\ DOMAIN yields' \subseteq DOMAIN positions
  <2>1. CASE GetPortfolioView(s)
    <3> DEFINE view == ViewOf(positions[s])
    <3>1. /\ s \in DOMAIN positions /\ views' = Remember(views, s, view)
          /\ UNCHANGED yields
      BY <2>1 DEF GetPortfolioView
    <3> HIDE DEF view
    <3>2. /\ DOMAIN views' = (DOMAIN views) \union {s} /\ views'[s] = view
          /\ \A k \in (DOMAIN views) \ {s} : views'[k] = views[k]
      BY <3>1 DEF Remember
    <3> QED BY <1>1, <3>1, <3>2 DEF view, ViewsCurrent, StakingTypeOK
  <2>2. CASE GetAggregatedYield(s)
    <3> DEFINE yield == YieldOf(positions[s])
    <3>1. /\ s \in DOMAIN positions /\ yields' = Remember(yields, s, yield)
          /\ UNCHANGED views
      BY <2>2 DEF GetAggregatedYield
    <3> HIDE DEF yield
    <3>2. /\ DOMAIN yields' = (DOMAIN yields) \union {s} /\ yields'[s] = yield
          /\ \A k \in (DOMAIN yields) \ {s} : yields'[k] = yields[k]
      BY <3>1 DEF Remember
    <3> QED BY <1>1, <3>1, <3>2 DEF yield, ViewsCurrent, StakingTypeOK
  <2>3. CASE Expire(s)
    <3>1. \/ views' = Forget(views, s) /\ yields' = yields
          \/ yields' = Forget(yields, s) /\ views' = views
      BY <2>3 DEF Expire
    <3>2. CASE views' = Forget(views, s) /\ yields' = yields
      <4>1. /\ DOMAIN views' = (DOMAIN views) \ {s}
            /\ \A k \in DOMAIN views' : views'[k] = views[k]
        BY <3>2 DEF Forget
      <4> QED BY <1>1, <3>2, <4>1 DEF ViewsCurrent, StakingTypeOK
    <3>3. CASE yields' = Forget(yields, s) /\ views' = views
      <4>1. /\ DOMAIN yields' = (DOMAIN yields) \ {s}
            /\ \A k \in DOMAIN yields' : yields'[k] = yields[k]
        BY <3>3 DEF Forget
      <4> QED BY <1>1, <3>3, <4>1 DEF ViewsCurrent, StakingTypeOK
    <3> QED BY <3>1, <3>2, <3>3
  <2> QED BY <2>1, <2>2, <2>3
<1>4. StakingTypeOK'
  BY <1>1, <1>3 DEF StakingTypeOK
<1> QED BY <1>2, <1>3, <1>4

\* PortfolioService: of each asset a staker holds what was staked less what was
\* paid, locked until its term has ended, whatever stakes, partial withdrawals,
\* requests with several items of one asset and days there were; and what the
\* cache serves is what the service would compute.
THEOREM PortfoliosStayRight == StakingSpec => []PortfoliosRight
<1> DEFINE Inv == StakingTypeOK /\ Kept /\ ViewsCurrent
<1>1. StakingInit => Inv
  BY StakingStarts
<1>2. Inv /\ [StakingNext]_stakingVars => Inv'
  <2> SUFFICES ASSUME Inv, [StakingNext]_stakingVars PROVE Inv'
    OBVIOUS
  <2>1. CASE \E s \in Stakers, items \in Requests(StakeItem) : StakeMulti(s, items)
    BY <2>1, StakeKeeps
  <2>2. CASE \E s \in Stakers, items \in Requests(WithdrawItem) : WithdrawMulti(s, items)
    BY <2>2, WithdrawKeeps
  <2>3. CASE \E s \in Stakers : GetPortfolioView(s) \/ GetAggregatedYield(s) \/ Expire(s)
    BY <2>3, ViewsKeep
  <2>4. CASE Day
    BY <2>4, DayKeeps
  <2>5. CASE UNCHANGED stakingVars
    BY <2>5 DEF stakingVars, StakingTypeOK, Kept, KeptOf, ViewsCurrent
  <2> QED BY <2>1, <2>2, <2>3, <2>4, <2>5 DEF StakingNext
<1>3. Inv => PortfoliosRight
  BY KeptBalances DEF PortfoliosRight
<1> QED BY <1>1, <1>2, <1>3, PTL DEF StakingSpec

-----------------------------------------------------------------------------
(* Rebalancing: what an execution costs, by two formulas.                    *)

\* The least of a set that has a least.
LEMMA LeastIsMin ==
  ASSUME NEW S, S \subseteq Int, NEW i \in S, \A j \in S : i <= j
  PROVE  Min(S) = i
<1>1. \A x \in S : (\A j \in S : x <= j) => x = i
  OBVIOUS
<1> QED BY <1>1 DEF Min

\* Both sums of an execution are sums of functions of the asset.
CostOf(trades) == MapThenSumSet(LAMBDA a : trades[a].cost, DOMAIN trades)

LEMMA CostSum ==
  ASSUME NEW trades
  PROVE  CostOf(trades)
           = SumFunctionOnSet([a \in DOMAIN trades |-> trades[a].cost], DOMAIN trades)
<1> DEFINE T == DOMAIN trades
           f == [a \in T |-> trades[a].cost]
           P(g) == g = [s \in SUBSET T |-> IF s = {} THEN 0
                          ELSE trades[CHOOSE x \in s : TRUE].cost + g[s \ {CHOOSE x \in s : TRUE}]]
<1>1. ASSUME NEW g PROVE P(g) <=> Sums(f, SUBSET T, g)
  <2>1. \A s \in SUBSET T : s # {} => trades[CHOOSE x \in s : TRUE].cost = f[CHOOSE x \in s : TRUE]
    OBVIOUS
  <2> HIDE DEF f
  <2> QED BY <2>1 DEF Sums, TakeOne
<1>2. (CHOOSE g : P(g)) = (CHOOSE g : Sums(f, SUBSET T, g))
  <2> HIDE DEF P, f
  <2> QED BY <1>1
<1>3. CostOf(trades) = (CHOOSE g : P(g))[T]
  BY DEF CostOf, MapThenSumSet, MapThenFoldSet
<1>4. SumFunctionOnSet(f, T) = (CHOOSE g : Sums(f, SUBSET T, g))[T]
  BY Unfolded
<1> QED BY <1>2, <1>3, <1>4

LEMMA FeesSum ==
  ASSUME NEW assets, NEW rate
  PROVE  Fees(assets, rate)
           = SumFunctionOnSet([a \in DOMAIN assets |->
               Amount(assets[a]) * rate + 10 * assets[a].volatility], DOMAIN assets)
<1> DEFINE T == DOMAIN assets
           Fee(a) == Amount(assets[a]) * rate + 10 * assets[a].volatility
           f == [a \in T |-> Fee(a)]
           P(g) == g = [s \in SUBSET T |-> IF s = {} THEN 0
                          ELSE Fee(CHOOSE x \in s : TRUE) + g[s \ {CHOOSE x \in s : TRUE}]]
<1>3. Fees(assets, rate) = (CHOOSE g : P(g))[T]
  BY DEF Fees, MapThenSumSet, MapThenFoldSet
<1>4. SumFunctionOnSet(f, T) = (CHOOSE g : Sums(f, SUBSET T, g))[T]
  BY Unfolded
<1>1. ASSUME NEW g PROVE P(g) <=> Sums(f, SUBSET T, g)
  <2>1. \A s \in SUBSET T : s # {} => Fee(CHOOSE x \in s : TRUE) = f[CHOOSE x \in s : TRUE]
    <3> HIDE DEF Fee
    <3> QED OBVIOUS
  <2> HIDE DEF f, Fee
  <2> QED BY <2>1 DEF Sums, TakeOne
<1>2. (CHOOSE g : P(g)) = (CHOOSE g : Sums(f, SUBSET T, g))
  <2> HIDE DEF P, f
  <2> QED BY <1>1
<1> QED BY <1>2, <1>3, <1>4

\* The strategy is one that has a rate, which the planner and the calculator
\* each list.
LEMMA StrategyRated ==
  ASSUME NEW strategy, NEW assets
  PROVE  ResolveStrategy(strategy, assets) \in Strategies
BY DEF ResolveStrategy, Strategies

LEMMA RatesAgree ==
  ASSUME NEW holding, NEW strategy \in Strategies
  PROVE  TradeCost(holding, strategy)
           = Amount(holding) * FeeRate(strategy) + 10 * holding.volatility
BY DEF TradeCost, FeeRate, Strategies

\* What history has of an execution besides its identifier.
Estimated(e) ==
  /\ e.totalFees = EstimateFees(e.request)
  /\ e.slippageEvents =
       Cardinality({a \in DOMAIN e.trades :
         Blocked(e.request.assets[a].liquidity, e.trades[a].amount, e.request.tolerance)})

LEMMA ResultEstimated == ASSUME NEW request PROVE Estimated(Result(request))
<1> DEFINE assets == request.assets
           strategy == ResolveStrategy(request.strategy, assets)
           trades == Plan(request).trades
<1>1. /\ DOMAIN trades = DOMAIN assets
      /\ \A a \in DOMAIN assets : trades[a] = BuildTrade(assets[a], strategy)
  BY DEF Plan
<1>2. \A a \in DOMAIN assets : /\ trades[a].cost = TradeCost(assets[a], strategy)
                               /\ trades[a].amount = Amount(assets[a])
                               /\ trades[a].slippage = PlannedSlippage(assets[a])
  <2> SUFFICES ASSUME NEW a \in DOMAIN assets
               PROVE  /\ trades[a].cost = TradeCost(assets[a], strategy)
                      /\ trades[a].amount = Amount(assets[a])
                      /\ trades[a].slippage = PlannedSlippage(assets[a])
    OBVIOUS
  <2>1. trades[a] = BuildTrade(assets[a], strategy)
    BY <1>1
  <2> HIDE DEF trades, strategy, assets
  <2> QED BY <2>1 DEF BuildTrade
<1>3. /\ Result(request).totalFees = CostOf(trades)
      /\ Result(request).trades = trades
      /\ Result(request).request = request
      /\ Result(request).slippageEvents =
           Cardinality({a \in DOMAIN trades : trades[a].slippage > request.tolerance})
  BY DEF Result, CostOf
<1>4. strategy \in Strategies
  BY StrategyRated
<1> HIDE DEF trades, strategy
<1>5. CostOf(trades) = Fees(assets, FeeRate(strategy))
  <2>1. \A a \in DOMAIN assets :
          trades[a].cost = Amount(assets[a]) * FeeRate(strategy) + 10 * assets[a].volatility
    BY <1>2, <1>4, RatesAgree
  <2>2. [a \in DOMAIN trades |-> trades[a].cost]
          = [a \in DOMAIN assets |->
               Amount(assets[a]) * FeeRate(strategy) + 10 * assets[a].volatility]
    BY <1>1, <2>1
  <2> QED BY <1>1, <2>2, CostSum, FeesSum
<1>6. \A a \in DOMAIN trades :
        (trades[a].slippage > request.tolerance)
          <=> Blocked(assets[a].liquidity, trades[a].amount, request.tolerance)
  <2> SUFFICES ASSUME NEW a \in DOMAIN assets
               PROVE  (PlannedSlippage(assets[a]) > request.tolerance)
                        <=> Blocked(assets[a].liquidity, Amount(assets[a]), request.tolerance)
    BY <1>1, <1>2
  <2> QED BY Zenon DEF PlannedSlippage, Blocked
<1>7. {a \in DOMAIN trades : trades[a].slippage > request.tolerance}
        = {a \in DOMAIN trades : Blocked(assets[a].liquidity, trades[a].amount, request.tolerance)}
  BY <1>6
<1> QED BY <1>3, <1>5, <1>7 DEF Estimated, EstimateFees, strategy

\* getTrades finds the first.
LEMMA FirstFound ==
  ASSUME DOMAIN executions \subseteq Int, NEW i \in DOMAIN executions,
         DOMAIN executions = 1..Len(executions), Len(executions) \in Nat,
         \A j \in 1..(i - 1) : executions[j].id # executions[i].id
  PROVE  GetTrades(executions[i].id) = executions[i].trades
<1> DEFINE found == {j \in DOMAIN executions : executions[j].id = executions[i].id}
<1>1. found \subseteq Int /\ i \in found
  OBVIOUS
<1>2. \A j \in found : i <= j
  <2> SUFFICES ASSUME NEW j \in found, ~ (i <= j) PROVE FALSE
    OBVIOUS
  <2>1. j \in 1..(i - 1)
    OBVIOUS
  <2> QED BY <2>1
<1>3. Min(found) = i
  <2> HIDE DEF found
  <2> QED BY <1>1, <1>2, LeastIsMin
<1>4. GetTrades(executions[i].id) = IF found = {} THEN <<>> ELSE executions[Min(found)].trades
  BY DEF GetTrades
<1> HIDE DEF found
<1> QED BY <1>1, <1>3, <1>4

\* The executions are a sequence, of whatever.
HistoryKept ==
  /\ \E S : executions \in Seq(S)
  /\ \A i \in DOMAIN executions : Estimated(executions[i])

\* RebalancingService: an execution costs what estimateFees says of its request,
\* has as many slippage events as trades that getSlippageEstimate blocks, and
\* getTrades finds its trades, or those of an execution of the same millisecond.
THEOREM ExecutionsCorrect == ExecutionSpec => []ExecutionsAsEstimated
<1>1. ExecutionInit => HistoryKept
  BY DEF ExecutionInit, HistoryKept
<1>2. HistoryKept /\ [ExecutionNext]_executionVars => HistoryKept'
  <2> SUFFICES ASSUME HistoryKept, [ExecutionNext]_executionVars PROVE HistoryKept'
    OBVIOUS
  <2>1. CASE executions' = executions
    BY <2>1 DEF HistoryKept
  <2>2. ASSUME NEW request \in RebalanceRequests, Execute(request) PROVE HistoryKept'
    <3> DEFINE e == Result(request)
    <3>1. executions' = Append(executions, e)
      BY <2>2 DEF Execute
    <3>2. Estimated(e)
      BY ResultEstimated
    <3>3. PICK S : executions \in Seq(S)
      BY DEF HistoryKept
    <3> HIDE DEF e
    <3>4. executions \in Seq(S \union {e})
      BY <3>3
    <3>5. /\ executions' \in Seq(S \union {e}) /\ Len(executions') = Len(executions) + 1
          /\ Len(executions) \in Nat
          /\ \A i \in 1..Len(executions) : executions'[i] = executions[i]
          /\ executions'[Len(executions) + 1] = e
      BY <3>1, <3>4, AppendProperties
    <3>6. ASSUME NEW i \in DOMAIN executions' PROVE Estimated(executions'[i])
      <4>1. i \in 1..Len(executions) \/ i = Len(executions) + 1
        BY <3>5
      <4>2. \A j \in 1..Len(executions) : Estimated(executions[j])
        BY <3>3 DEF HistoryKept
      <4> QED BY <3>2, <3>5, <4>1, <4>2
    <3>7. \E R : executions' \in Seq(R)
      BY <3>5
    <3>8. (\A i \in DOMAIN executions : Estimated(executions[i]))'
      BY <3>6 DEF Estimated
    <3> QED BY <3>7, <3>8 DEF HistoryKept
  <2> QED BY <2>1, <2>2 DEF ExecutionNext, DryRun, MillisPass, executionVars
<1>3. HistoryKept => ExecutionsAsEstimated
  <2> SUFFICES ASSUME HistoryKept, NEW i \in DOMAIN executions
               PROVE  /\ Estimated(executions[i])
                      /\ \/ GetTrades(executions[i].id) = executions[i].trades
                         \/ \E j \in 1..(i - 1) : executions[j].id = executions[i].id
    BY DEF ExecutionsAsEstimated, Estimated
  <2>1. DOMAIN executions = 1..Len(executions) /\ Len(executions) \in Nat
    BY DEF HistoryKept
  <2>2. DOMAIN executions \subseteq Int
    BY <2>1
  <2> QED BY <2>1, <2>2, FirstFound DEF HistoryKept
<1> QED BY <1>1, <1>2, <1>3, PTL DEF ExecutionSpec

-----------------------------------------------------------------------------
(* Monitoring: the requests in progress and what counts them.               *)

Busy == {h \in Handlers : requests[h] # NoRoute}

\* The counts of CountersAgree; finitely many requests are in progress.
CountsAgree ==
  /\ IsFiniteSet(Busy)
  /\ performance.active = Cardinality(Busy)
  /\ SumFunctionOnSet(total, Routes) = performance.total
  /\ SumFunctionOnSet(errorTotal, Routes) = performance.errors
  /\ \A r \in Routes \ shared : inFlight[r] = Cardinality(InProgress(r))

LEMMA SumOverRoutes ==
  ASSUME NEW f, DOMAIN f = Routes
  PROVE  SumOver(f) = SumFunctionOnSet(f, Routes)
BY DEF SumOver, FoldFunction, SumFunctionOnSet

LEMMA CountersStated == TypeOK => (CountsAgree => CountersAgree)
<1> SUFFICES ASSUME TypeOK, CountsAgree PROVE CountersAgree
  OBVIOUS
<1>1. DOMAIN total = Routes /\ DOMAIN errorTotal = Routes
  BY DEF TypeOK
<1>2. SumOver(total) = SumFunctionOnSet(total, Routes)
  BY <1>1, SumOverRoutes
<1>3. SumOver(errorTotal) = SumFunctionOnSet(errorTotal, Routes)
  BY <1>1, SumOverRoutes
<1> QED BY <1>2, <1>3 DEF CountersAgree, CountsAgree, Busy

\* One more of a route.
LEMMA CountedOnce ==
  ASSUME NEW f \in [Routes -> Nat], NEW r \in Routes
  PROVE  /\ [f EXCEPT ![r] = @ + 1] \in [Routes -> Nat]
         /\ SumFunctionOnSet([f EXCEPT ![r] = @ + 1], Routes) = SumFunctionOnSet(f, Routes) + 1
<1> DEFINE g == [f EXCEPT ![r] = @ + 1]
<1>1. /\ g \in [Routes -> Nat] /\ g[r] = f[r] + 1 /\ f[r] \in Nat
      /\ \A y \in Routes \ {r} : g[y] = f[y]
  OBVIOUS
<1>2. IsFiniteSet(Routes) /\ \A y \in Routes : f[y] \in Int /\ g[y] \in Int
  BY <1>1, MonitoringAssumption
<1> HIDE DEF g
<1>3. SumFunctionOnSet(g, Routes) = SumFunctionOnSet(f, Routes) - f[r] + g[r]
  BY <1>1, <1>2, SumChanges
<1>4. SumFunctionOnSet(f, Routes) \in Int
  BY <1>2, SumTakesAny
<1> QED BY <1>1, <1>3, <1>4 DEF g

LEMMA BufferedTyped ==
  ASSUME NEW latencies \in Seq(Latency), Len(latencies) <= BufferSize, NEW latency \in Latency
  PROVE  /\ Buffered(latencies, latency) \in Seq(Latency)
         /\ Len(Buffered(latencies, latency)) <= BufferSize
<1>1. BufferSize \in Nat \ {0} /\ Len(latencies) \in Nat
  BY MonitoringAssumption
<1>2. CASE Len(latencies) = BufferSize
  <2>1. latencies # <<>>
    BY <1>1, <1>2
  <2>2. Tail(latencies) \in Seq(Latency) /\ Len(Tail(latencies)) = Len(latencies) - 1
    BY <2>1
  <2>3. /\ Append(Tail(latencies), latency) \in Seq(Latency)
        /\ Len(Append(Tail(latencies), latency)) = Len(Tail(latencies)) + 1
    BY <2>2, AppendProperties
  <2> QED BY <1>1, <1>2, <2>2, <2>3 DEF Buffered
<1>3. CASE Len(latencies) # BufferSize
  <2>1. /\ Append(latencies, latency) \in Seq(Latency)
        /\ Len(Append(latencies, latency)) = Len(latencies) + 1
    BY AppendProperties
  <2> QED BY <1>1, <1>3, <2>1 DEF Buffered
<1> QED BY <1>2, <1>3

\* What every action of the interceptor leaves of the types.
Metered ==
  /\ requests \in [Handlers -> Routes \union {NoRoute}]
  /\ inFlight \in [Routes -> {0, 1}]
  /\ total \in [Routes -> Nat]
  /\ errorTotal \in [Routes -> Nat]
  /\ performance \in Performance
  /\ Len(performance.latencies) <= BufferSize
  /\ shared \subseteq Routes

metered == <<requests, inFlight, total, errorTotal, performance, shared>>

LEMMA ArriveCounted ==
  ASSUME Metered, CountsAgree, NEW h \in Handlers, NEW r \in Routes, Arrive(h, r)
  PROVE  Metered' /\ CountsAgree'
<1>1. /\ requests[h] = NoRoute /\ requests' = [requests EXCEPT ![h] = r]
      /\ inFlight' = [inFlight EXCEPT ![r] = 1]
      /\ performance' = [performance EXCEPT !.active = @ + 1]
      /\ UNCHANGED <<total, errorTotal>>
      /\ shared' = IF InProgress(r) # {} THEN shared \union {r} ELSE shared
  BY DEF Arrive
<1>2. r # NoRoute
  BY MonitoringAssumption
<1>3. /\ performance'.active = performance.active + 1 /\ performance'.total = performance.total
      /\ performance'.errors = performance.errors
      /\ performance'.latencies = performance.latencies /\ performance' \in Performance
  <2>1. /\ performance \in Performance
        /\ performance' = [performance EXCEPT !.active = performance.active + 1]
    BY <1>1 DEF Metered
  <2> QED BY <2>1 DEF Performance
<1>4. Metered'
  BY <1>1, <1>3 DEF Metered
<1>5. Busy' = Busy \union {h} /\ h \notin Busy
  BY <1>1, <1>2 DEF Busy, Metered
<1>6. IsFiniteSet(Busy') /\ Cardinality(Busy') = Cardinality(Busy) + 1
  <2>1. IsFiniteSet(Busy)
    BY DEF CountsAgree
  <2> HIDE DEF Busy
  <2> QED BY <1>5, <2>1, FS_AddElement
<1>7. ASSUME NEW q \in Routes \ shared' PROVE inFlight'[q] = Cardinality(InProgress(q)')
  <2>1. CASE q # r
    <3>1. InProgress(q)' = InProgress(q)
      BY <1>1, <1>2, <2>1, MonitoringAssumption DEF InProgress, Metered
    <3>2. inFlight'[q] = inFlight[q] /\ q \notin shared
      BY <1>1, <2>1 DEF Metered
    <3> QED BY <3>1, <3>2 DEF CountsAgree
  <2>2. CASE q = r
    <3>1. InProgress(r) = {}
      BY <1>1, <2>2
    <3>2. InProgress(q)' = {h}
      BY <1>1, <2>2, <3>1 DEF InProgress, Metered
    <3>3. Cardinality({h}) = 1
      BY FS_Singleton
    <3> QED BY <1>1, <2>2, <3>2, <3>3 DEF Metered
  <2> QED BY <2>1, <2>2
<1> QED BY <1>1, <1>3, <1>4, <1>6, <1>7 DEF CountsAgree

LEMMA FinishCounted ==
  ASSUME Metered, CountsAgree, NEW h \in Handlers, Finish(h),
         NEW status \in Status, NEW latency \in Latency,
         performance' = Recorded(performance, status, latency),
         IF status = "error" THEN CountError(h) ELSE UNCHANGED errorTotal
  PROVE  Metered' /\ CountsAgree'
<1> DEFINE r == requests[h]
<1>1. /\ r # NoRoute /\ r \in Routes /\ requests' = [requests EXCEPT ![h] = NoRoute]
      /\ inFlight' = [inFlight EXCEPT ![r] = 0]
      /\ total' = [total EXCEPT ![r] = @ + 1]
      /\ shared' = IF InProgress(r) = {h} THEN shared \ {r} ELSE shared
  BY DEF Finish, Metered
<1>2. h \in Busy /\ Busy' = Busy \ {h}
  BY <1>1 DEF Busy, Metered
<1>3. /\ IsFiniteSet(Busy) /\ IsFiniteSet(Busy') /\ Cardinality(Busy') = Cardinality(Busy) - 1
      /\ Cardinality(Busy) \in Nat /\ Cardinality(Busy) > 0
  <2>1. IsFiniteSet(Busy)
    BY DEF CountsAgree
  <2> HIDE DEF Busy
  <2>2. IsFiniteSet(Busy') /\ Cardinality(Busy') = Cardinality(Busy) - 1
    BY <1>2, <2>1, FS_RemoveElement
  <2>3. Cardinality(Busy) \in Nat /\ Cardinality(Busy') \in Nat
    BY <2>1, <2>2, FS_CardinalityType
  <2> QED BY <2>1, <2>2, <2>3
<1>4. /\ performance'.active = performance.active - 1
      /\ performance'.total = performance.total + 1
      /\ performance'.errors =
           IF status = "error" THEN performance.errors + 1 ELSE performance.errors
      /\ performance' \in Performance /\ Len(performance'.latencies) <= BufferSize
  <2>1. performance.active > 0
    BY <1>3 DEF CountsAgree
  <2>2. /\ Buffered(performance.latencies, latency) \in Seq(Latency)
        /\ Len(Buffered(performance.latencies, latency)) <= BufferSize
    BY BufferedTyped DEF Metered, Performance
  <2> QED BY <2>1, <2>2 DEF Recorded, Metered, Performance
<1>5. /\ total' \in [Routes -> Nat]
      /\ SumFunctionOnSet(total', Routes) = SumFunctionOnSet(total, Routes) + 1
  BY <1>1, CountedOnce DEF Metered
<1>6. /\ errorTotal' \in [Routes -> Nat]
      /\ SumFunctionOnSet(errorTotal', Routes) =
           IF status = "error" THEN SumFunctionOnSet(errorTotal, Routes) + 1
                               ELSE SumFunctionOnSet(errorTotal, Routes)
  <2>1. CASE status = "error"
    <3>1. errorTotal' = [errorTotal EXCEPT ![r] = @ + 1]
      BY <2>1 DEF CountError
    <3>2. errorTotal \in [Routes -> Nat]
      BY DEF Metered
    <3> HIDE DEF r
    <3> QED BY <1>1, <2>1, <3>1, <3>2, CountedOnce
  <2>2. CASE status # "error"
    BY <2>2 DEF Metered
  <2> QED BY <2>1, <2>2
<1>7. Metered'
  BY <1>1, <1>4, <1>5, <1>6 DEF Metered
<1>8. ASSUME NEW q \in Routes \ shared' PROVE inFlight'[q] = Cardinality(InProgress(q)')
  <2>1. CASE q # r
    <3>1. InProgress(q)' = InProgress(q)
      BY <1>1, <2>1, MonitoringAssumption DEF InProgress, Metered
    <3>2. inFlight'[q] = inFlight[q] /\ q \notin shared
      BY <1>1, <2>1 DEF Metered
    <3> QED BY <3>1, <3>2 DEF CountsAgree
  <2>2. CASE q = r
    <3>1. InProgress(q)' = InProgress(r) \ {h} /\ h \in InProgress(r)
      BY <1>1, <2>2 DEF InProgress, Metered
    <3>2. CASE InProgress(r) = {h}
      <4>1. InProgress(q)' = {}
        BY <3>1, <3>2
      <4>2. Cardinality({}) = 0
        BY FS_EmptySet
      <4> QED BY <1>1, <2>2, <4>1, <4>2 DEF Metered
    <3>3. CASE InProgress(r) # {h}
      <4>1. r \notin shared /\ inFlight[r] = Cardinality(InProgress(r)) /\ inFlight[r] \in {0, 1}
        BY <1>1, <2>2, <3>3 DEF CountsAgree, Metered
      <4>2. IsFiniteSet(InProgress(r))
        <5>1. InProgress(r) \subseteq Busy
          BY <1>1 DEF InProgress, Busy
        <5> QED BY <1>3, <5>1, FS_Subset
      <4>3. /\ IsFiniteSet(InProgress(r) \ {h})
            /\ Cardinality(InProgress(r) \ {h}) = Cardinality(InProgress(r)) - 1
        BY <3>1, <4>2, FS_RemoveElement
      <4>4. Cardinality(InProgress(r) \ {h}) \in Nat
        BY <4>3, FS_CardinalityType
      <4>5. Cardinality(InProgress(r) \ {h}) = 0
        BY <4>1, <4>3, <4>4
      <4> QED BY <1>1, <2>2, <3>1, <4>5 DEF Metered
    <3> QED BY <3>2, <3>3
  <2> QED BY <2>1, <2>2
<1> QED BY <1>3, <1>4, <1>5, <1>6, <1>7, <1>8 DEF CountsAgree

-----------------------------------------------------------------------------
(* Monitoring: the evaluations and the alerts.                              *)

Evaluated ==
  /\ database \in {"up", "down"}
  /\ evaluations \in [Evaluations -> Evaluation \union {Idle}]
  /\ state \in [Rules -> {"ok", "firing"}]
  /\ alerts \in Seq(Alert) /\ Len(alerts) <= MaxHistory + tests
  /\ tests \in 0..MaxTests

evaluated == <<database, evaluations, state, alerts, tests>>

LEMMA TypesParted == TypeOK <=> Metered /\ Evaluated
BY DEF TypeOK, Metered, Evaluated

\* The histories that n test alerts allow.
Histories(n) == {history \in Seq(Alert) : Len(history) <= MaxHistory + n}

LEMMA FiredTyped ==
  ASSUME NEW n \in Nat, NEW history \in Histories(n), NEW rule \in Rules
  PROVE  Fired(history, rule) \in Histories(n)
<1> DEFINE alert == [rule |-> rule, resolved |-> FALSE]
           fired == <<alert>> \o history
<1>1. /\ history \in Seq(Alert) /\ Len(history) \in Nat /\ MaxHistory \in Nat
      /\ Len(history) <= MaxHistory + n
  BY MonitoringAssumption DEF Histories
<1>2. alert \in Alert
  BY DEF Alert
<1>3. <<alert>> \in Seq(Alert) /\ Len(<<alert>>) = 1
  BY <1>2
<1> HIDE DEF alert
<1>4. fired \in Seq(Alert) /\ Len(fired) = Len(history) + 1
  BY <1>1, <1>3, ConcatProperties
<1>5. Fired(history, rule) = IF Len(fired) > MaxHistory THEN Front(fired) ELSE fired
  BY DEF Fired, alert
<1> HIDE DEF fired
<1>6. Front(fired) \in Seq(Alert) /\ Len(Front(fired)) = Len(history)
  BY <1>1, <1>4 DEF Front
<1> QED BY <1>1, <1>4, <1>5, <1>6 DEF Histories

LEMMA ResolvedTyped ==
  ASSUME NEW n \in Nat, NEW history \in Histories(n), NEW rule
  PROVE  Resolved(history, rule) \in Histories(n)
<1> DEFINE res == Resolved(history, rule)
<1>1. history \in Seq(Alert) /\ Len(history) \in Nat /\ DOMAIN history = 1..Len(history)
      /\ Len(history) <= MaxHistory + n
  BY DEF Histories
<1>2. DOMAIN res = 1..Len(history)
  BY <1>1 DEF Resolved
<1>3. ASSUME NEW i \in 1..Len(history) PROVE res[i] \in Alert
  <2> DEFINE open == {k \in DOMAIN history : history[k].rule = rule /\ ~history[k].resolved}
             b == history[i].resolved \/ (i \in open /\ \A j \in open : i <= j)
  <2>1. history[i] \in Alert
    BY <1>1
  <2>2. res[i] = [history[i] EXCEPT !.resolved = b]
    BY <1>1 DEF Resolved
  <2>3. b \in BOOLEAN
    BY Zenon
  <2> HIDE DEF b, res
  <2> QED BY <2>1, <2>2, <2>3 DEF Alert
<1>4. res = [i \in 1..Len(history) |-> res[i]]
  BY <1>1 DEF Resolved
<1> HIDE DEF res
<1>5. res \in [1..Len(history) -> Alert]
  BY <1>3, <1>4
<1>6. res \in Seq(Alert) /\ Len(res) = Len(history)
  BY <1>1, <1>5
<1> QED BY <1>1, <1>6 DEF Histories, res

\* What one rule makes of the history, and all of them in their order.
Applied(fires, resolves, history, r) ==
  IF r \in fires THEN Fired(history, r)
  ELSE IF r \in resolves THEN Resolved(history, r)
  ELSE history

AllApplied(fires, resolves, history) ==
  FoldLeft(LAMBDA past, r : Applied(fires, resolves, past, r), history, RuleOrder)

\* g[k] is the history after the first k rules.
RulesInOrder(g, fires, resolves) ==
  \A k \in 1..Len(RuleOrder) : g[k] = Applied(fires, resolves, g[k - 1], RuleOrder[k])

LEMMA RulesOneByOne ==
  ASSUME NEW n \in Nat, NEW history \in Histories(n), NEW fires, NEW resolves
  PROVE  \E g \in [0..Len(RuleOrder) -> Histories(n)] :
           /\ g[0] = history /\ RulesInOrder(g, fires, resolves)
           /\ AllApplied(fires, resolves, history) = g[Len(RuleOrder)]
<1> DEFINE S == DOMAIN RuleOrder
           I == Histories(n)
           Apply(past, r) == Applied(fires, resolves, past, r)
           Folds(g) == g = [s \in SUBSET S |-> IF s = {} THEN history
                              ELSE Apply(g[s \ {Max(s)}], RuleOrder[Max(s)])]
           step == [p \in I \X S |-> Apply(p[1], RuleOrder[p[2]])]
           fold == CHOOSE g : Folds(g)
<1>1. IsFiniteSet(S) /\ S \subseteq Int /\ \A i \in S : RuleOrder[i] \in Rules
  <2>1. S = 1..Len(RuleOrder) /\ Len(RuleOrder) \in Nat
    BY MonitoringAssumption
  <2> QED BY <2>1, FS_Interval DEF Rules, Range
<1>2. AllApplied(fires, resolves, history) = fold[S]
  BY DEF AllApplied, FoldLeft, MapThenFoldSet
<1>3. \A past \in I, r \in Rules : Apply(past, r) \in I
  BY FiredTyped, ResolvedTyped DEF Applied
<1> HIDE DEF Apply
<1>4. step \in [I \X S -> I]
  <2> HIDE DEF I, S
  <2> QED BY <1>1, <1>3
<1>5. \A s \in SUBSET S : s # {} => Max(s) \in S
  <2> SUFFICES ASSUME NEW s \in SUBSET S, s # {} PROVE Max(s) \in S
    OBVIOUS
  <2>1. IsFiniteSet(s) /\ s \subseteq Int
    BY <1>1, FS_Subset
  <2> QED BY <2>1, MaxOfSome
<1>6. \E g : Folds(g)
  <2> HIDE DEF I, S, step
  <2>1. history \in I
    BY DEF I
  <2>2. PICK g \in [SUBSET S -> I] : Folding(g, S, history, step)
    <3> HIDE DEF Folds, fold
    <3>1. IsFiniteSet(S) /\ S \subseteq Int
      BY <1>1
    <3> QED BY <1>4, <2>1, <3>1, FoldExists
  <2>3. /\ g \in [SUBSET S -> I] /\ g[{}] = history
        /\ \A s \in SUBSET S : s # {} => g[s] = step[<<g[s \ {Max(s)}], Max(s)>>]
    BY <2>2 DEF Folding
  <2>4. ASSUME NEW s \in SUBSET S, s # {}
        PROVE  step[<<g[s \ {Max(s)}], Max(s)>>] = Apply(g[s \ {Max(s)}], RuleOrder[Max(s)])
    <3>1. g[s \ {Max(s)}] \in I /\ Max(s) \in S
      BY <1>5, <2>3, <2>4
    <3> HIDE <2>3
    <3> QED BY <3>1 DEF step
  <2>5. Folds(g)
    BY <2>3, <2>4
  <2> QED BY <2>5
<1>7. Folds(fold)
  <2> HIDE DEF Folds
  <2> QED BY <1>6
<1> DEFINE m == Len(RuleOrder)
           g == [k \in 0..m |-> fold[1..k]]
<1>8. m \in Nat /\ S = 1..m
  BY MonitoringAssumption
<1>9. fold[{}] = history /\ \A s \in SUBSET S : s # {} =>
        fold[s] = Apply(fold[s \ {Max(s)}], RuleOrder[Max(s)])
  <2> HIDE DEF fold
  <2> QED BY <1>7
<1> HIDE DEF fold, I, S, m
<1>10. ASSUME NEW k \in 1..m
       PROVE  fold[1..k] = Apply(fold[1..(k - 1)], RuleOrder[k])
  <2>1. 1..k \in SUBSET S /\ 1..k # {} /\ (1..k) \ {k} = 1..(k - 1)
    <3>1. k \in Nat /\ 1 <= k /\ k <= m
      BY <1>8
    <3>2. 1..k \subseteq 1..m /\ k \in 1..k
      BY <1>8, <3>1
    <3>3. \A x : x \in (1..k) \ {k} <=> x \in 1..(k - 1)
      BY <3>1
    <3> QED BY <1>8, <3>2, <3>3
  <2>2. Max(1..k) = k
    <3>1. IsFiniteSet(1..k) /\ 1..k \subseteq Int
      BY <1>8, FS_Interval
    <3>2. Max(1..k) \in 1..k /\ \A x \in 1..k : Max(1..k) >= x
      BY <2>1, <3>1, MaxOfSome
    <3> QED BY <1>8, <3>2
  <2> QED BY <1>9, <2>1, <2>2
<1>11. g[0] = history
  <2>1. 1..0 = {} /\ 0 \in 0..m
    BY <1>8
  <2> QED BY <1>9, <2>1
<1>12. \A k \in 1..m : g[k] = Apply(g[k - 1], RuleOrder[k])
  BY <1>8, <1>10
<1>13. \A k \in 0..m : g[k] \in I
  <2> DEFINE B == {k \in Nat : k \in 0..m => g[k] \in I}
  <2>1. 0 \in B
    BY <1>11 DEF I
  <2>2. ASSUME NEW k \in Nat, k \in B PROVE k + 1 \in B
    <3> SUFFICES ASSUME k + 1 \in 0..m PROVE g[k + 1] \in I
      OBVIOUS
    <3>1. k \in 0..m /\ k + 1 \in 1..m /\ (k + 1) - 1 = k
      BY <1>8
    <3>2. RuleOrder[k + 1] \in Rules
      BY <1>1, <1>8, <3>1
    <3> HIDE DEF g
    <3> QED BY <1>3, <1>12, <2>2, <3>1, <3>2
  <2> HIDE DEF B
  <2>3. Nat \subseteq B
    BY <2>1, <2>2, SetOfNaturals
  <2>4. \A k \in Nat : k \in 0..m => g[k] \in I
    BY <2>3 DEF B
  <2> HIDE DEF g
  <2> QED BY <1>8, <2>4
<1>14. g[m] = fold[S]
  BY <1>8
<1>15. g \in [0..m -> I]
  <2>1. g = [k \in 0..m |-> g[k]]
    OBVIOUS
  <2> HIDE DEF g
  <2> QED BY <1>13, <2>1
<1> HIDE DEF g
<1>16. RulesInOrder(g, fires, resolves)
  BY <1>12 DEF RulesInOrder, Apply, m
<1> QED BY <1>2, <1>11, <1>14, <1>15, <1>16 DEF I, m

LEMMA RulesKeepHistories ==
  ASSUME NEW n \in Nat, NEW history \in Histories(n), NEW fires, NEW resolves
  PROVE  AllApplied(fires, resolves, history) \in Histories(n)
<1>1. PICK g \in [0..Len(RuleOrder) -> Histories(n)] :
        AllApplied(fires, resolves, history) = g[Len(RuleOrder)]
  BY RulesOneByOne
<1>2. Len(RuleOrder) \in 0..Len(RuleOrder)
  BY MonitoringAssumption
<1> QED BY <1>1, <1>2

LEMMA EvaluationsTyped ==
  ASSUME Evaluated,
         NEW e \in Evaluations,
         EvaluateRules(e) \/ CheckDatabase(e) \/ \E heapHigh \in BOOLEAN : ApplyRules(e, heapHigh)
  PROVE  Evaluated'
<1>1. CASE EvaluateRules(e)
  <2>1. [pc |-> "query", summary |-> Summarized(performance), database |-> "up"] \in Evaluation
    BY DEF Evaluation, Summary, Summarized
  <2> QED BY <1>1, <2>1 DEF EvaluateRules, Evaluated
<1>2. CASE CheckDatabase(e)
  <2> DEFINE new == [evaluations[e] EXCEPT !.pc = "answer", !.database = database]
  <2>1. evaluations[e] \in Evaluation
    BY <1>2 DEF CheckDatabase, Evaluated, Idle
  <2>2. new \in Evaluation
    BY <2>1 DEF Evaluation, Evaluated
  <2>3. evaluations' = [evaluations EXCEPT ![e] = new]
    BY <1>2 DEF CheckDatabase
  <2> HIDE DEF new
  <2> QED BY <1>2, <2>2, <2>3 DEF CheckDatabase, Evaluated
<1>3. ASSUME NEW heapHigh \in BOOLEAN, ApplyRules(e, heapHigh) PROVE Evaluated'
  <2> DEFINE fires == Exceeding(evaluations[e], heapHigh)
             resolves == {r \in evaluations[e].summary.recovered \ fires : state[r] = "firing"}
  <2>1. alerts' = AllApplied(fires, resolves, alerts)
    BY <1>3 DEF ApplyRules, Applied, AllApplied
  <2>2. alerts \in Histories(tests) /\ tests \in Nat
    BY DEF Evaluated, Histories
  <2>3. alerts' \in Histories(tests)
    <3> HIDE DEF fires, resolves
    <3> QED BY <2>1, <2>2, RulesKeepHistories
  <2>4. /\ state' = [r \in Rules |-> IF r \in fires THEN "firing"
                                     ELSE IF r \in resolves THEN "ok" ELSE state[r]]
        /\ evaluations' = [evaluations EXCEPT ![e] = Idle]
        /\ UNCHANGED <<database, tests>>
    BY <1>3 DEF ApplyRules
  <2> HIDE DEF fires, resolves
  <2>5. state' \in [Rules -> {"ok", "firing"}]
    BY <2>4 DEF Evaluated
  <2> QED BY <2>3, <2>4, <2>5 DEF Evaluated, Histories
<1> QED BY <1>1, <1>2, <1>3

LEMMA TestAlertTyped ==
  ASSUME Evaluated, TriggerTestAlert
  PROVE  Evaluated'
<1> DEFINE alert == [rule |-> TestRule, resolved |-> FALSE]
<1>1. alerts' = <<alert>> \o alerts /\ tests' = tests + 1 /\ tests < MaxTests
      /\ UNCHANGED <<database, evaluations, state>>
  BY DEF TriggerTestAlert
<1>2. <<alert>> \in Seq(Alert) /\ Len(<<alert>>) = 1
  BY DEF Alert
<1>3. alerts \in Seq(Alert) /\ Len(alerts) \in Nat /\ Len(alerts) <= MaxHistory + tests
  BY DEF Evaluated
<1> HIDE DEF alert
<1>4. alerts' \in Seq(Alert) /\ Len(alerts') = Len(alerts) + 1
  BY <1>1, <1>2, <1>3, ConcatProperties
<1>5. MaxHistory \in Nat /\ MaxTests \in Nat
  BY MonitoringAssumption
<1> QED BY <1>1, <1>3, <1>4, <1>5 DEF Evaluated

\* The invariant holds at first, and its halves change separately.
LEMMA MonitoringStarts == Init => Metered /\ Evaluated /\ CountsAgree
<1> SUFFICES ASSUME Init PROVE Metered /\ Evaluated /\ CountsAgree
  OBVIOUS
<1>1. IsFiniteSet(Routes) /\ BufferSize \in Nat \ {0} /\ MaxHistory \in Nat /\ MaxTests \in Nat
  BY MonitoringAssumption
<1>2. Metered
  BY <1>1 DEF Init, Metered, Performance
<1>3. Evaluated
  BY <1>1 DEF Init, Evaluated
<1>4. Busy = {} /\ \A r \in Routes : InProgress(r) = {}
  BY MonitoringAssumption DEF Init, Busy, InProgress
<1>5. IsFiniteSet({}) /\ Cardinality({}) = 0
  BY FS_EmptySet
<1>6. /\ SumFunctionOnSet(total, Routes) = 0 /\ SumFunctionOnSet(errorTotal, Routes) = 0
  <2>1. \A r \in Routes : total[r] = 0 /\ errorTotal[r] = 0
    BY DEF Init
  <2> QED BY <1>1, <2>1, SumOfZeros
<1>7. /\ performance.active = 0 /\ performance.total = 0 /\ performance.errors = 0
      /\ \A r \in Routes : inFlight[r] = 0
  BY DEF Init
<1>8. CountsAgree
  BY <1>4, <1>5, <1>6, <1>7 DEF CountsAgree
<1> QED BY <1>2, <1>3, <1>8

LEMMA OneHalfOnly ==
  ASSUME Metered, CountsAgree, UNCHANGED metered
  PROVE  Metered' /\ CountsAgree'
BY DEF Metered, CountsAgree, metered, Busy, InProgress

LEMMA OtherHalfOnly == Evaluated /\ UNCHANGED evaluated => Evaluated'
BY DEF Evaluated, evaluated

\* MetricsInterceptor: requests in progress are counted as active, those that have
\* ended are counted once by metrics and summary alike, and the gauge of a route
\* is right unless its requests overlapped.
THEOREM CountersCorrect == Spec => []CountersAgree
<1> DEFINE Inv == Metered /\ Evaluated /\ CountsAgree
<1>1. Init => Inv
  BY MonitoringStarts
<1>2. Inv /\ [Next]_vars => Inv'
  <2> SUFFICES ASSUME Inv, [Next]_vars PROVE Inv'
    OBVIOUS
  <2>1. ASSUME NEW h \in Handlers, NEW r \in Routes, Arrive(h, r) PROVE Inv'
    <3>1. UNCHANGED evaluated
      BY <2>1 DEF Arrive, evaluated
    <3> QED BY <2>1, <3>1, ArriveCounted, OtherHalfOnly
  <2>2. ASSUME NEW h \in Handlers, NEW latency \in Latency, NEW status \in Status,
               Respond(h, status, latency)
        PROVE  Inv'
    <3>1. /\ Finish(h) /\ performance' = Recorded(performance, status, latency)
          /\ IF status = "error" THEN CountError(h) ELSE UNCHANGED errorTotal
      BY <2>2 DEF Respond
    <3>2. UNCHANGED evaluated
      BY <3>1 DEF Finish, evaluated
    <3> QED BY <3>1, <3>2, FinishCounted, OtherHalfOnly
  <2>3. ASSUME NEW h \in Handlers, NEW latency \in Latency, CatchError(h, latency) PROVE Inv'
    <3> DEFINE status == "error"
    <3>1. /\ Finish(h) /\ performance' = Recorded(performance, status, latency)
          /\ IF status = "error" THEN CountError(h) ELSE UNCHANGED errorTotal
      BY <2>3 DEF CatchError
    <3>2. UNCHANGED evaluated
      BY <3>1 DEF Finish, evaluated
    <3>3. status \in Status
      BY DEF Status
    <3> HIDE DEF status
    <3> QED BY <3>1, <3>2, <3>3, FinishCounted, OtherHalfOnly
  <2>4. ASSUME NEW e \in Evaluations,
               \/ EvaluateRules(e) \/ CheckDatabase(e)
               \/ \E heapHigh \in BOOLEAN : ApplyRules(e, heapHigh)
        PROVE  Inv'
    <3>1. UNCHANGED metered
      BY <2>4 DEF EvaluateRules, CheckDatabase, ApplyRules, metered
    <3> QED BY <2>4, <3>1, EvaluationsTyped, OneHalfOnly
  <2>5. CASE TriggerTestAlert
    <3>1. UNCHANGED metered
      BY <2>5 DEF TriggerTestAlert, metered
    <3> QED BY <2>5, <3>1, TestAlertTyped, OneHalfOnly
  <2>6. CASE DatabaseChanges
    <3>1. UNCHANGED metered /\ Evaluated'
      BY <2>6 DEF DatabaseChanges, metered, Evaluated
    <3> QED BY <3>1, OneHalfOnly
  <2>7. CASE UNCHANGED vars
    <3>1. UNCHANGED metered /\ UNCHANGED evaluated
      BY <2>7 DEF vars, metered, evaluated
    <3> QED BY <3>1, OneHalfOnly, OtherHalfOnly
  <2> QED BY <2>1, <2>2, <2>3, <2>4, <2>5, <2>6, <2>7 DEF Next
<1>3. Inv => CountersAgree
  BY TypesParted, CountersStated
<1> QED BY <1>1, <1>2, <1>3, PTL DEF Spec

-----------------------------------------------------------------------------
(* Monitoring: the newest alert of a rule.                                  *)

ErrorRule == "high-error-rate"

\* The newest alert of r is open, and comes at place p of the history.
Shows(history, r, p) ==
  /\ p \in DOMAIN history /\ history[p].rule = r /\ ~history[p].resolved
  /\ \A j \in 1..(p - 1) : history[j].rule # r

Clear(history, r) == \A p \in DOMAIN history : ~Shows(history, r, p)

\* What an evaluation found of a rule.
Found(e, r) == r \in evaluations[e].summary.exceeded \union evaluations[e].summary.recovered

\* The evaluations in progress that neither fire nor resolve the rule of the error rate.
Undecided == {e \in Evaluations : evaluations[e] # Idle /\ ~Found(e, ErrorRule)}

\* They and the test alerts to come do not push an alert at place p out of the history.
Safe(p) ==
  p + Cardinality(Undecided) * (Len(RuleOrder) - 1) + (MaxTests - tests) <= MaxHistory

\* Every evaluation decides all rules but that of the error rate, which once it was
\* decided is decided by every later one, as requests are counted up.
Decided ==
  \A e \in Evaluations : evaluations[e] # Idle =>
    /\ \A r \in Rules \ {ErrorRule} : Found(e, r)
    /\ ErrorRule \in evaluations[e].summary.exceeded => performance.total >= MinRequests

NewestShown ==
  \A r \in Rules :
    IF state[r] = "firing" THEN \E p \in DOMAIN alerts : Shows(alerts, r, p)
                           ELSE Clear(alerts, r)

ErrorAlertSafe ==
  ErrorRule \in Rules /\ state[ErrorRule] = "firing" =>
    /\ performance.total >= MinRequests
    /\ \E p \in DOMAIN alerts : Shows(alerts, ErrorRule, p) /\ Safe(p)

\* f is h with a before it, perhaps without the last.
Pushes(f, h, a) ==
  /\ Len(f) \in Nat /\ DOMAIN f = 1..Len(f) /\ Len(h) \in Nat /\ DOMAIN h = 1..Len(h)
  /\ Len(h) <= Len(f) /\ Len(f) <= Len(h) + 1
  /\ Len(h) + 1 <= MaxHistory => Len(f) = Len(h) + 1
  /\ 1 \in DOMAIN f => f[1] = a
  /\ \A j \in 1..Len(h) : j + 1 <= Len(f) => f[j + 1] = h[j]

LEMMA FiredPushes ==
  ASSUME NEW n \in Nat, NEW history \in Histories(n), NEW rule \in Rules
  PROVE  Pushes(Fired(history, rule), history, [rule |-> rule, resolved |-> FALSE])
<1> DEFINE alert == [rule |-> rule, resolved |-> FALSE]
           fired == <<alert>> \o history
           m == Len(history)
<1>1. history \in Seq(Alert) /\ m \in Nat /\ MaxHistory \in Nat /\ DOMAIN history = 1..m
  BY MonitoringAssumption DEF Histories
<1>2. <<alert>> \in Seq(Alert) /\ Len(<<alert>>) = 1 /\ <<alert>>[1] = alert
  BY DEF Alert
<1>3. Fired(history, rule) = IF Len(fired) > MaxHistory THEN Front(fired) ELSE fired
  BY DEF Fired
<1> HIDE DEF alert, m
<1>4. /\ fired \in Seq(Alert) /\ Len(fired) = 1 + m
      /\ \A i \in 1..(1 + m) : fired[i] = IF i <= 1 THEN <<alert>>[i] ELSE history[i - 1]
  BY <1>1, <1>2, ConcatProperties DEF m
<1> HIDE DEF fired
<1>5. /\ fired[1] = alert /\ \A j \in 1..m : fired[j + 1] = history[j]
      /\ DOMAIN fired = 1..(m + 1) /\ Len(fired) = m + 1
  BY <1>1, <1>2, <1>4
<1>6. CASE m + 1 > MaxHistory
  <2> DEFINE front == SubSeq(fired, 1, m)
  <2>1. Fired(history, rule) = front
    BY <1>1, <1>3, <1>5, <1>6 DEF Front
  <2>2. Len(front) = m /\ DOMAIN front = 1..m /\ \A i \in 1..m : front[i] = fired[i]
    BY <1>1, <1>4, <1>5
  <2> HIDE DEF front
  <2>3. /\ 1 \in DOMAIN front => front[1] = alert
        /\ \A j \in 1..m : j + 1 <= Len(front) => front[j + 1] = history[j]
    <3>1. ASSUME NEW j \in 1..m, j + 1 <= m PROVE front[j + 1] = history[j]
      <4>1. j + 1 \in 1..m
        BY <1>1, <3>1
      <4> QED BY <1>5, <2>2, <4>1
    <3>2. 1 \in 1..m => front[1] = alert
      BY <1>5, <2>2
    <3> QED BY <2>2, <3>1, <3>2
  <2>4. /\ Len(front) \in Nat /\ DOMAIN front = 1..Len(front) /\ m \in Nat
        /\ m <= Len(front) /\ Len(front) <= m + 1 /\ ~ m + 1 <= MaxHistory
    BY <1>1, <1>6, <2>2
  <2>5. Pushes(front, history, alert)
    BY <1>1, <2>3, <2>4 DEF Pushes, m
  <2> QED BY <2>1, <2>5 DEF alert
<1>7. CASE ~ m + 1 > MaxHistory
  <2>1. Fired(history, rule) = fired
    BY <1>3, <1>5, <1>7
  <2>2. Pushes(fired, history, alert)
    BY <1>1, <1>5, <1>7 DEF Pushes, m
  <2> QED BY <2>1, <2>2 DEF alert
<1> QED BY <1>6, <1>7

\* An alert of another rule leaves the newest alert as it is, one place further.
LEMMA PushedOn ==
  ASSUME NEW f, NEW h, NEW a, Pushes(f, h, a), NEW r, a.rule # r,
         NEW p \in Nat, Shows(h, r, p), p + 1 <= MaxHistory \/ p + 1 <= Len(f), MaxHistory \in Nat
  PROVE  Shows(f, r, p + 1)
<1>1. /\ p \in 1..Len(h) /\ Len(f) \in Nat /\ Len(h) \in Nat /\ DOMAIN f = 1..Len(f)
      /\ Len(h) <= Len(f) /\ Len(f) <= Len(h) + 1
      /\ Len(h) + 1 <= MaxHistory => Len(f) = Len(h) + 1
  BY DEF Pushes, Shows
<1>2. p + 1 \in 1..Len(f) /\ 1 \in 1..Len(f) /\ p + 1 <= Len(f)
  <2> HIDE DEF Shows
  <2> DEFINE x == Len(f)
             y == Len(h)
  <2>1. /\ p \in 1..y /\ x \in Nat /\ y \in Nat /\ y <= x /\ x <= y + 1
        /\ y + 1 <= MaxHistory => x = y + 1
        /\ p + 1 <= MaxHistory \/ p + 1 <= x
    BY <1>1
  <2> HIDE DEF x, y
  <2>2. p + 1 \in 1..x /\ 1 \in 1..x /\ p + 1 <= x
    BY <2>1
  <2> QED BY <2>2 DEF x
<1>3. f[p + 1] = h[p] /\ f[1] = a
  <2>1. 1 \in DOMAIN f /\ p + 1 <= Len(f)
    BY <1>1, <1>2
  <2>2. f[1] = a /\ \A j \in 1..Len(h) : j + 1 <= Len(f) => f[j + 1] = h[j]
    BY <2>1 DEF Pushes
  <2> QED BY <1>1, <2>1, <2>2
<1>4. ASSUME NEW j \in 1..((p + 1) - 1) PROVE f[j].rule # r
  <2>1. CASE j = 1
    BY <1>3, <2>1
  <2>2. CASE j # 1
    <3> DEFINE x == Len(f)
               y == Len(h)
    <3>0. p \in 1..y /\ p + 1 \in 1..x /\ x \in Nat /\ y \in Nat
      BY <1>1, <1>2
    <3> HIDE DEF x, y
    <3>1. j - 1 \in 1..y /\ j - 1 \in 1..(p - 1) /\ (j - 1) + 1 = j /\ j <= x
      BY <2>2, <3>0
    <3>2. f[j] = h[j - 1]
      BY <3>1 DEF Pushes, x, y
    <3> QED BY <3>1, <3>2 DEF Shows
  <2> QED BY <2>1, <2>2
<1> QED BY <1>1, <1>2, <1>3, <1>4 DEF Shows

LEMMA PushedClear ==
  ASSUME NEW f, NEW h, NEW a, Pushes(f, h, a), NEW r, a.rule # r, Clear(h, r)
  PROVE  Clear(f, r)
<1> SUFFICES ASSUME NEW p \in DOMAIN f, Shows(f, r, p) PROVE FALSE
  BY DEF Clear
<1>1. /\ p \in 1..Len(f) /\ DOMAIN f = 1..Len(f) /\ DOMAIN h = 1..Len(h)
      /\ Len(f) \in Nat /\ Len(h) \in Nat /\ Len(f) <= Len(h) + 1
  BY DEF Pushes
<1>2. p # 1
  BY <1>1 DEF Pushes, Shows
<1>3. p - 1 \in 1..Len(h) /\ (p - 1) + 1 = p /\ f[p] = h[p - 1]
  <2>1. p - 1 \in 1..Len(h) /\ (p - 1) + 1 = p /\ p <= Len(f)
    BY <1>1, <1>2
  <2> QED BY <2>1 DEF Pushes
<1>4. ASSUME NEW j \in 1..((p - 1) - 1) PROVE h[j].rule # r
  <2>1. j \in 1..Len(h) /\ j + 1 <= Len(f) /\ j + 1 \in 1..(p - 1)
    BY <1>1, <1>3
  <2>2. f[j + 1] = h[j]
    BY <2>1 DEF Pushes
  <2> QED BY <2>1, <2>2 DEF Shows
<1>5. Shows(h, r, p - 1)
  BY <1>1, <1>3, <1>4 DEF Shows
<1> QED BY <1>1, <1>3, <1>5 DEF Clear

LEMMA PushedOwn ==
  ASSUME NEW f, NEW h, NEW a, Pushes(f, h, a), ~a.resolved,
         MaxHistory \in Nat, MaxHistory >= 1
  PROVE  Shows(f, a.rule, 1)
<1> DEFINE x == Len(f)
           y == Len(h)
<1>1. /\ x \in Nat /\ y \in Nat /\ y <= x /\ DOMAIN f = 1..x
      /\ y + 1 <= MaxHistory => x = y + 1
  BY DEF Pushes
<1> HIDE DEF x, y
<1>2. 1 \in DOMAIN f
  BY <1>1
<1>3. f[1] = a
  BY <1>2 DEF Pushes
<1> QED BY <1>2, <1>3 DEF Shows

LEMMA ResolvedIs ==
  ASSUME NEW n \in Nat, NEW history \in Histories(n), NEW rule
  PROVE  /\ DOMAIN Resolved(history, rule) = DOMAIN history /\ DOMAIN history = 1..Len(history)
         /\ \A i \in DOMAIN history :
              /\ Resolved(history, rule)[i].rule = history[i].rule
              /\ ~Resolved(history, rule)[i].resolved => ~history[i].resolved
              /\ history[i].rule # rule =>
                   Resolved(history, rule)[i] = history[i]
              /\ Shows(history, rule, i) => Resolved(history, rule)[i].resolved
<1> DEFINE res == Resolved(history, rule)
           open == {k \in DOMAIN history : history[k].rule = rule /\ ~history[k].resolved}
<1>1. history \in Seq(Alert) /\ DOMAIN history = 1..Len(history) /\ Len(history) \in Nat
  BY DEF Histories
<1>2. DOMAIN res = DOMAIN history
  BY <1>1 DEF Resolved
<1>3. ASSUME NEW i \in DOMAIN history
      PROVE  /\ res[i].rule = history[i].rule
             /\ ~res[i].resolved => ~history[i].resolved
             /\ history[i].rule # rule => res[i] = history[i]
             /\ Shows(history, rule, i) => res[i].resolved
  <2> DEFINE b == history[i].resolved \/ (i \in open /\ \A j \in open : i <= j)
  <2>1. history[i] \in Alert
    BY <1>1
  <2>2. res[i] = [history[i] EXCEPT !.resolved = b]
    BY DEF Resolved
  <2>3. Shows(history, rule, i) => b
    <3> SUFFICES ASSUME Shows(history, rule, i) PROVE i \in open /\ \A j \in open : i <= j
      OBVIOUS
    <3>1. i \in open
      BY DEF Shows
    <3>2. ASSUME NEW j \in open PROVE i <= j
      BY <1>1 DEF Shows
    <3> QED BY <3>1, <3>2
  <2>4. history[i].rule # rule => (b <=> history[i].resolved)
    OBVIOUS
  <2>5. b \in BOOLEAN /\ (history[i].resolved => b)
    BY Zenon
  <2> HIDE DEF b, res
  <2>6. res[i].rule = history[i].rule /\ res[i].resolved = b
    BY <2>1, <2>2 DEF Alert
  <2>7. history[i].rule # rule => res[i] = history[i]
    BY <2>1, <2>2, <2>4, <2>5 DEF Alert
  <2> QED BY <2>3, <2>5, <2>6, <2>7
<1> QED BY <1>1, <1>2, <1>3

LEMMA ResolvedClear ==
  ASSUME NEW n \in Nat, NEW history \in Histories(n), NEW rule
  PROVE  Clear(Resolved(history, rule), rule)
<1> DEFINE res == Resolved(history, rule)
<1> SUFFICES ASSUME NEW p \in DOMAIN res, Shows(res, rule, p) PROVE FALSE
  BY DEF Clear
<1>1. p \in DOMAIN history /\ history[p].rule = rule /\ ~history[p].resolved
  BY ResolvedIs DEF Shows
<1>2. ASSUME NEW j \in 1..(p - 1) PROVE history[j].rule # rule
  <2>1. j \in DOMAIN history
    BY <1>1, ResolvedIs
  <2>2. res[j].rule # rule
    BY DEF Shows
  <2> QED BY <2>1, <2>2, ResolvedIs
<1>3. Shows(history, rule, p)
  BY <1>1, <1>2 DEF Shows
<1> QED BY <1>1, <1>3, ResolvedIs DEF Shows

LEMMA ResolvedOther ==
  ASSUME NEW n \in Nat, NEW history \in Histories(n), NEW rule, NEW r, r # rule
  PROVE  /\ \A p \in DOMAIN history : Shows(history, r, p) => Shows(Resolved(history, rule), r, p)
         /\ Clear(history, r) => Clear(Resolved(history, rule), r)
<1> DEFINE res == Resolved(history, rule)
<1>1. /\ DOMAIN res = DOMAIN history /\ DOMAIN history = 1..Len(history)
      /\ \A i \in DOMAIN history :
           res[i].rule = history[i].rule /\ (history[i].rule # rule => res[i] = history[i])
  BY ResolvedIs
<1> HIDE DEF res
<1>2. ASSUME NEW p \in DOMAIN history PROVE Shows(history, r, p) <=> Shows(res, r, p)
  <2>1. Len(history) \in Nat
    BY DEF Histories
  <2>2. 1..(p - 1) \subseteq DOMAIN history
    BY <1>1, <2>1
  <2>3. \A j \in 1..(p - 1) : res[j].rule = history[j].rule
    BY <1>1, <2>2
  <2>4. (history[p].rule = r /\ ~history[p].resolved) <=> (res[p].rule = r /\ ~res[p].resolved)
    BY <1>1
  <2> QED BY <1>1, <2>3, <2>4 DEF Shows
<1> QED BY <1>1, <1>2 DEF Clear, res

\* The newest alert of r is open, among the first m.
ShownBy(history, r, m) == \E p \in DOMAIN history : Shows(history, r, p) /\ p <= m

LEMMA HistoryIs ==
  ASSUME NEW n \in Nat, NEW history \in Histories(n)
  PROVE  DOMAIN history = 1..Len(history) /\ Len(history) \in Nat /\ DOMAIN history \subseteq Nat
BY DEF Histories

\* A rule that is applied decides its own alerts,
LEMMA AppliedOwn ==
  ASSUME NEW n \in Nat, NEW history \in Histories(n), NEW fires, NEW resolves,
         NEW r \in Rules, MaxHistory >= 1
  PROVE  /\ r \in fires => ShownBy(Applied(fires, resolves, history, r), r, 1)
         /\ r \notin fires /\ r \in resolves => Clear(Applied(fires, resolves, history, r), r)
<1> DEFINE a == [rule |-> r, resolved |-> FALSE]
<1>1. ASSUME r \in fires PROVE ShownBy(Applied(fires, resolves, history, r), r, 1)
  <2>1. Applied(fires, resolves, history, r) = Fired(history, r)
    BY <1>1 DEF Applied
  <2>2. Pushes(Fired(history, r), history, a)
    BY FiredPushes
  <2>3. MaxHistory \in Nat /\ a.rule = r /\ ~a.resolved
    BY MonitoringAssumption
  <2> HIDE DEF a
  <2>4. Shows(Fired(history, r), r, 1)
    BY <2>2, <2>3, PushedOwn
  <2> QED BY <2>1, <2>4 DEF ShownBy, Shows
<1>2. ASSUME r \notin fires, r \in resolves
      PROVE  Clear(Applied(fires, resolves, history, r), r)
  BY <1>2, ResolvedClear DEF Applied
<1> QED BY <1>1, <1>2

\* and pushes the newest alert of another by at most a place.
LEMMA AppliedOther ==
  ASSUME NEW n \in Nat, NEW history \in Histories(n), NEW fires, NEW resolves,
         NEW q \in Rules, NEW r, q # r, NEW m \in Nat
  PROVE  /\ Clear(history, r) => Clear(Applied(fires, resolves, history, q), r)
         /\ ShownBy(history, r, m) /\ m + 1 <= MaxHistory =>
              ShownBy(Applied(fires, resolves, history, q), r, m + 1)
<1> DEFINE a == [rule |-> q, resolved |-> FALSE]
<1>0. MaxHistory \in Nat /\ DOMAIN history \subseteq Nat
  BY MonitoringAssumption, HistoryIs
<1>1. CASE q \in fires
  <2>1. Applied(fires, resolves, history, q) = Fired(history, q)
    BY <1>1 DEF Applied
  <2> DEFINE f == Fired(history, q)
  <2>2. Pushes(f, history, a) /\ a.rule # r
    BY FiredPushes
  <2> HIDE DEF a, f
  <2>3. ASSUME NEW p \in DOMAIN history, Shows(history, r, p), p <= m, m + 1 <= MaxHistory
        PROVE  Shows(f, r, p + 1) /\ p + 1 <= m + 1
    <3>1. p \in Nat /\ p + 1 <= MaxHistory /\ p + 1 <= m + 1
      BY <1>0, <2>3
    <3> QED BY <1>0, <2>2, <2>3, <3>1, PushedOn
  <2>4. Clear(history, r) => Clear(f, r)
    BY <2>2, PushedClear
  <2>5. ShownBy(history, r, m) /\ m + 1 <= MaxHistory => ShownBy(f, r, m + 1)
    BY <2>3 DEF ShownBy, Shows
  <2> QED BY <2>1, <2>4, <2>5 DEF f
<1>2. CASE q \notin fires
  <2> DEFINE f == Applied(fires, resolves, history, q)
  <2>1. f = history \/ f = Resolved(history, q)
    BY <1>2 DEF Applied
  <2>2. /\ Clear(history, r) => Clear(f, r)
        /\ \A p \in DOMAIN history : Shows(history, r, p) => Shows(f, r, p)
    BY <2>1, ResolvedOther
  <2> HIDE DEF f
  <2>3. \A p \in DOMAIN history : p <= m => p <= m + 1
    BY <1>0
  <2>4. ShownBy(history, r, m) => ShownBy(f, r, m + 1)
    BY <2>2, <2>3 DEF ShownBy, Shows
  <2> QED BY <2>2, <2>4 DEF f
<1> QED BY <1>1, <1>2

\* Rules that are applied one after another keep what the history shows of another.
LEMMA RulesPush ==
  ASSUME NEW n \in Nat, NEW fires, NEW resolves,
         NEW g \in [0..Len(RuleOrder) -> Histories(n)], RulesInOrder(g, fires, resolves),
         NEW a \in 0..Len(RuleOrder), NEW b \in 0..Len(RuleOrder), a <= b, NEW r, NEW m \in Nat,
         \A k \in (a + 1)..b : RuleOrder[k] # r
  PROVE  /\ Clear(g[a], r) => Clear(g[b], r)
         /\ ShownBy(g[a], r, m) /\ m + (b - a) <= MaxHistory => ShownBy(g[b], r, m + (b - a))
<1> DEFINE size == Len(RuleOrder)
           Good(j) == /\ Clear(g[a], r) => Clear(g[a + j], r)
                      /\ ShownBy(g[a], r, m) /\ m + j <= MaxHistory => ShownBy(g[a + j], r, m + j)
           B == {j \in Nat : a + j <= b => Good(j)}
<1>1. size \in Nat /\ MaxHistory \in Nat /\ \A k \in 1..size : RuleOrder[k] \in Rules
  BY MonitoringAssumption DEF Rules, Range
<1> HIDE DEF size
<1>2. a \in Nat /\ b \in Nat /\ b <= size /\ g \in [0..size -> Histories(n)]
  BY <1>1 DEF size
<1>3. Good(0)
  <2>1. a + 0 = a /\ m + 0 = m
    BY <1>2
  <2> QED BY <2>1
<1>4. ASSUME NEW j \in Nat, Good(j), a + (j + 1) <= b PROVE Good(j + 1)
  <2> DEFINE k == a + (j + 1)
  <2>1. k \in 1..size /\ k - 1 = a + j /\ k \in (a + 1)..b /\ a + j \in 0..size
    BY <1>1, <1>2, <1>4
  <2> HIDE DEF Good
  <2>2. g[k] = Applied(fires, resolves, g[a + j], RuleOrder[k])
    <3> HIDE DEF k
    <3>1. k \in 1..Len(RuleOrder) /\ k - 1 = a + j
      BY <2>1 DEF size
    <3> QED BY <3>1 DEF RulesInOrder
  <2>3. g[a + j] \in Histories(n) /\ RuleOrder[k] \in Rules /\ RuleOrder[k] # r
    <3> HIDE DEF k
    <3> QED BY <1>1, <1>2, <2>1
  <2>4. m + j \in Nat /\ (m + j) + 1 = m + (j + 1)
    OBVIOUS
  <2> HIDE DEF k
  <2>5. /\ Clear(g[a + j], r) => Clear(g[k], r)
        /\ ShownBy(g[a + j], r, m + j) /\ (m + j) + 1 <= MaxHistory =>
             ShownBy(g[k], r, (m + j) + 1)
    BY <2>2, <2>3, <2>4, AppliedOther
  <2>6. m + (j + 1) <= MaxHistory => m + j <= MaxHistory
    BY <1>1
  <2> QED BY <1>4, <2>4, <2>5, <2>6 DEF Good, k
<1> HIDE DEF Good
<1>5. 0 \in B /\ \A j \in Nat : j \in B => j + 1 \in B
  <2>1. ASSUME NEW j \in Nat, j \in B, a + (j + 1) <= b PROVE Good(j + 1)
    <3>1. a + j <= b
      BY <1>2, <2>1
    <3> QED BY <1>4, <2>1, <3>1
  <2> QED BY <1>3, <2>1
<1> HIDE DEF B
<1>6. Nat \subseteq B
  BY <1>5, SetOfNaturals
<1>7. b - a \in Nat /\ a + (b - a) = b
  BY <1>2
<1>8. Good(b - a)
  BY <1>2, <1>6, <1>7 DEF B
<1> QED BY <1>7, <1>8 DEF Good

\* What all rules make of the alerts of one.
LEMMA RuleAfter ==
  ASSUME NEW n \in Nat, NEW history \in Histories(n), NEW fires, NEW resolves,
         NEW r \in Rules, MaxHistory >= Len(RuleOrder), NEW m \in Nat
  PROVE  LET after == AllApplied(fires, resolves, history) IN
         /\ r \in fires => ShownBy(after, r, Len(RuleOrder))
         /\ r \notin fires /\ r \in resolves => Clear(after, r)
         /\ r \notin fires /\ r \notin resolves =>
              /\ Clear(history, r) => Clear(after, r)
              /\ ShownBy(history, r, m) /\ m + (Len(RuleOrder) - 1) <= MaxHistory =>
                   ShownBy(after, r, m + (Len(RuleOrder) - 1))
<1> DEFINE after == AllApplied(fires, resolves, history)
           size == Len(RuleOrder)
<1>1. PICK g \in [0..Len(RuleOrder) -> Histories(n)] :
        /\ g[0] = history /\ RulesInOrder(g, fires, resolves)
        /\ after = g[Len(RuleOrder)]
  BY RulesOneByOne
<1>2. size \in Nat /\ MaxHistory \in Nat /\ DOMAIN RuleOrder = 1..size
  BY MonitoringAssumption
<1>3. PICK k \in 1..size : RuleOrder[k] = r
  BY <1>2 DEF Rules, Range
<1>4. \A i \in 1..size : RuleOrder[i] = r => i = k
  BY <1>2, <1>3, MonitoringAssumption DEF IsInjective
<1> HIDE DEF after, size
<1>5. /\ k - 1 \in 0..size /\ k \in 0..size /\ 0 \in 0..size /\ size \in 0..size
      /\ 0 <= k - 1 /\ k <= size /\ size >= 1
  BY <1>2, <1>3
<1>6. \A i \in (0 + 1)..(k - 1) : RuleOrder[i] # r
  BY <1>2, <1>3, <1>4
<1>7. \A i \in (k + 1)..size : RuleOrder[i] # r
  BY <1>2, <1>3, <1>4
<1>8. g \in [0..size -> Histories(n)] /\ g[size] = after /\ MaxHistory >= size
  BY <1>1 DEF size
<1>9. g[k - 1] \in Histories(n) /\ g[k] = Applied(fires, resolves, g[k - 1], r)
  <2>1. g[k] = Applied(fires, resolves, g[k - 1], RuleOrder[k])
    BY <1>1, <1>3 DEF RulesInOrder, size
  <2> QED BY <1>3, <1>5, <1>8, <2>1
<1>10. ASSUME NEW x \in Nat
       PROVE  /\ Clear(g[0], r) => Clear(g[k - 1], r)
              /\ ShownBy(g[0], r, x) /\ x + ((k - 1) - 0) <= MaxHistory =>
                   ShownBy(g[k - 1], r, x + ((k - 1) - 0))
  <2> DEFINE b == k - 1
  <2>1. /\ b \in 0..Len(RuleOrder) /\ 0 \in 0..Len(RuleOrder) /\ 0 <= b
        /\ \A i \in (0 + 1)..b : RuleOrder[i] # r
    BY <1>5, <1>6 DEF size
  <2> HIDE DEF b
  <2>2. /\ Clear(g[0], r) => Clear(g[b], r)
        /\ ShownBy(g[0], r, x) /\ x + (b - 0) <= MaxHistory => ShownBy(g[b], r, x + (b - 0))
    BY <1>1, <2>1, RulesPush
  <2> QED BY <2>2 DEF b
<1>11. ASSUME NEW x \in Nat
       PROVE  /\ Clear(g[k], r) => Clear(after, r)
              /\ ShownBy(g[k], r, x) /\ x + (size - k) <= MaxHistory =>
                   ShownBy(after, r, x + (size - k))
  <2> DEFINE last == g[size]
  <2>1. /\ Clear(g[k], r) => Clear(last, r)
        /\ ShownBy(g[k], r, x) /\ x + (size - k) <= MaxHistory =>
             ShownBy(last, r, x + (size - k))
    <3>1. /\ k \in 0..Len(RuleOrder) /\ size \in 0..Len(RuleOrder) /\ k <= size
          /\ \A i \in (k + 1)..size : RuleOrder[i] # r
      BY <1>5, <1>7 DEF size
    <3> QED BY <1>1, <3>1, RulesPush
  <2>2. last = after
    BY <1>8
  <2> HIDE DEF last
  <2> QED BY <2>1, <2>2
<1>12. /\ r \in fires => ShownBy(g[k], r, 1)
       /\ r \notin fires /\ r \in resolves => Clear(g[k], r)
  <2>1. MaxHistory >= 1
    BY <1>2, <1>5, <1>8
  <2> QED BY <1>9, <2>1, AppliedOwn
<1>13. r \in fires => ShownBy(after, r, size)
  <2> SUFFICES ASSUME r \in fires PROVE ShownBy(after, r, size)
    OBVIOUS
  <2>1. 1 + (size - k) <= MaxHistory /\ 1 + (size - k) <= size /\ 1 + (size - k) \in Nat
    BY <1>2, <1>3, <1>8
  <2>2. ShownBy(after, r, 1 + (size - k))
    BY <1>11, <1>12, <2>1
  <2>3. DOMAIN after \subseteq Nat
    BY <1>5, <1>8, HistoryIs
  <2>4. \A p \in DOMAIN after : p <= 1 + (size - k) => p <= size
    BY <1>2, <2>1, <2>3
  <2> QED BY <2>2, <2>4 DEF ShownBy
<1>14. r \notin fires /\ r \in resolves => Clear(after, r)
  <2>1. 0 \in Nat
    OBVIOUS
  <2> QED BY <1>11, <1>12, <2>1
<1>15. ASSUME r \notin fires, r \notin resolves
       PROVE  /\ Clear(history, r) => Clear(after, r)
              /\ ShownBy(history, r, m) /\ m + (size - 1) <= MaxHistory =>
                   ShownBy(after, r, m + (size - 1))
  <2>1. g[k] = g[k - 1]
    BY <1>9, <1>15 DEF Applied
  <2>2. Clear(history, r) => Clear(after, r)
    BY <1>1, <1>10, <1>11, <2>1
  <2>3. ASSUME ShownBy(history, r, m), m + (size - 1) <= MaxHistory
        PROVE  ShownBy(after, r, m + (size - 1))
    <3> DEFINE x == m + ((k - 1) - 0)
    <3>1. x \in Nat /\ x <= MaxHistory /\ x + (size - k) = m + (size - 1)
      BY <1>2, <1>3, <2>3
    <3>2. ShownBy(g[k - 1], r, x)
      BY <1>1, <1>10, <2>3, <3>1
    <3> HIDE DEF x
    <3> QED BY <1>11, <2>1, <2>3, <3>1, <3>2
  <2> QED BY <2>2, <2>3
<1> QED BY <1>13, <1>14, <1>15 DEF after, size

\* Steps that keep the alerts keep what they show.
LEMMA AlertsStand ==
  ASSUME NewestShown, ErrorAlertSafe, UNCHANGED <<state, alerts, tests>>,
         ErrorRule \in Rules /\ state[ErrorRule] = "firing" /\ performance.total >= MinRequests =>
           Undecided' = Undecided /\ performance'.total >= MinRequests
  PROVE  NewestShown' /\ ErrorAlertSafe'
<1>1. NewestShown'
  BY DEF NewestShown, Clear, Shows
<1>2. ASSUME ErrorRule \in Rules, state[ErrorRule] = "firing" PROVE ErrorAlertSafe'
  <2>1. performance.total >= MinRequests
    BY <1>2 DEF ErrorAlertSafe
  <2>2. PICK p \in DOMAIN alerts : Shows(alerts, ErrorRule, p) /\ Safe(p)
    BY <1>2 DEF ErrorAlertSafe
  <2>3. Undecided' = Undecided /\ performance'.total >= MinRequests
    BY <1>2, <2>1
  <2>4. Safe(p)'
    BY <2>2, <2>3 DEF Safe
  <2>5. Shows(alerts, ErrorRule, p)' /\ p \in DOMAIN alerts'
    BY <2>2 DEF Shows
  <2> QED BY <2>3, <2>4, <2>5 DEF ErrorAlertSafe
<1>3. ASSUME ~(ErrorRule \in Rules /\ state[ErrorRule] = "firing") PROVE ErrorAlertSafe'
  <2>1. ~(ErrorRule \in Rules /\ state'[ErrorRule] = "firing")
    BY <1>3
  <2> QED BY <2>1 DEF ErrorAlertSafe
<1> QED BY <1>1, <1>2, <1>3

\* Requests are counted up.
LEMMA RequestsCountUp ==
  ASSUME performance \in Performance, NEW h \in Handlers,
         \/ \E r \in Routes : Arrive(h, r)
         \/ \E latency \in Latency :
              (\E status \in Status : Respond(h, status, latency)) \/ CatchError(h, latency)
  PROVE  performance.total \in Nat /\ performance'.total \in Nat
         /\ performance'.total >= performance.total
         /\ UNCHANGED <<evaluations, state, alerts, tests>>
<1>1. performance.total \in Nat
  BY DEF Performance
<1>2. ASSUME NEW r \in Routes, Arrive(h, r)
      PROVE  /\ performance'.total = performance.total
             /\ UNCHANGED <<evaluations, state, alerts, tests>>
  BY <1>2 DEF Arrive, Performance
<1>3. ASSUME NEW latency \in Latency,
             (\E status \in Status : Respond(h, status, latency)) \/ CatchError(h, latency)
      PROVE  /\ performance'.total = performance.total + 1
             /\ UNCHANGED <<evaluations, state, alerts, tests>>
  BY <1>3 DEF Respond, CatchError, Finish, Recorded
<1> QED BY <1>1, <1>2, <1>3

LEMMA RequestsKeepAlerts ==
  ASSUME Decided, NewestShown, ErrorAlertSafe,
         performance.total \in Nat, performance'.total \in Nat,
         performance'.total >= performance.total, UNCHANGED <<evaluations, state, alerts, tests>>
  PROVE  Decided' /\ NewestShown' /\ ErrorAlertSafe'
<1>1. MinRequests \in Nat
  BY MonitoringAssumption
<1>2. performance.total >= MinRequests => performance'.total >= MinRequests
  BY <1>1
<1>3. Decided'
  <2> SUFFICES ASSUME NEW e \in Evaluations, evaluations[e] # Idle
               PROVE  /\ \A r \in Rules \ {ErrorRule} : Found(e, r)'
                      /\ ErrorRule \in evaluations[e].summary.exceeded =>
                           performance'.total >= MinRequests
    BY DEF Decided
  <2> QED BY <1>2 DEF Decided, Found
<1>4. Undecided' = Undecided
  BY DEF Undecided, Found
<1> QED BY <1>2, <1>3, <1>4, AlertsStand

\* The rule of the error rate is in neither state only while few requests are counted.
LEMMA SummaryFinds ==
  ASSUME performance \in Performance
  PROVE  LET found == Summarized(performance).exceeded \union Summarized(performance).recovered IN
         /\ \A r \in Rules \ {ErrorRule} : r \in found
         /\ ErrorRule \in Summarized(performance).exceeded => performance.total >= MinRequests
         /\ ErrorRule \in Rules /\ performance.total >= MinRequests => ErrorRule \in found
<1> DEFINE rate == ErrorRatePercentage(performance)
           p == performance
           exceeded == {r \in Rules :
             \/ r = "high-error-rate" /\ p.total >= MinRequests /\ rate > ErrorRate
             \/ r = "high-latency-p95" /\ P95(p.latencies) = "slow"}
           recovered == {r \in Rules \ exceeded : r = "high-error-rate" => rate <= ErrorRate}
<1>1. Summarized(performance) = [exceeded |-> exceeded, recovered |-> recovered]
  BY DEF Summarized
<1>2. rate \in Int /\ ErrorRate \in Nat
  <2>1. p.total \in Nat /\ p.errors \in Nat
    BY DEF Performance
  <2>2. p.total # 0 => (20000 * p.errors + p.total) \div (2 * p.total) \in Int
    <3> DEFINE x == p.total
               y == p.errors
    <3> HIDE DEF x, y
    <3>1. x \in Nat /\ y \in Nat
      BY <2>1 DEF x, y
    <3>2. x # 0 => (20000 * y + x) \in Int /\ 2 * x \in Nat /\ 2 * x > 0
      BY <3>1
    <3>3. x # 0 => (20000 * y + x) \div (2 * x) \in Int
      BY <3>2
    <3> QED BY <3>3 DEF x, y
  <2> QED BY <2>2, MonitoringAssumption DEF ErrorRatePercentage
<1>3. rate > ErrorRate \/ rate <= ErrorRate
  BY <1>2
<1> HIDE DEF rate
<1>4. \A r \in Rules \ {ErrorRule} : r \in exceeded \union recovered
  BY DEF ErrorRule
<1>5. ErrorRule \in exceeded => p.total >= MinRequests
  BY DEF ErrorRule
<1>6. ErrorRule \in Rules /\ p.total >= MinRequests => ErrorRule \in exceeded \union recovered
  BY <1>3 DEF ErrorRule
<1> HIDE DEF exceeded, recovered
<1> QED BY <1>1, <1>4, <1>5, <1>6

LEMMA EvaluateKeepsAlerts ==
  ASSUME Evaluated, performance \in Performance, Decided, NewestShown, ErrorAlertSafe,
         NEW e \in Evaluations, EvaluateRules(e)
  PROVE  Decided' /\ NewestShown' /\ ErrorAlertSafe'
<1> DEFINE new == [pc |-> "query", summary |-> Summarized(performance), database |-> "up"]
<1>1. /\ evaluations[e] = Idle /\ evaluations' = [evaluations EXCEPT ![e] = new]
      /\ UNCHANGED <<performance, state, alerts, tests>>
  BY DEF EvaluateRules
<1>2. /\ \A r : Found(e, r)' <=> r \in new.summary.exceeded \union new.summary.recovered
      /\ evaluations'[e] = new
      /\ \A x \in Evaluations : x # e => evaluations'[x] = evaluations[x]
  BY <1>1 DEF Found, Evaluated
<1>3. \A x \in Evaluations : \A r : x # e => (Found(x, r)' <=> Found(x, r))
  BY <1>2 DEF Found
<1>4. new.summary = Summarized(performance)
  OBVIOUS
<1> HIDE DEF new
<1>5. Decided'
  <2> SUFFICES ASSUME NEW x \in Evaluations, evaluations'[x] # Idle
               PROVE  /\ \A r \in Rules \ {ErrorRule} : Found(x, r)'
                      /\ ErrorRule \in evaluations'[x].summary.exceeded =>
                           performance'.total >= MinRequests
    BY DEF Decided
  <2>1. CASE x = e
    BY <1>1, <1>2, <1>4, <2>1, SummaryFinds
  <2>2. CASE x # e
    BY <1>1, <1>2, <1>3, <2>2 DEF Decided
  <2> QED BY <2>1, <2>2
<1>6. ASSUME ErrorRule \in Rules, performance.total >= MinRequests PROVE Undecided' = Undecided
  <2>1. Found(e, ErrorRule)'
    BY <1>2, <1>4, <1>6, SummaryFinds
  <2>2. e \notin Undecided' /\ e \notin Undecided
    BY <1>1, <2>1 DEF Undecided
  <2>3. \A x \in Evaluations : x # e => (x \in Undecided' <=> x \in Undecided)
    BY <1>2, <1>3 DEF Undecided
  <2> QED BY <2>2, <2>3 DEF Undecided
<1> QED BY <1>1, <1>5, <1>6, AlertsStand

LEMMA CheckKeepsAlerts ==
  ASSUME Evaluated, Decided, NewestShown, ErrorAlertSafe, NEW e \in Evaluations, CheckDatabase(e)
  PROVE  Decided' /\ NewestShown' /\ ErrorAlertSafe'
<1> DEFINE new == [evaluations[e] EXCEPT !.pc = "answer", !.database = database]
<1>1. /\ evaluations[e].pc = "query" /\ evaluations' = [evaluations EXCEPT ![e] = new]
      /\ UNCHANGED <<performance, state, alerts, tests>>
  BY DEF CheckDatabase
<1>2. evaluations[e] \in Evaluation
  BY <1>1 DEF Evaluated, Idle
<1>3. new.summary = evaluations[e].summary /\ new # Idle /\ evaluations[e] # Idle
  <2>1. new.pc = "answer" /\ new.summary = evaluations[e].summary
    BY <1>2 DEF Evaluation
  <2>2. Idle.pc = "idle"
    BY DEF Idle
  <2> HIDE DEF new
  <2> QED BY <1>1, <2>1, <2>2
<1>4. evaluations'[e] = new /\ \A x \in Evaluations : x # e => evaluations'[x] = evaluations[x]
  BY <1>1 DEF Evaluated
<1> HIDE DEF new
<1>5. ASSUME NEW x \in Evaluations
      PROVE  /\ evaluations'[x] # Idle <=> evaluations[x] # Idle
             /\ evaluations[x] # Idle => evaluations'[x].summary = evaluations[x].summary
  BY <1>3, <1>4
<1>6. \A x \in Evaluations : \A r : evaluations[x] # Idle => (Found(x, r)' <=> Found(x, r))
  BY <1>5 DEF Found
<1>7. Decided'
  BY <1>1, <1>5, <1>6 DEF Decided
<1>8. Undecided' = Undecided
  BY <1>5, <1>6 DEF Undecided
<1> QED BY <1>1, <1>7, <1>8, AlertsStand

\* What a step that applies the rules leaves of the evaluations.
LEMMA OneDone ==
  ASSUME Evaluated, HistoryLongEnough, NEW e \in Evaluations, evaluations[e] # Idle,
         evaluations' = [evaluations EXCEPT ![e] = Idle]
  PROVE  /\ Cardinality(Undecided) \in Nat /\ Cardinality(Undecided') \in Nat
         /\ Cardinality(Undecided') + 1 <= Cardinality(Evaluations)
         /\ ~Found(e, ErrorRule) => Cardinality(Undecided) = Cardinality(Undecided') + 1
<1>1. evaluations'[e] = Idle /\ \A x \in Evaluations : x # e => evaluations'[x] = evaluations[x]
  BY DEF Evaluated
<1>2. \A x \in Evaluations : x # e => (Found(x, ErrorRule)' <=> Found(x, ErrorRule))
  BY <1>1 DEF Found
<1>3. Undecided' = Undecided \ {e}
  <2>1. \A x \in Evaluations : x \in Undecided' <=> x \in Undecided \ {e}
    BY <1>1, <1>2 DEF Undecided
  <2> QED BY <2>1 DEF Undecided
<1>4. Undecided \subseteq Evaluations /\ Undecided \ {e} \subseteq Evaluations \ {e}
      /\ IsFiniteSet(Evaluations)
  BY DEF Undecided, HistoryLongEnough
<1>5. IsFiniteSet(Undecided) /\ IsFiniteSet(Evaluations \ {e}) /\ IsFiniteSet(Undecided \ {e})
  BY <1>4, FS_Subset
<1>6. /\ Cardinality(Undecided) \in Nat /\ Cardinality(Undecided \ {e}) \in Nat
      /\ Cardinality(Evaluations) \in Nat /\ Cardinality(Evaluations \ {e}) \in Nat
  BY <1>4, <1>5, FS_CardinalityType
<1>7. Cardinality(Undecided \ {e}) <= Cardinality(Evaluations \ {e})
  BY <1>4, <1>5, FS_Subset
<1>8. Cardinality(Evaluations \ {e}) = Cardinality(Evaluations) - 1
  BY <1>4, FS_RemoveElement
<1>9. ~Found(e, ErrorRule) => e \in Undecided
  BY DEF Undecided
<1>10. e \in Undecided => Cardinality(Undecided \ {e}) = Cardinality(Undecided) - 1
  BY <1>5, FS_RemoveElement
<1> DEFINE c == Cardinality(Undecided)
           d == Cardinality(Undecided \ {e})
           n == Cardinality(Evaluations)
           n1 == Cardinality(Evaluations \ {e})
<1>11. /\ c \in Nat /\ d \in Nat /\ n \in Nat /\ n1 \in Nat /\ d <= n1 /\ n1 = n - 1
       /\ ~Found(e, ErrorRule) => d = c - 1
  BY <1>6, <1>7, <1>8, <1>9, <1>10
<1> HIDE DEF c, d, n, n1
<1>12. d + 1 <= n /\ (~Found(e, ErrorRule) => c = d + 1)
  BY <1>11
<1> QED BY <1>3, <1>11, <1>12 DEF c, d, n

LEMMA LongEnough ==
  ASSUME HistoryLongEnough, Evaluations # {}, RuleOrder # <<>>,
         NEW c \in Nat, c + 1 <= Cardinality(Evaluations)
  PROVE  /\ Len(RuleOrder) \in Nat /\ Len(RuleOrder) >= 1 /\ MaxHistory \in Nat /\ MaxTests \in Nat
         /\ MaxHistory >= Len(RuleOrder)
         /\ Len(RuleOrder) + c * (Len(RuleOrder) - 1) + MaxTests <= MaxHistory
<1> DEFINE n == Len(RuleOrder)
           s == Cardinality(Evaluations)
<1>1. n \in Nat /\ n >= 1 /\ MaxHistory \in Nat /\ MaxTests \in Nat
  BY MonitoringAssumption
<1>2. s \in Nat /\ MaxHistory >= 1 + s * (n - 1) + MaxTests
  BY FS_CardinalityType DEF HistoryLongEnough
<1> HIDE DEF n, s
<1>3. c + 1 <= s
  BY DEF s
<1>4. PICK k \in Nat : n = k + 1
  <2>1. n - 1 \in Nat /\ n = (n - 1) + 1
    BY <1>1
  <2> QED BY <2>1
<1>5. PICK x \in Nat : s = c + 1 + x
  <2>1. s - (c + 1) \in Nat /\ s = c + 1 + (s - (c + 1))
    BY <1>2, <1>3
  <2> QED BY <2>1
<1>6. s * (n - 1) = c * k + k + x * k /\ c * (n - 1) = c * k
  BY <1>4, <1>5
<1>7. c * k \in Nat /\ x * k \in Nat
  OBVIOUS
<1> DEFINE ck == c * k
           xk == x * k
<1> HIDE DEF ck, xk
<1>8. MaxHistory >= 1 + (ck + k + xk) + MaxTests /\ ck \in Nat /\ xk \in Nat
  BY <1>2, <1>6, <1>7 DEF ck, xk
<1>9. MaxHistory >= n /\ n + ck + MaxTests <= MaxHistory
  BY <1>1, <1>4, <1>8
<1> QED BY <1>1, <1>6, <1>9 DEF n, ck

LEMMA ApplyKeepsAlerts ==
  ASSUME HistoryLongEnough, Evaluated, performance.total \in Nat,
         Decided, NewestShown, ErrorAlertSafe,
         NEW e \in Evaluations, NEW heapHigh \in BOOLEAN, ApplyRules(e, heapHigh)
  PROVE  Decided' /\ NewestShown' /\ ErrorAlertSafe'
<1> DEFINE fires == Exceeding(evaluations[e], heapHigh)
           resolves == {r \in evaluations[e].summary.recovered \ fires : state[r] = "firing"}
           n == Len(RuleOrder)
           c == Cardinality(Undecided)
           d == Cardinality(Undecided')
<1>1. alerts' = AllApplied(fires, resolves, alerts)
  BY DEF ApplyRules, Applied, AllApplied
<1>2. /\ evaluations[e].pc = "answer" /\ evaluations' = [evaluations EXCEPT ![e] = Idle]
      /\ \A r \in Rules : state'[r] = IF r \in fires THEN "firing"
                                      ELSE IF r \in resolves THEN "ok" ELSE state[r]
      /\ UNCHANGED <<performance, tests>>
  BY DEF ApplyRules
<1>3. evaluations[e] # Idle
  BY <1>2 DEF Idle
<1>4. /\ \A r \in evaluations[e].summary.exceeded : r \in fires
      /\ ErrorRule \in fires <=> ErrorRule \in evaluations[e].summary.exceeded
  BY DEF Exceeding, ErrorRule
<1>5. \A r \in Rules : /\ Found(e, r) /\ r \notin fires /\ state[r] = "firing" => r \in resolves
                       /\ r \in resolves => Found(e, r)
  BY <1>4 DEF Found
<1>6. alerts \in Histories(tests) /\ tests \in Nat /\ tests <= MaxTests
  BY MonitoringAssumption DEF Evaluated, Histories
<1>7. /\ c \in Nat /\ d \in Nat /\ d + 1 <= Cardinality(Evaluations)
      /\ ~Found(e, ErrorRule) => c = d + 1
  BY <1>2, <1>3, OneDone
<1>8. \A r \in Rules \ {ErrorRule} : Found(e, r)
  BY <1>3 DEF Decided
<1>9. ErrorRule \in fires => performance.total >= MinRequests
  BY <1>3, <1>4 DEF Decided
<1> HIDE DEF fires, resolves
<1>10. ASSUME NEW r \in Rules
       PROVE  /\ n \in Nat /\ n >= 1 /\ MaxHistory \in Nat /\ MaxTests \in Nat /\ MaxHistory >= n
              /\ n + d * (n - 1) + MaxTests <= MaxHistory
  <2>1. RuleOrder # <<>> /\ Evaluations # {}
    BY DEF Rules, Range
  <2> HIDE DEF d
  <2> QED BY <1>7, <2>1, LongEnough
<1>11. ASSUME NEW r \in Rules, NEW m \in Nat
       PROVE  /\ r \in fires => ShownBy(alerts', r, n)
              /\ r \notin fires /\ r \in resolves => Clear(alerts', r)
              /\ r \notin fires /\ r \notin resolves =>
                   /\ Clear(alerts, r) => Clear(alerts', r)
                   /\ ShownBy(alerts, r, m) /\ m + (n - 1) <= MaxHistory =>
                        ShownBy(alerts', r, m + (n - 1))
  <2>1. MaxHistory >= Len(RuleOrder)
    BY <1>10
  <2> QED BY <1>1, <1>6, <2>1, RuleAfter
<1> HIDE DEF c, d, n
<1>12. Decided'
  <2>1. evaluations'[e] = Idle /\ \A x \in Evaluations : x # e => evaluations'[x] = evaluations[x]
    BY <1>2 DEF Evaluated
  <2>2. \A x \in Evaluations : \A r : x # e => (Found(x, r)' <=> Found(x, r))
    BY <2>1 DEF Found
  <2> QED BY <1>2, <2>1, <2>2 DEF Decided
<1>13. ASSUME ErrorRule \in Rules, state'[ErrorRule] = "firing"
       PROVE  /\ performance'.total >= MinRequests
              /\ \E p \in DOMAIN alerts' : Shows(alerts', ErrorRule, p) /\ Safe(p)'
  <2> DEFINE k == n - 1
             dk == d * k
  <2>1. /\ n \in Nat /\ k \in Nat /\ MaxHistory \in Nat /\ MaxTests \in Nat
        /\ n + dk + MaxTests <= MaxHistory
    BY <1>10, <1>13
  <2>2. dk \in Nat
    BY <1>7, <2>1
  <2>3. ASSUME NEW p \in Nat, p + dk + (MaxTests - tests) <= MaxHistory PROVE Safe(p)'
    <3>1. Safe(p)' <=> p + dk + (MaxTests - tests') <= MaxHistory
      BY DEF Safe, d, n
    <3> QED BY <1>2, <2>3, <3>1
  <2>4. DOMAIN alerts' \subseteq Nat
    <3>1. alerts' \in Histories(tests)
      <4> QED BY <1>1, <1>6, RulesKeepHistories
    <3> QED BY <1>6, <3>1, HistoryIs
  <2>5. CASE ErrorRule \in fires
    <3>1. PICK p \in DOMAIN alerts' : Shows(alerts', ErrorRule, p) /\ p <= n
      BY <1>11, <1>13, <2>5, <1>6 DEF ShownBy
    <3>2. p \in Nat
      BY <2>4
    <3> HIDE DEF k, dk
    <3>3. p + dk + (MaxTests - tests) <= MaxHistory
      BY <1>6, <2>1, <2>2, <3>1, <3>2
    <3>4. Safe(p)'
      BY <2>3, <3>2, <3>3
    <3> QED BY <1>2, <1>9, <2>5, <3>1, <3>4
  <2>6. CASE ErrorRule \notin fires
    <3>1. ErrorRule \notin resolves /\ state[ErrorRule] = "firing"
      BY <1>2, <1>13, <2>6
    <3>2. ~Found(e, ErrorRule)
      BY <1>5, <1>13, <2>6, <3>1
    <3>3. performance.total >= MinRequests
      BY <1>13, <3>1 DEF ErrorAlertSafe
    <3>4. PICK p \in DOMAIN alerts : Shows(alerts, ErrorRule, p) /\ Safe(p)
      BY <1>13, <3>1 DEF ErrorAlertSafe
    <3>5. p \in Nat
      BY <1>6, HistoryIs
    <3>6. c = d + 1 /\ c * (n - 1) = dk + k
      BY <1>7, <2>1, <3>2
    <3>7. p + c * (n - 1) + (MaxTests - tests) <= MaxHistory
      BY <3>4 DEF Safe, c, n
    <3> HIDE DEF dk
    <3>8. p + k <= MaxHistory /\ p + k + dk + (MaxTests - tests) <= MaxHistory /\ p + k \in Nat
      BY <1>6, <2>1, <2>2, <3>5, <3>6, <3>7
    <3>9. ShownBy(alerts, ErrorRule, p)
      BY <3>4, <3>5 DEF ShownBy
    <3>10. ShownBy(alerts', ErrorRule, p + k)
      BY <1>11, <1>13, <2>6, <3>1, <3>5, <3>8, <3>9
    <3>11. PICK q \in DOMAIN alerts' : Shows(alerts', ErrorRule, q) /\ q <= p + k
      BY <3>10 DEF ShownBy
    <3>12. q \in Nat /\ q + dk + (MaxTests - tests) <= MaxHistory
      <4>1. q \in Nat
        BY <2>4
      <4> HIDE DEF k
      <4> QED BY <1>6, <2>1, <2>2, <3>5, <3>8, <3>11, <4>1
    <3>13. Safe(q)'
      BY <2>3, <3>12
    <3> QED BY <1>2, <3>3, <3>11, <3>13
  <2> QED BY <2>5, <2>6
<1>14. ErrorAlertSafe'
  BY <1>13 DEF ErrorAlertSafe
<1>15. ASSUME NEW r \in Rules
       PROVE  IF state'[r] = "firing" THEN \E p \in DOMAIN alerts' : Shows(alerts', r, p)
                                      ELSE Clear(alerts', r)
  <2>1. CASE r \in fires
    <3>1. state'[r] = "firing"
      BY <1>2, <2>1
    <3>2. 0 \in Nat
      OBVIOUS
    <3>3. ShownBy(alerts', r, n)
      BY <1>11, <2>1, <3>2
    <3> QED BY <3>1, <3>3 DEF ShownBy
  <2>2. CASE r \notin fires /\ r \in resolves
    <3>1. state'[r] = "ok"
      BY <1>2, <2>2
    <3>2. 0 \in Nat
      OBVIOUS
    <3> QED BY <1>11, <2>2, <3>1, <3>2
  <2>3. CASE r \notin fires /\ r \notin resolves
    <3>1. state'[r] = state[r]
      BY <1>2, <2>3
    <3>2. CASE state[r] # "firing"
      <4>1. Clear(alerts, r) /\ 0 \in Nat
        BY <3>2 DEF NewestShown
      <4>2. Clear(alerts', r)
        BY <1>11, <2>3, <4>1
      <4> QED BY <3>1, <3>2, <4>2
    <3>3. CASE state[r] = "firing"
      <4>1. r = ErrorRule
        BY <1>5, <1>8, <2>3, <3>3
      <4>2. \E p \in DOMAIN alerts' : Shows(alerts', ErrorRule, p)
        BY <1>13, <3>1, <3>3, <4>1
      <4> QED BY <3>1, <3>3, <4>1, <4>2
    <3> QED BY <3>2, <3>3
  <2> QED BY <2>1, <2>2, <2>3
<1>16. NewestShown'
  BY <1>15 DEF NewestShown
<1> QED BY <1>12, <1>14, <1>16

LEMMA TestAlertPushes ==
  ASSUME Evaluated, TriggerTestAlert
  PROVE  Pushes(alerts', alerts, [rule |-> TestRule, resolved |-> FALSE])
         /\ Len(alerts') = Len(alerts) + 1
<1> DEFINE alert == [rule |-> TestRule, resolved |-> FALSE]
           m == Len(alerts)
<1>1. alerts \in Seq(Alert) /\ m \in Nat /\ MaxHistory \in Nat /\ DOMAIN alerts = 1..m
  BY MonitoringAssumption DEF Evaluated
<1>2. <<alert>> \in Seq(Alert) /\ Len(<<alert>>) = 1 /\ <<alert>>[1] = alert
  BY DEF Alert
<1>3. alerts' = <<alert>> \o alerts
  BY DEF TriggerTestAlert
<1> HIDE DEF alert, m
<1>4. /\ alerts' \in Seq(Alert) /\ Len(alerts') = 1 + m
      /\ \A i \in 1..(1 + m) : alerts'[i] = IF i <= 1 THEN <<alert>>[i] ELSE alerts[i - 1]
  BY <1>1, <1>2, <1>3, ConcatProperties DEF m
<1>5. /\ alerts'[1] = alert /\ \A j \in 1..m : alerts'[j + 1] = alerts[j]
      /\ DOMAIN alerts' = 1..(m + 1) /\ Len(alerts') = m + 1
  BY <1>1, <1>2, <1>4
<1>6. Pushes(alerts', alerts, alert)
  BY <1>1, <1>5 DEF Pushes, m
<1> QED BY <1>5, <1>6 DEF alert, m

LEMMA TestKeepsAlerts ==
  ASSUME HistoryLongEnough, Evaluated, Decided, NewestShown, ErrorAlertSafe, TriggerTestAlert
  PROVE  Decided' /\ NewestShown' /\ ErrorAlertSafe'
<1> DEFINE alert == [rule |-> TestRule, resolved |-> FALSE]
<1>1. Pushes(alerts', alerts, alert) /\ Len(alerts') = Len(alerts) + 1
  BY TestAlertPushes
<1>2. \A r \in Rules : alert.rule # r
  <2>1. TestRule \notin RuleIds /\ Rules \subseteq RuleIds
    BY MonitoringAssumption DEF TestRule, RuleIds, Rules, Range
  <2> QED BY <2>1
<1>3. /\ UNCHANGED <<performance, evaluations, state>> /\ tests' = tests + 1
      /\ tests \in Nat /\ MaxHistory \in Nat /\ MaxTests \in Nat
  BY MonitoringAssumption DEF TriggerTestAlert, Evaluated
<1>4. DOMAIN alerts = 1..Len(alerts) /\ Len(alerts) \in Nat
  BY DEF Evaluated
<1> HIDE DEF alert
<1>5. ASSUME NEW r \in Rules, NEW p \in DOMAIN alerts, Shows(alerts, r, p)
      PROVE  Shows(alerts', r, p + 1) /\ p + 1 \in DOMAIN alerts'
  <2>1. p \in Nat /\ p + 1 <= Len(alerts')
    BY <1>1, <1>4
  <2>2. Shows(alerts', r, p + 1)
    BY <1>1, <1>2, <1>3, <1>5, <2>1, PushedOn
  <2> QED BY <2>2 DEF Shows
<1>6. \A r \in Rules : Clear(alerts, r) => Clear(alerts', r)
  BY <1>1, <1>2, PushedClear
<1>7. Decided'
  BY <1>3 DEF Decided, Found
<1>8. NewestShown'
  <2> SUFFICES ASSUME NEW r \in Rules
               PROVE  IF state[r] = "firing" THEN \E p \in DOMAIN alerts' : Shows(alerts', r, p)
                                             ELSE Clear(alerts', r)
    BY <1>3 DEF NewestShown
  <2>1. CASE state[r] = "firing"
    <3>1. PICK p \in DOMAIN alerts : Shows(alerts, r, p)
      BY <2>1 DEF NewestShown
    <3> QED BY <1>5, <2>1, <3>1
  <2>2. CASE state[r] # "firing"
    BY <1>6, <2>2 DEF NewestShown
  <2> QED BY <2>1, <2>2
<1>9. ASSUME ErrorRule \in Rules, state[ErrorRule] = "firing"
      PROVE  /\ performance.total >= MinRequests
             /\ \E p \in DOMAIN alerts' : Shows(alerts', ErrorRule, p) /\ Safe(p)'
  <2>1. PICK p \in DOMAIN alerts : Shows(alerts, ErrorRule, p) /\ Safe(p)
    BY <1>9 DEF ErrorAlertSafe
  <2>2. Undecided' = Undecided
    BY <1>3 DEF Undecided, Found
  <2>3. Safe(p + 1)'
    <3> DEFINE x == Cardinality(Undecided) * (Len(RuleOrder) - 1)
    <3>1. x \in Int
      <4>1. Cardinality(Undecided) \in Nat /\ Len(RuleOrder) \in Nat
        <5>1. IsFiniteSet(Undecided)
          <6>1. Undecided \subseteq Evaluations
            BY DEF Undecided
          <6> QED BY <6>1, FS_Subset DEF HistoryLongEnough
        <5> QED BY <5>1, FS_CardinalityType, MonitoringAssumption
      <4> QED BY <4>1
    <3>2. p + x + (MaxTests - tests) <= MaxHistory
      BY <2>1 DEF Safe
    <3>3. Safe(p + 1)' <=> (p + 1) + x + (MaxTests - tests') <= MaxHistory
      BY <2>2 DEF Safe
    <3>4. p \in Nat
      BY <1>4
    <3> HIDE DEF x
    <3> QED BY <1>3, <3>1, <3>2, <3>3, <3>4
  <2> QED BY <1>5, <1>9, <2>1, <2>3 DEF ErrorAlertSafe
<1>10. ErrorAlertSafe'
  BY <1>3, <1>9 DEF ErrorAlertSafe
<1> QED BY <1>7, <1>8, <1>10

LEMMA NewestIsShown ==
  ASSUME Evaluated, NewestShown
  PROVE  NewestFollowsState
<1> SUFFICES ASSUME NEW r \in Rules PROVE state[r] = "firing" <=> NewestOpen(r)
  BY DEF NewestFollowsState
<1>1. DOMAIN alerts = 1..Len(alerts) /\ Len(alerts) \in Nat
      /\ \A i \in DOMAIN alerts : alerts[i] \in Alert
  BY DEF Evaluated
<1>2. ASSUME NEW i \in DOMAIN alerts
      PROVE  alerts[i] = [rule |-> r, resolved |-> FALSE]
               <=> alerts[i].rule = r /\ ~alerts[i].resolved
  BY <1>1 DEF Alert
<1>3. NewestOpen(r) <=> \E p \in DOMAIN alerts : Shows(alerts, r, p)
  BY <1>2 DEF NewestOpen, Shows
<1> QED BY <1>3 DEF NewestShown, Clear

LEMMA AlertsStart == Init => Decided /\ NewestShown /\ ErrorAlertSafe
<1> SUFFICES ASSUME Init PROVE Decided /\ NewestShown /\ ErrorAlertSafe
  OBVIOUS
<1>1. \A e \in Evaluations : evaluations[e] = Idle
  BY DEF Init
<1>2. \A r \in Rules : state[r] = "ok"
  BY DEF Init
<1>3. alerts = <<>> /\ DOMAIN alerts = {}
  BY DEF Init
<1>4. Decided
  BY <1>1 DEF Decided
<1>5. NewestShown
  BY <1>2, <1>3 DEF NewestShown, Clear
<1>6. ErrorAlertSafe
  BY <1>2 DEF ErrorAlertSafe
<1> QED BY <1>4, <1>5, <1>6

LEMMA StepsKeepAlerts ==
  ASSUME HistoryLongEnough, TypeOK, Decided, NewestShown, ErrorAlertSafe, [Next]_vars
  PROVE  Decided' /\ NewestShown' /\ ErrorAlertSafe'
<1> USE TypesParted
<1>1. Evaluated /\ performance \in Performance /\ performance.total \in Nat
  BY DEF Metered, Performance
<1>2. ASSUME NEW h \in Handlers,
             \/ \E r \in Routes : Arrive(h, r)
             \/ \E latency \in Latency :
                  (\E status \in Status : Respond(h, status, latency)) \/ CatchError(h, latency)
      PROVE  Decided' /\ NewestShown' /\ ErrorAlertSafe'
  BY <1>1, <1>2, RequestsCountUp, RequestsKeepAlerts
<1>3. ASSUME NEW e \in Evaluations, EvaluateRules(e)
      PROVE  Decided' /\ NewestShown' /\ ErrorAlertSafe'
  BY <1>1, <1>3, EvaluateKeepsAlerts
<1>4. ASSUME NEW e \in Evaluations, CheckDatabase(e)
      PROVE  Decided' /\ NewestShown' /\ ErrorAlertSafe'
  BY <1>1, <1>4, CheckKeepsAlerts
<1>5. ASSUME NEW e \in Evaluations, NEW heapHigh \in BOOLEAN, ApplyRules(e, heapHigh)
      PROVE  Decided' /\ NewestShown' /\ ErrorAlertSafe'
  BY <1>1, <1>5, ApplyKeepsAlerts
<1>6. CASE TriggerTestAlert
  BY <1>1, <1>6, TestKeepsAlerts
<1>7. CASE DatabaseChanges \/ UNCHANGED vars
  <2>1. UNCHANGED <<performance, evaluations, state, alerts, tests>>
    BY <1>7 DEF DatabaseChanges, vars
  <2>2. performance'.total = performance.total
    BY <2>1
  <2>3. performance'.total >= performance.total
    BY <1>1, <2>2
  <2> QED BY <1>1, <2>1, <2>2, <2>3, RequestsKeepAlerts
<1> QED BY <1>2, <1>3, <1>4, <1>5, <1>6, <1>7 DEF Next

\* AlertingService: where the history is long enough for what evaluations that found
\* the error rate in too few requests put before its alert, the newest alert of every
\* rule is open exactly while the rule is firing, however evaluations overlap.
THEOREM AlertsShown ==
  ASSUME HistoryLongEnough
  PROVE  Spec => []NewestFollowsState
<1> DEFINE Inv == Decided /\ NewestShown /\ ErrorAlertSafe
<1>1. Init => Inv
  BY AlertsStart
<1>2. TypeOK /\ Inv /\ [Next]_vars => Inv'
  BY StepsKeepAlerts
<1>3. CountersAgree => TypeOK
  BY DEF CountersAgree
<1>4. TypeOK /\ Inv => NewestFollowsState
  BY TypesParted, NewestIsShown
<1> QED BY <1>1, <1>2, <1>3, <1>4, CountersCorrect, PTL DEF Spec

-----------------------------------------------------------------------------
(* The rate limiter: what is left of a window, and of the configuration.    *)

Sorted(s) == \A i, j \in DOMAIN s : i <= j => s[i] <= s[j]

\* r is s without its first q elements, which are those up to the cutoff.
Suffix(r, s, q, cutoff) ==
  /\ Len(r) = Len(s) - q
  /\ \A i \in 1..(Len(s) - q) : r[i] = s[q + i]
  /\ \A i \in 1..q : s[i] <= cutoff
  /\ \A i \in (q + 1)..Len(s) : s[i] > cutoff

LEMMA CutExists ==
  ASSUME NEW s \in Seq(Int), Sorted(s), NEW cutoff \in Int
  PROVE  \E q \in 0..Len(s) : \A i \in DOMAIN s : s[i] > cutoff <=> i > q
<1> DEFINE old == {i \in DOMAIN s : s[i] <= cutoff}
<1>1. DOMAIN s = 1..Len(s) /\ Len(s) \in Nat
  OBVIOUS
<1>2. IsFiniteSet(old) /\ old \subseteq Int
  <2>1. IsFiniteSet(1..Len(s))
    BY <1>1, FS_Interval
  <2> QED BY <1>1, <2>1, FS_Subset
<1>3. \A i \in DOMAIN s : s[i] \in Int
  OBVIOUS
<1>4. CASE old = {}
  <2>1. \A i \in DOMAIN s : s[i] > cutoff /\ i > 0
    BY <1>1, <1>3, <1>4
  <2> QED BY <1>1, <2>1
<1>5. CASE old # {}
  <2>1. Max(old) \in old /\ \A i \in old : Max(old) >= i
    <3> HIDE DEF old
    <3> QED BY <1>2, <1>5, MaxOfSome
  <2>2. PICK q \in old : \A i \in old : q >= i
    BY <2>1
  <2>3. \A i \in DOMAIN s : s[i] > cutoff <=> i > q
    <3> SUFFICES ASSUME NEW i \in DOMAIN s PROVE s[i] > cutoff <=> i > q
      OBVIOUS
    <3>1. s[i] \in Int /\ s[q] \in Int /\ s[q] <= cutoff /\ i \in Int /\ q \in Int
      BY <1>1, <1>3
    <3>2. i <= q => s[i] <= s[q]
      BY DEF Sorted
    <3>3. i > q => i \notin old
      BY <2>2, <3>1
    <3> QED BY <3>1, <3>2, <3>3
  <2>4. q \in 0..Len(s)
    BY <1>1, <2>2
  <2> QED BY <2>3, <2>4
<1> QED BY <1>4, <1>5

LEMMA RecentIsSuffix ==
  ASSUME NEW A \in SUBSET Int, NEW window, NEW policy, NEW t \in Int, window.present,
         window.timestamps \in Seq(A), Sorted(window.timestamps), policy.windowMs \in Nat
  PROVE  /\ Recent(window, policy, t) \in Seq(A)
         /\ \E q \in 0..Len(window.timestamps) :
              Suffix(Recent(window, policy, t), window.timestamps, q, t - policy.windowMs)
<1> DEFINE s == window.timestamps
           cutoff == t - policy.windowMs
           Filters(g) == g = [T \in SUBSET DOMAIN s |-> IF T = {} THEN <<>>
                                ELSE IF s[Max(T)] > cutoff
                                       THEN Append(g[T \ {Max(T)}], s[Max(T)])
                                       ELSE g[T \ {Max(T)}]]
           fold == CHOOSE g : Filters(g)
<1>1. Recent(window, policy, t) = fold[DOMAIN s]
  BY DEF Recent, Filtered, FoldLeft, MapThenFoldSet
<1>2. s \in Seq(A) /\ s \in Seq(Int) /\ Sorted(s) /\ cutoff \in Int
  <2>1. s \in Seq(Int)
    BY SeqMonotonic
  <2> QED BY <2>1
<1> HIDE DEF s, cutoff
<1>3. PICK q \in 0..Len(s) : \A i \in DOMAIN s : s[i] > cutoff <=> i > q
  BY <1>2, CutExists
<1> DEFINE H == {i \in DOMAIN s : i > q}
<1>4. DOMAIN s = 1..Len(s) /\ Len(s) \in Nat
  BY <1>2
<1>5. \A T \in SUBSET DOMAIN s : T # {} => (Max(T) \in H <=> s[Max(T)] > cutoff)
  <2> SUFFICES ASSUME NEW T \in SUBSET DOMAIN s, T # {} PROVE Max(T) \in DOMAIN s
    BY <1>3
  <2>1. IsFiniteSet(1..Len(s)) /\ T \subseteq 1..Len(s)
    BY <1>4, FS_Interval
  <2>2. IsFiniteSet(T) /\ T \subseteq Int
    BY <2>1, FS_Subset
  <2> QED BY <2>2, MaxOfSome
<1> HIDE DEF H
<1>6. \E g : Filters(g)
  <2>1. PICK g : DOMAIN g = SUBSET DOMAIN s /\ g = [T \in DOMAIN g |-> g[T]] /\ Filtering(g, s, H)
    BY <1>2, FilterExists
  <2>2. \A T \in SUBSET DOMAIN s :
          g[T] = IF T = {} THEN <<>> ELSE IF s[Max(T)] > cutoff
                                            THEN Append(g[T \ {Max(T)}], s[Max(T)])
                                            ELSE g[T \ {Max(T)}]
    BY <1>5, <2>1 DEF Filtering
  <2>3. Filters(g)
    BY <2>1, <2>2
  <2> QED BY <2>3
<1>7. Filters(fold)
  <2> HIDE DEF Filters
  <2> QED BY <1>6
<1>8. Filtering(fold, s, H)
  <2> HIDE DEF fold
  <2> QED BY <1>5, <1>7 DEF Filtering
<1> HIDE DEF fold
<1>9. /\ fold[DOMAIN s] \in Seq(A) /\ Len(fold[DOMAIN s]) = Len(s) - q
      /\ \A i \in 1..(Len(s) - q) : fold[DOMAIN s][i] = s[q + i]
  BY <1>2, <1>8, FilterDropsFirst DEF H
<1>10. (\A i \in 1..q : s[i] <= cutoff) /\ \A i \in (q + 1)..Len(s) : s[i] > cutoff
  <2>1. \A i \in DOMAIN s : s[i] \in Int
    BY <1>2
  <2>2. ASSUME NEW i \in 1..q PROVE s[i] <= cutoff
    <3>1. i \in DOMAIN s /\ ~ (i > q)
      BY <1>4
    <3> QED BY <1>2, <1>3, <2>1, <3>1
  <2>3. ASSUME NEW i \in (q + 1)..Len(s) PROVE s[i] > cutoff
    <3>1. i \in DOMAIN s /\ i > q
      BY <1>4
    <3> QED BY <1>2, <1>3, <2>1, <3>1
  <2> QED BY <2>2, <2>3
<1>11. Suffix(fold[DOMAIN s], s, q, cutoff)
  BY <1>9, <1>10 DEF Suffix
<1> QED BY <1>1, <1>9, <1>11 DEF s, cutoff

\* The entries that are of use.
LEMMA UsableKept ==
  ASSUME NEW A, NEW entries \in Seq(A)
  PROVE  LET usable == Filtered(entries, Usable) IN
         /\ usable \in Seq(A)
         /\ \A j \in DOMAIN usable : \E i \in DOMAIN entries :
              usable[j] = entries[i] /\ Usable(entries[i])
         /\ \A i \in DOMAIN entries : Usable(entries[i]) =>
              \E j \in DOMAIN usable : usable[j] = entries[i]
<1> DEFINE s == entries
           Filters(g) == g = [T \in SUBSET DOMAIN s |-> IF T = {} THEN <<>>
                                ELSE IF Usable(s[Max(T)])
                                       THEN Append(g[T \ {Max(T)}], s[Max(T)])
                                       ELSE g[T \ {Max(T)}]]
           fold == CHOOSE g : Filters(g)
           H == {i \in DOMAIN s : Usable(s[i])}
<1>1. Filtered(entries, Usable) = fold[DOMAIN s]
  BY DEF Filtered, FoldLeft, MapThenFoldSet
<1> HIDE DEF s
<1>4. s \in Seq(A) /\ DOMAIN s = 1..Len(s) /\ Len(s) \in Nat
  BY DEF s
<1>5. \A T \in SUBSET DOMAIN s : T # {} => (Max(T) \in H <=> Usable(s[Max(T)]))
  <2> SUFFICES ASSUME NEW T \in SUBSET DOMAIN s, T # {} PROVE Max(T) \in DOMAIN s
    OBVIOUS
  <2>1. IsFiniteSet(1..Len(s)) /\ T \subseteq 1..Len(s)
    BY <1>4, FS_Interval
  <2>2. IsFiniteSet(T) /\ T \subseteq Int
    BY <2>1, FS_Subset
  <2> QED BY <2>2, MaxOfSome
<1> HIDE DEF H
<1>6. \E g : Filters(g)
  <2>1. PICK g : DOMAIN g = SUBSET DOMAIN s /\ g = [T \in DOMAIN g |-> g[T]] /\ Filtering(g, s, H)
    BY <1>4, FilterExists
  <2>2. \A T \in SUBSET DOMAIN s :
          g[T] = IF T = {} THEN <<>> ELSE IF Usable(s[Max(T)])
                                            THEN Append(g[T \ {Max(T)}], s[Max(T)])
                                            ELSE g[T \ {Max(T)}]
    BY <1>5, <2>1 DEF Filtering
  <2>3. Filters(g)
    BY <2>1, <2>2
  <2> QED BY <2>3
<1>7. Filters(fold)
  <2> HIDE DEF Filters
  <2> QED BY <1>6
<1>8. Filtering(fold, s, H)
  <2> HIDE DEF fold
  <2> QED BY <1>5, <1>7 DEF Filtering
<1> HIDE DEF fold
<1>9. fold[DOMAIN s] \in Seq(A) /\ SameElements(fold[DOMAIN s], s, H \intersect DOMAIN s)
  <2> HIDE DEF Filters, H
  <2> QED BY <1>4, <1>8, FilterKeeps
<1> QED BY <1>1, <1>9 DEF H, s, SameElements
-----------------------------------------------------------------------------
(* The numbers *)

LEMMA Quotient == \A a \in Nat, b \in Nat \ {0} :
   /\ a \div b \in Nat /\ (a \div b) * b <= a /\ a < (a \div b) * b + b
OBVIOUS

LEMMA Products == \A m, n \in Nat, b \in Nat : m <= n => m * b <= n * b
OBVIOUS

LEMMA CeilDivExact ==
  ASSUME NEW a \in Nat \ {0}, NEW b \in Nat \ {0}
  PROVE  /\ CeilDiv(a, b) \in Nat \ {0}
         /\ \A n \in Nat : n * b >= a <=> n >= CeilDiv(a, b)
<1> DEFINE c == CeilDiv(a, b)
<1>1. c \in Nat /\ c * b <= a + b - 1 /\ a + b - 1 < c * b + b
  BY Quotient DEF CeilDiv
<1> HIDE DEF c
<1>2. c * b >= a /\ c * b \in Nat
  BY <1>1
<1>3. c # 0
  BY <1>2
<1>4. ASSUME NEW n \in Nat, n >= c PROVE n * b >= a
  <2>1. c * b <= n * b /\ n * b \in Nat
    BY <1>1, <1>4, Products
  <2> QED BY <1>2, <2>1
<1>5. ASSUME NEW n \in Nat, n < c PROVE n * b < a
  <2>1. (n + 1) * b <= c * b /\ n * b \in Nat
    BY <1>1, <1>5, Products
  <2>2. (n + 1) * b = n * b + b
    OBVIOUS
  <2> QED BY <1>1, <2>1, <2>2
<1>6. \A n \in Nat : n * b >= a <=> n >= c
  BY <1>1, <1>4, <1>5
<1> QED BY <1>1, <1>3, <1>6 DEF c

\* Fractions.
LEMMA LeastFraction ==
  ASSUME NEW a \in Nat, NEW b \in Nat, NEW c \in Nat,
         NEW p \in Nat \ {0}, NEW q \in Nat \ {0}, NEW r \in Nat \ {0},
         a * q <= b * p, b * r <= c * q
  PROVE  a * r <= c * p
<1>1. (a * q) * r <= (b * p) * r /\ (b * r) * p <= (c * q) * p
  BY Products
<1>2. (b * p) * r = (b * r) * p /\ (a * q) * r = (a * r) * q /\ (c * q) * p = (c * p) * q
  OBVIOUS
<1>3. (a * r) * q <= (c * p) * q
  <2>1. (a * q) * r \in Nat /\ (b * p) * r \in Nat /\ (c * q) * p \in Nat
    OBVIOUS
  <2> QED BY <1>1, <1>2, <2>1
<1>4. ASSUME a * r > c * p PROVE FALSE
  <2>1. a * r \in Nat /\ c * p \in Nat
    OBVIOUS
  <2>2. (c * p + 1) * q <= (a * r) * q
    BY <1>4, <2>1, Products
  <2>3. (c * p + 1) * q = (c * p) * q + q /\ (c * p) * q \in Nat
    BY <2>1
  <2> QED BY <1>3, <2>1, <2>2, <2>3
<1>5. a * r \in Nat /\ c * p \in Nat
  OBVIOUS
<1> QED BY <1>4, <1>5

-----------------------------------------------------------------------------
(* Policies *)

\* Where there are entries, their policies may be looked up.
Entries(endpoints) ==
  /\ DOMAIN endpoints = 1..Len(endpoints) /\ Len(endpoints) \in Nat
  /\ \A i \in DOMAIN endpoints : endpoints[i].policy \in Policy

LEMMA PolicyFound ==
  ASSUME NEW endpoints, Entries(endpoints), NEW method
  PROVE  /\ EndpointPolicyIn(endpoints, method) \in Policy \union {NoPolicy}
         /\ EndpointPolicyIn(endpoints, method) = NoPolicy
              <=> \A i \in DOMAIN endpoints : method \notin endpoints[i].methods
<1> DEFINE I == {i \in 1..Len(endpoints) : method \in endpoints[i].methods}
           found == IF I # {} THEN Min(I) ELSE 0
<1>1. EndpointPolicyIn(endpoints, method) = IF found = 0 THEN NoPolicy ELSE endpoints[found].policy
  BY DEF EndpointPolicyIn, SelectInSeq
<1>2. I \subseteq Nat /\ I \subseteq DOMAIN endpoints /\ 0 \notin I
  BY DEF Entries
<1>3. CASE I = {}
  BY <1>1, <1>3 DEF Entries
<1>4. CASE I # {}
  <2>1. Min(I) \in I
    <3> HIDE DEF I
    <3> QED BY <1>2, <1>4, LeastOfSome
  <2>2. EndpointPolicyIn(endpoints, method) = endpoints[Min(I)].policy
    <3> HIDE DEF I
    <3> QED BY <1>1, <1>2, <1>4, <2>1
  <2>3. endpoints[Min(I)].policy \in Policy /\ NoPolicy \notin Policy
    BY <1>2, <2>1, RateLimiterAssumption DEF Entries
  <2> QED BY <1>2, <1>4, <2>1, <2>2, <2>3
<1> QED BY <1>3, <1>4

LEMMA EndpointPolicies ==
  \A m : EndpointPolicy(m) \in Policy \union {NoPolicy}
<1>1. Entries(Endpoints)
  <2> DEFINE E == [methods: SUBSET Methods, policy: Policy]
  <2>1. Endpoints \in Seq(E)
    BY RateLimiterAssumption
  <2>2. \A e \in E : e.policy \in Policy
    OBVIOUS
  <2> HIDE DEF E
  <2>3. /\ DOMAIN Endpoints = 1..Len(Endpoints) /\ Len(Endpoints) \in Nat
        /\ \A i \in DOMAIN Endpoints : Endpoints[i] \in E
    BY <2>1
  <2> QED BY <2>2, <2>3 DEF Entries
<1> QED BY <1>1, PolicyFound DEF EndpointPolicy

LEMMA PoliciesLoad == PoliciesSound
<1>1. ASSUME NEW raw \in [limit: RawNumbers, windowMs: RawNumbers, algorithm: RawAlgorithms],
             NEW policy \in {IpPolicy, UserPolicy}
      PROVE  PolicyFromEnvironment(raw, policy) \in Policy
  <2>1. policy \in Policy
    BY RateLimiterAssumption
  <2>2. ASSUME NEW n \in RawNumbers, NEW fallback \in Nat \ {0}
        PROVE  PositiveInteger(n, fallback) \in Nat \ {0}
    BY DEF RawNumbers, PositiveInteger, IsPositive
  <2>3. AlgorithmValue(raw.algorithm, policy.algorithm) \in Algorithms
    BY <2>1 DEF AlgorithmValue, Policy
  <2>4. /\ PositiveInteger(raw.limit, policy.limit) \in Nat \ {0}
        /\ PositiveInteger(raw.windowMs, policy.windowMs) \in Nat \ {0}
    BY <2>1, <2>2 DEF Policy
  <2> QED BY <2>1, <2>3, <2>4 DEF PolicyFromEnvironment, Policy
<1>2. ASSUME NEW e1 \in RawEndpoints, NEW e2 \in RawEndpoints
      PROVE  LET endpoints == ParseEndpointPolicies(<<e1, e2>>) IN
             /\ \A i \in DOMAIN endpoints : endpoints[i].policy \in Policy
             /\ \A e \in {e1, e2} :
                  e.object /\ PositiveInteger(e.limit, 0) * PositiveInteger(e.windowMs, 0) > 0
                    => \A m \in e.methods : EndpointPolicyIn(endpoints, m) # NoPolicy
  <2> DEFINE entries == <<e1, e2>>
             usable == Filtered(entries, Usable)
             endpoints == ParseEndpointPolicies(entries)
  <2>1. /\ entries \in Seq(RawEndpoints) /\ DOMAIN entries = {1, 2}
        /\ entries[1] = e1 /\ entries[2] = e2
    OBVIOUS
  <2> HIDE DEF entries
  <2>2. /\ usable \in Seq(RawEndpoints)
        /\ \A j \in DOMAIN usable : Usable(usable[j])
        /\ \A i \in DOMAIN entries : Usable(entries[i]) =>
             \E j \in DOMAIN usable : usable[j] = entries[i]
    <3>1. /\ usable \in Seq(RawEndpoints)
          /\ \A j \in DOMAIN usable : \E i \in DOMAIN entries :
               usable[j] = entries[i] /\ Usable(entries[i])
          /\ \A i \in DOMAIN entries : Usable(entries[i]) =>
               \E j \in DOMAIN usable : usable[j] = entries[i]
      BY <2>1, UsableKept
    <3> QED BY <3>1
  <2>3. endpoints = [i \in DOMAIN usable |->
          [methods |-> usable[i].methods,
           policy |-> [limit |-> usable[i].limit.n, windowMs |-> usable[i].windowMs.n,
                       algorithm |-> AlgorithmValue(usable[i].algorithm, "token-bucket"),
                       scope |-> IF usable[i].scope = "ip" THEN "ip" ELSE "user"]]]
    BY DEF ParseEndpointPolicies
  <2> HIDE DEF usable, endpoints
  <2>4. DOMAIN usable = 1..Len(usable) /\ Len(usable) \in Nat
    BY <2>2
  <2>5. ASSUME NEW i \in DOMAIN endpoints
        PROVE  endpoints[i].policy \in Policy /\ endpoints[i].methods = usable[i].methods
    <3>1. usable[i] \in RawEndpoints /\ Usable(usable[i]) /\ i \in DOMAIN usable
      BY <2>2, <2>3, <2>4
    <3>2. usable[i].limit.n \in Nat \ {0} /\ usable[i].windowMs.n \in Nat \ {0}
      BY <3>1 DEF RawEndpoints, RawNumbers, Usable, IsPositive
    <3>3. AlgorithmValue(usable[i].algorithm, "token-bucket") \in Algorithms
      BY DEF AlgorithmValue, Algorithms
    <3> QED BY <2>3, <3>1, <3>2, <3>3 DEF Policy
  <2>6. /\ DOMAIN endpoints = 1..Len(endpoints) /\ Len(endpoints) \in Nat
        /\ DOMAIN endpoints = DOMAIN usable
    BY <2>3, <2>4
  <2>7. Entries(endpoints)
    BY <2>5, <2>6 DEF Entries
  <2>8. ASSUME NEW e \in {e1, e2}, e.object,
               PositiveInteger(e.limit, 0) * PositiveInteger(e.windowMs, 0) > 0,
               NEW m \in e.methods
        PROVE  EndpointPolicyIn(endpoints, m) # NoPolicy
    <3>1. IsPositive(e.limit) /\ IsPositive(e.windowMs)
      <4>1. IsPositive(e.limit) \/ PositiveInteger(e.limit, 0) = 0
        BY DEF PositiveInteger
      <4>2. IsPositive(e.windowMs) \/ PositiveInteger(e.windowMs, 0) = 0
        BY DEF PositiveInteger
      <4>3. PositiveInteger(e.limit, 0) \in Nat /\ PositiveInteger(e.windowMs, 0) \in Nat
        <5>1. e.limit \in RawNumbers /\ e.windowMs \in RawNumbers
          BY DEF RawEndpoints
        <5> QED BY <5>1 DEF PositiveInteger, IsPositive, RawNumbers
      <4> QED BY <2>8, <4>1, <4>2, <4>3
    <3>2. Usable(e)
      BY <2>8, <3>1 DEF Usable
    <3>3. PICK i \in DOMAIN entries : entries[i] = e
      BY <2>1
    <3>4. PICK j \in DOMAIN usable : usable[j] = e
      BY <2>2, <3>2, <3>3
    <3>5. j \in DOMAIN endpoints /\ m \in endpoints[j].methods
      BY <2>5, <2>6, <2>8, <3>4
    <3> QED BY <2>7, <3>5, PolicyFound
  <2> QED BY <2>5, <2>8 DEF entries, endpoints
<1> QED BY <1>1, <1>2 DEF PoliciesSound

-----------------------------------------------------------------------------
(* A window, its policy and what was admitted under it                       *)

\* The admissions T in order, up to time t, as many in a window as allowed.
Spaced(T, p, t) ==
  /\ Sorted(T)
  /\ \A i \in DOMAIN T : T[i] <= t
  /\ \A i \in DOMAIN T : i > p.limit => T[i] - T[i - p.limit] >= p.windowMs

\* r are the last of T, those that are still in the window at time t.
Recently(r, T, p, t) ==
  /\ Len(r) <= Len(T) /\ Len(r) <= p.limit
  /\ \A i \in 1..Len(r) : r[i] = T[Len(T) - Len(r) + i] /\ r[i] > t - p.windowMs
  /\ \A i \in 1..(Len(T) - Len(r)) : T[i] <= t - p.windowMs

\* What the state of a window remembers at time t.
WindowFollows(w, T, p, t) ==
  \/ /\ w.present
     /\ Len(w.timestamps) <= Len(T) /\ Len(w.timestamps) <= p.limit /\ w.lastSeen <= t
     /\ \A i \in 1..Len(w.timestamps) : w.timestamps[i] = T[Len(T) - Len(w.timestamps) + i]
     /\ \A i \in 1..(Len(T) - Len(w.timestamps)) : T[i] <= w.lastSeen - p.windowMs
     /\ \A i \in DOMAIN T : T[i] <= w.lastSeen
  \/ ~w.present /\ \A i \in DOMAIN T : T[i] <= t - p.windowMs

WindowState(A) == [present: {TRUE}, timestamps: Seq(A), lastSeen: A] \union {NoState}

LEMMA RememberedWindow ==
  ASSUME NEW A, NEW w \in WindowState(A), w.present
  PROVE  w.timestamps \in Seq(A) /\ w.lastSeen \in A
<1> DEFINE R == [present: {TRUE}, timestamps: Seq(A), lastSeen: A]
<1>1. w \in R \/ w = NoState
  BY DEF WindowState
<1>2. ~NoState.present
  BY DEF NoState
<1>3. w \in R
  <2> HIDE DEF R
  <2> QED BY <1>1, <1>2
<1> QED BY <1>3

LEMMA RecentFollows ==
  ASSUME NEW A \in SUBSET Int, NEW p \in Policy, NEW T \in Seq(A), NEW t \in Int,
         NEW w \in WindowState(A), WindowFollows(w, T, p, t), Spaced(T, p, t)
  PROVE  Recent(w, p, t) \in Seq(A) /\ Recently(Recent(w, p, t), T, p, t)
<1> DEFINE r == Recent(w, p, t)
           n == Len(T)
<1>1. p.windowMs \in Nat \ {0} /\ p.limit \in Nat \ {0}
  BY DEF Policy
<1>2. DOMAIN T = 1..n /\ n \in Nat /\ \A i \in 1..n : T[i] \in Int
  <2>1. DOMAIN T = 1..n /\ n \in Nat /\ \A i \in 1..n : T[i] \in A
    OBVIOUS
  <2>2. \A x \in A : x \in Int
    OBVIOUS
  <2> QED BY <2>1, <2>2
<1>3. CASE ~w.present
  <2>1. r = <<>>
    BY <1>3 DEF Recent
  <2>2. \A i \in 1..n : T[i] <= t - p.windowMs
    BY <1>2, <1>3 DEF WindowFollows
  <2>3. <<>> \in Seq(A) /\ Recently(<<>>, T, p, t)
    BY <1>1, <1>2, <2>2 DEF Recently
  <2> QED BY <2>1, <2>3
<1>4. CASE w.present
  <2> DEFINE s == w.timestamps
             k == Len(s)
  <2>1. s \in Seq(A) /\ w.lastSeen \in A
    BY <1>4, RememberedWindow
  <2>2. s \in Seq(A) /\ w.lastSeen \in Int /\ k \in Nat /\ DOMAIN s = 1..k
    <3>1. k \in Nat /\ DOMAIN s = 1..k
      BY <2>1
    <3>2. w.lastSeen \in Int
      BY <2>1
    <3> QED BY <2>1, <3>1, <3>2
  <2>3. /\ k <= n /\ k <= p.limit /\ w.lastSeen <= t
        /\ \A i \in 1..k : s[i] = T[n - k + i]
        /\ \A i \in 1..(n - k) : T[i] <= w.lastSeen - p.windowMs
    BY <1>4 DEF WindowFollows
  <2> HIDE DEF s, k, n
  <2>4. Sorted(s)
    <3> SUFFICES ASSUME NEW i \in 1..k, NEW j \in 1..k, i <= j PROVE s[i] <= s[j]
      BY <2>2 DEF Sorted
    <3>1. n - k + i \in 1..n /\ n - k + j \in 1..n /\ n - k + i <= n - k + j
      BY <1>2, <2>2, <2>3
    <3> QED BY <1>2, <2>3, <3>1 DEF Spaced, Sorted
  <2>5. r \in Seq(A) /\ \E q \in 0..k : Suffix(r, s, q, t - p.windowMs)
    BY <1>1, <1>4, <2>2, <2>4, RecentIsSuffix DEF s, k
  <2> HIDE DEF r
  <2>6. PICK q \in 0..k : Suffix(r, s, q, t - p.windowMs)
    BY <2>5
  <2>7. /\ Len(r) = k - q
        /\ \A i \in 1..(k - q) : r[i] = s[q + i]
        /\ \A i \in 1..q : s[i] <= t - p.windowMs
        /\ \A i \in (q + 1)..k : s[i] > t - p.windowMs
    BY <2>6 DEF Suffix, k
  <2>8. ASSUME NEW i \in 1..(k - q) PROVE r[i] = T[n - (k - q) + i] /\ r[i] > t - p.windowMs
    <3>1. q + i \in 1..k /\ q + i \in (q + 1)..k /\ n - k + (q + i) = n - (k - q) + i
      BY <1>2, <2>2
    <3> QED BY <2>3, <2>7, <3>1
  <2>9. ASSUME NEW i \in 1..(n - (k - q)) PROVE T[i] <= t - p.windowMs
    <3>1. i \in 1..n /\ T[i] \in Int
      BY <1>2, <2>2, <2>3
    <3>2. CASE i <= n - k
      <4>1. T[i] <= w.lastSeen - p.windowMs
        BY <1>2, <2>2, <2>3, <3>2
      <4> QED BY <1>1, <2>2, <2>3, <3>1, <4>1
    <3>3. CASE i > n - k
      <4>1. i - (n - k) \in 1..q /\ i - (n - k) \in 1..k /\ n - k + (i - (n - k)) = i
        BY <1>2, <2>2, <2>3, <3>3
      <4> QED BY <2>3, <2>7, <4>1
    <3> QED BY <1>2, <2>2, <3>1, <3>2, <3>3
  <2>10. k - q <= n /\ k - q <= p.limit
    BY <1>1, <1>2, <2>2, <2>3
  <2>11. Recently(r, T, p, t)
    BY <2>7, <2>8, <2>9, <2>10 DEF Recently, n
  <2> QED BY <2>5, <2>11 DEF r
<1> QED BY <1>3, <1>4

\* A window after a request.
LEMMA WindowStep ==
  ASSUME NEW A \in SUBSET Int, NEW p \in Policy, NEW T \in Seq(A), NEW t \in A,
         NEW w \in WindowState(A), WindowFollows(w, T, p, t), Spaced(T, p, t)
  PROVE  LET a == SlidingWindow(w, p, t)
             N == IF a.allowed THEN Append(T, t) ELSE T
         IN /\ a.state \in [present: {TRUE}, timestamps: Seq(A), lastSeen: A]
            /\ WindowFollows(a.state, N, p, t) /\ Spaced(N, p, t)
<1> DEFINE r == Recent(w, p, t)
           a == SlidingWindow(w, p, t)
           n == Len(T)
           k == Len(r)
<1>1. p.windowMs \in Nat \ {0} /\ p.limit \in Nat \ {0}
  BY DEF Policy
<1>2. DOMAIN T = 1..n /\ n \in Nat /\ \A i \in 1..n : T[i] \in Int
  <2>1. DOMAIN T = 1..n /\ n \in Nat /\ \A i \in 1..n : T[i] \in A
    OBVIOUS
  <2>2. \A x \in A : x \in Int
    OBVIOUS
  <2> QED BY <2>1, <2>2
<1>3. r \in Seq(A) /\ Recently(r, T, p, t)
  BY RecentFollows
<1>4. /\ a.allowed = (k < p.limit)
      /\ a.state = [present |-> TRUE, timestamps |-> IF k < p.limit THEN Append(r, t) ELSE r,
                    lastSeen |-> t]
  BY DEF SlidingWindow
<1> HIDE DEF r, a, n
<1>5. k \in Nat
  BY <1>3
<1>6. /\ k <= n /\ k <= p.limit
      /\ \A i \in 1..k : r[i] = T[n - k + i]
      /\ \A i \in 1..(n - k) : T[i] <= t - p.windowMs
  BY <1>3 DEF Recently, n
<1> HIDE DEF k
<1>7. \A i \in DOMAIN T : T[i] <= t
  BY DEF Spaced
<1>8. CASE ~ (k < p.limit)
  <2>1. ~a.allowed /\ a.state = [present |-> TRUE, timestamps |-> r, lastSeen |-> t]
    BY <1>4, <1>8
  <2>2. WindowFollows(a.state, T, p, t)
    <3>1. t <= t
      OBVIOUS
    <3> QED BY <1>6, <1>7, <2>1, <3>1 DEF WindowFollows, n, k
  <2> QED BY <1>3, <2>1, <2>2 DEF a
<1>9. CASE k < p.limit
  <2> DEFINE N == Append(T, t)
             s == Append(r, t)
  <2>1. a.allowed /\ a.state = [present |-> TRUE, timestamps |-> s, lastSeen |-> t]
    BY <1>4, <1>9
  <2>2. /\ N \in Seq(A) /\ Len(N) = n + 1 /\ DOMAIN N = 1..(n + 1)
        /\ N[n + 1] = t /\ \A i \in 1..n : N[i] = T[i]
    BY DEF n
  <2>3. /\ s \in Seq(A) /\ Len(s) = k + 1 /\ DOMAIN s = 1..(k + 1)
        /\ s[k + 1] = t /\ \A i \in 1..k : s[i] = r[i]
    BY <1>3 DEF k
  <2> HIDE DEF N, s
  <2>4. ASSUME NEW i \in 1..(k + 1) PROVE s[i] = N[(n + 1) - (k + 1) + i]
    <3>1. CASE i = k + 1
      <4>1. (n + 1) - (k + 1) + i = n + 1
        BY <1>2, <1>5, <3>1
      <4> QED BY <2>2, <2>3, <3>1, <4>1
    <3>2. CASE i # k + 1
      <4>1. i \in 1..k /\ n - k + i \in 1..n /\ (n + 1) - (k + 1) + i = n - k + i
        BY <1>2, <1>5, <1>6, <3>2
      <4> QED BY <1>6, <2>2, <2>3, <4>1
    <3> QED BY <3>1, <3>2
  <2>5. ASSUME NEW i \in 1..((n + 1) - (k + 1)) PROVE N[i] <= t - p.windowMs
    <3>1. i \in 1..(n - k) /\ i \in 1..n
      BY <1>2, <1>5
    <3> QED BY <1>6, <2>2, <3>1
  <2>6. \A i \in DOMAIN N : N[i] <= t /\ N[i] \in Int
    <3> SUFFICES ASSUME NEW i \in 1..(n + 1) PROVE N[i] <= t /\ N[i] \in Int
      BY <2>2
    <3>1. i = n + 1 \/ i \in 1..n
      BY <1>2
    <3> QED BY <1>2, <1>7, <2>2, <3>1
  <2>7. WindowFollows(a.state, N, p, t)
    <3>1. k + 1 <= n + 1 /\ k + 1 <= p.limit /\ t <= t
      BY <1>1, <1>2, <1>5, <1>6, <1>9
    <3> QED BY <2>1, <2>2, <2>3, <2>4, <2>5, <2>6, <3>1 DEF WindowFollows
  <2>8. Sorted(N)
    <3> SUFFICES ASSUME NEW i \in 1..(n + 1), NEW j \in 1..(n + 1), i <= j PROVE N[i] <= N[j]
      BY <2>2 DEF Sorted
    <3>1. CASE j = n + 1
      BY <2>2, <2>6, <3>1
    <3>2. CASE j # n + 1
      <4>1. i \in 1..n /\ j \in 1..n
        BY <1>2, <3>2
      <4> QED BY <1>2, <2>2, <4>1 DEF Spaced, Sorted
    <3> QED BY <3>1, <3>2
  <2>9. ASSUME NEW i \in 1..(n + 1), i > p.limit PROVE N[i] - N[i - p.limit] >= p.windowMs
    <3>1. i - p.limit \in 1..n /\ N[i - p.limit] = T[i - p.limit] /\ T[i - p.limit] \in Int
      <4>1. i - p.limit \in 1..n
        BY <1>1, <1>2, <2>9
      <4> QED BY <1>2, <2>2, <4>1
    <3>2. CASE i = n + 1
      <4>1. i - p.limit \in 1..(n - k)
        BY <1>1, <1>2, <1>5, <1>6, <1>9, <2>9, <3>2
      <4>2. T[i - p.limit] <= t - p.windowMs
        BY <1>6, <4>1
      <4> QED BY <1>1, <2>2, <3>1, <3>2, <4>2
    <3>3. CASE i # n + 1
      <4>1. i \in 1..n
        BY <1>2, <3>3
      <4> QED BY <1>2, <2>2, <2>9, <3>1, <4>1 DEF Spaced
    <3> QED BY <3>2, <3>3
  <2>10. Spaced(N, p, t)
    BY <2>2, <2>6, <2>8, <2>9 DEF Spaced
  <2> QED BY <2>1, <2>3, <2>7, <2>10 DEF N, a
<1> QED BY <1>8, <1>9

\* The state of a window tells when the next request is admitted.
LEMMA WindowLater ==
  ASSUME NEW p \in Policy, NEW T \in Seq(Nat), NEW t \in Nat,
         NEW w \in WindowState(Nat), WindowFollows(w, T, p, t), Spaced(T, p, t), NEW d \in Nat
  PROVE  LET a == SlidingWindow(w, p, t)
             later == SlidingWindow(a.state, p, t + d)
         IN /\ a.remaining \in Nat
            /\ ~a.allowed => /\ a.retryAfter \in Nat \ {0}
                             /\ later.allowed <=> d >= a.retryAfter
            /\ a.allowed /\ d = 0 => (later.allowed <=> a.remaining # 0)
<1> DEFINE r == Recent(w, p, t)
           a == SlidingWindow(w, p, t)
           N == IF a.allowed THEN Append(T, t) ELSE T
           l == Recent(a.state, p, t + d)
           n == Len(N)
           k == Len(r)
           m == Len(l)
           s == IF k < p.limit THEN Append(r, t) ELSE r
<1>1. p.windowMs \in Nat \ {0} /\ p.limit \in Nat \ {0}
  BY DEF Policy
<1>2. r \in Seq(Nat) /\ Recently(r, T, p, t)
  <2>1. Nat \in SUBSET Int /\ t \in Int
    OBVIOUS
  <2> QED BY <2>1, RecentFollows
<1>3. /\ a.allowed <=> k < p.limit
      /\ a.state = [present |-> TRUE, timestamps |-> s, lastSeen |-> t]
      /\ a.remaining = Max2(0, p.limit - Len(s))
      /\ ~a.allowed => a.retryAfter = Max2(1, ResetAt(s, p) - t)
      /\ SlidingWindow(a.state, p, t + d).allowed <=> m < p.limit
  <2>1. /\ a.allowed <=> k < p.limit
        /\ a.state = [present |-> TRUE, timestamps |-> s, lastSeen |-> t]
    BY DEF SlidingWindow
  <2>3. a.remaining = Max2(0, p.limit - Len(s))
    BY DEF SlidingWindow
  <2>4. a.retryAfter = IF k < p.limit THEN 0 ELSE Max2(1, ResetAt(s, p) - t)
    BY DEF SlidingWindow
  <2> HIDE DEF a, k, s
  <2>2. SlidingWindow(a.state, p, t + d).allowed <=> m < p.limit
    BY DEF SlidingWindow
  <2> QED BY <2>1, <2>2, <2>3, <2>4
<1>4. /\ N \in Seq(Nat) /\ a.state \in WindowState(Nat)
      /\ WindowFollows(a.state, N, p, t) /\ Spaced(N, p, t)
  <2>1. Nat \in SUBSET Int
    OBVIOUS
  <2>2. /\ a.state \in [present: {TRUE}, timestamps: Seq(Nat), lastSeen: Nat]
        /\ WindowFollows(a.state, N, p, t) /\ Spaced(N, p, t)
    <3> HIDE DEF a
    <3> QED BY <2>1, WindowStep DEF a
  <2>3. Append(T, t) \in Seq(Nat)
    OBVIOUS
  <2> HIDE DEF a
  <2> QED BY <2>2, <2>3 DEF WindowState
<1> HIDE DEF r, a, l, k, m, n, N
<1>5. n \in Nat /\ DOMAIN N = 1..n /\ \A i \in 1..n : N[i] \in Nat
  BY <1>4 DEF n
<1>6. WindowFollows(a.state, N, p, t + d) /\ Spaced(N, p, t + d)
  <2>1. a.state.present /\ a.state.lastSeen = t /\ t <= t + d
    BY <1>3
  <2>2. \A i \in DOMAIN N : N[i] <= t + d
    <3>1. \A i \in DOMAIN N : N[i] <= t
      BY <1>4 DEF Spaced
    <3> QED BY <1>5, <3>1
  <2> QED BY <1>4, <2>1, <2>2 DEF WindowFollows, Spaced
<1>7. l \in Seq(Nat) /\ Recently(l, N, p, t + d)
  <2>1. Nat \in SUBSET Int /\ t + d \in Int
    OBVIOUS
  <2> QED BY <1>4, <1>6, <2>1, RecentFollows DEF l
<1>8. /\ m \in Nat /\ m <= n /\ m <= p.limit
      /\ \A i \in 1..m : l[i] = N[n - m + i] /\ l[i] > (t + d) - p.windowMs
      /\ \A i \in 1..(n - m) : N[i] <= (t + d) - p.windowMs
  BY <1>7 DEF Recently, m, n
<1>9. k \in Nat /\ k <= p.limit
  BY <1>2 DEF Recently, k
<1>10. /\ Len(r) = k /\ k <= Len(T) /\ Len(T) \in Nat
       /\ \A i \in 1..k : r[i] = T[Len(T) - k + i] /\ r[i] > t - p.windowMs
       /\ \A i \in 1..(Len(T) - k) : T[i] <= t - p.windowMs
  BY <1>2 DEF Recently, k
<1>11. CASE ~a.allowed
  <2>1. ~ (k < p.limit) /\ k = p.limit /\ s = r
    BY <1>1, <1>3, <1>9, <1>11
  <2>2. N = T /\ n = Len(T)
    BY <1>11 DEF N, n
  <2>3. Head(s) = r[1] /\ r[1] = N[n - k + 1] /\ r[1] > t - p.windowMs /\ r[1] \in Nat /\ Len(s) = k
    <3>1. 1 \in 1..k /\ r # <<>>
      BY <1>1, <1>10, <2>1
    <3>2. Head(r) = r[1] /\ r[1] \in Nat
      BY <1>2, <1>10, <3>1
    <3> QED BY <1>10, <2>1, <2>2, <3>1, <3>2
  <2> DEFINE x == r[1]
  <2> HIDE DEF s, x
  <2>4. a.retryAfter = x + p.windowMs - t /\ a.retryAfter \in Nat \ {0} /\ a.remaining = 0
    <3>1. ResetAt(s, p) = x + p.windowMs /\ x \in Nat
      BY <2>3 DEF ResetAt, x
    <3>2. x > t - p.windowMs
      BY <2>3 DEF x
    <3>3. a.retryAfter = Max2(1, ResetAt(s, p) - t) /\ a.remaining = Max2(0, p.limit - Len(s))
      BY <1>3, <1>11
    <3> HIDE DEF x
    <3> QED BY <1>1, <2>1, <2>3, <3>1, <3>2, <3>3 DEF Max2
  <2>5. m < p.limit => x <= (t + d) - p.windowMs
    <3> HAVE m < p.limit
    <3>1. n - k + 1 \in 1..(n - m)
      BY <1>5, <1>8, <1>9, <1>10, <2>1, <2>2
    <3> QED BY <1>8, <2>3, <3>1 DEF x
  <2>6. ~ (m < p.limit) => x > (t + d) - p.windowMs
    <3> HAVE ~ (m < p.limit)
    <3>1. m = k /\ 1 \in 1..m /\ n - m + 1 = n - k + 1
      BY <1>1, <1>8, <1>9, <2>1
    <3> QED BY <1>8, <2>3, <3>1 DEF x
  <2>7. m < p.limit <=> d >= a.retryAfter
    <3>1. x \in Nat
      BY <2>3 DEF x
    <3> HIDE DEF x
    <3> QED BY <1>1, <2>4, <2>5, <2>6, <3>1
  <2> QED BY <1>3, <1>11, <2>4, <2>7 DEF a
<1>12. CASE a.allowed
  <2>1. k < p.limit /\ s = Append(r, t) /\ N = Append(T, t)
    BY <1>3, <1>12 DEF N
  <2>2. Len(s) = k + 1 /\ n = Len(T) + 1 /\ N[n] = t /\ \A i \in 1..Len(T) : N[i] = T[i]
    BY <1>2, <1>10, <2>1 DEF n
  <2> HIDE DEF s
  <2>3. a.remaining = p.limit - (k + 1) /\ a.remaining \in Nat
    BY <1>1, <1>3, <1>9, <2>1, <2>2 DEF Max2
  <2>4. ASSUME d = 0 PROVE m = k + 1
    <3>1. ASSUME m < k + 1 PROVE FALSE
      <4>1. n - k \in 1..(n - m) /\ n - k \in 1..n
        BY <1>5, <1>8, <1>9, <1>10, <2>2, <3>1
      <4>2. N[n - k] <= t - p.windowMs
        BY <1>8, <2>4, <4>1
      <4>3. CASE k = 0
        BY <1>1, <1>5, <2>2, <4>2, <4>3
      <4>4. CASE k # 0
        <5>1. 1 \in 1..k /\ Len(T) - k + 1 = n - k /\ n - k \in 1..Len(T)
          BY <1>9, <1>10, <2>2, <4>4
        <5>2. N[n - k] > t - p.windowMs
          BY <1>10, <2>2, <5>1
        <5> QED BY <1>1, <1>5, <4>1, <4>2, <5>2
      <4> QED BY <4>3, <4>4
    <3>2. ASSUME m > k + 1 PROVE FALSE
      <4>1. 1 \in 1..m /\ n - m + 1 \in 1..(Len(T) - k) /\ n - m + 1 \in 1..Len(T)
            /\ n - m + 1 \in 1..n
        <5>1. m \in Nat /\ k \in Nat /\ n \in Nat /\ m <= n /\ n = Len(T) + 1
          BY <1>5, <1>8, <1>9, <1>10, <2>2
        <5> QED BY <3>2, <5>1
      <4>2. N[n - m + 1] > t - p.windowMs
        BY <1>8, <2>4, <4>1
      <4>3. N[n - m + 1] <= t - p.windowMs
        BY <1>10, <2>2, <4>1
      <4> QED BY <1>1, <1>5, <4>1, <4>2, <4>3
    <3> QED BY <1>8, <1>9, <3>1, <3>2
  <2>5. d = 0 => (m < p.limit <=> a.remaining # 0)
    BY <1>1, <1>9, <2>1, <2>3, <2>4
  <2> QED BY <1>3, <1>12, <2>3, <2>5 DEF a
<1> QED BY <1>11, <1>12

-----------------------------------------------------------------------------
(* A bucket, its policy and what was admitted under it                       *)

BucketRecord(A) ==
  [present: {TRUE}, tokens: Nat, lastRefill: A, limit: Nat \ {0}, windowMs: Nat \ {0}]
BucketState(A) == BucketRecord(A) \union {NoState}

NotOverfull(b) == b.present => b.tokens <= b.limit * b.windowMs

LEMMA RememberedBucket ==
  ASSUME NEW A, NEW b \in BucketState(A), b.present
  PROVE  b \in BucketRecord(A)
<1>1. ~NoState.present
  BY DEF NoState
<1> QED BY <1>1 DEF BucketState

\* What a request finds in the bucket.
LEMMA BucketRefilled ==
  ASSUME NEW p \in Policy, NEW t \in Nat, NEW b \in BucketState(Nat), NotOverfull(b)
  PROVE  LET f == Refilled(b, p, t) IN
         /\ f \in Nat /\ f <= p.limit * p.windowMs
         /\ b.present /\ b.limit = p.limit /\ b.windowMs = p.windowMs
              => f <= b.tokens + Max2(0, t - b.lastRefill) * p.limit
<1> DEFINE full == p.limit * p.windowMs
           gain == Max2(0, t - b.lastRefill) * p.limit
           same == b.present /\ b.limit = p.limit /\ b.windowMs = p.windowMs
<1>1. p.limit \in Nat /\ p.windowMs \in Nat /\ full \in Nat
  BY DEF Policy
<1>2. Refilled(b, p, t) = IF same THEN Min2(full, b.tokens + gain) ELSE full
  BY DEF Refilled
<1>3. ASSUME same PROVE b.tokens \in Nat /\ gain \in Nat
  <2>1. b.tokens \in Nat /\ b.lastRefill \in Nat
    BY <1>3, RememberedBucket DEF BucketRecord
  <2>2. Max2(0, t - b.lastRefill) \in Nat
    BY <2>1 DEF Max2
  <2> QED BY <1>1, <2>1, <2>2
<1>4. CASE ~same
  <2>1. Refilled(b, p, t) = full
    <3> HIDE DEF full, gain, same
    <3> QED BY <1>2, <1>4
  <2>2. full <= full
    BY <1>1
  <2> HIDE DEF full, gain
  <2> QED BY <1>1, <1>4, <2>1, <2>2 DEF full
<1>5. CASE same
  <2>1. Refilled(b, p, t) = Min2(full, b.tokens + gain)
    <3> HIDE DEF full, gain, same
    <3> QED BY <1>2, <1>5
  <2>2. b.tokens \in Nat /\ gain \in Nat
    BY <1>3, <1>5
  <2>3. /\ Refilled(b, p, t) \in Nat /\ Refilled(b, p, t) <= full
        /\ Refilled(b, p, t) <= b.tokens + gain
    <3> HIDE DEF full, gain
    <3> QED BY <1>1, <2>1, <2>2 DEF Min2
  <2> QED BY <2>3
<1> QED BY <1>4, <1>5

\* What it leaves.
LEMMA BucketTaken ==
  ASSUME NEW p \in Policy, NEW A \in SUBSET Nat, NEW t \in A, NEW b \in BucketState(Nat),
         NotOverfull(b)
  PROVE  LET a == TokenBucket(b, p, t)
             f == Refilled(b, p, t)
         IN /\ a.allowed <=> f >= p.windowMs
            /\ a.state = [present |-> TRUE,
                          tokens |-> IF f >= p.windowMs THEN f - p.windowMs ELSE f,
                          lastRefill |-> t, limit |-> p.limit, windowMs |-> p.windowMs]
            /\ a.state \in BucketRecord(A) /\ NotOverfull(a.state)
<1> DEFINE a == TokenBucket(b, p, t)
           f == Refilled(b, p, t)
           left == IF f >= p.windowMs THEN f - p.windowMs ELSE f
<1>1. p.limit \in Nat \ {0} /\ p.windowMs \in Nat \ {0}
  BY DEF Policy
<1>2. f \in Nat /\ f <= p.limit * p.windowMs
  BY BucketRefilled
<1>3. /\ a.allowed <=> f >= p.windowMs
      /\ a.state = [present |-> TRUE, tokens |-> left,
                    lastRefill |-> t, limit |-> p.limit, windowMs |-> p.windowMs]
  BY DEF TokenBucket
<1>4. left \in Nat /\ left <= p.limit * p.windowMs
  <2> HIDE DEF f
  <2>1. p.limit * p.windowMs \in Nat
    BY <1>1
  <2> QED BY <1>1, <1>2, <2>1
<1> HIDE DEF left, f, a
<1>5. a.state \in BucketRecord(A) /\ NotOverfull(a.state)
  BY <1>1, <1>3, <1>4 DEF BucketRecord, NotOverfull
<1> QED BY <1>3, <1>5 DEF left, f, a

\* The state of a bucket tells when the next request is admitted.
LEMMA BucketLater ==
  ASSUME NEW p \in Policy, NEW t \in Nat, NEW b \in BucketState(Nat), NotOverfull(b), NEW d \in Nat
  PROVE  LET a == TokenBucket(b, p, t)
             later == TokenBucket(a.state, p, t + d)
         IN /\ a.remaining \in Nat
            /\ ~a.allowed => /\ a.retryAfter \in Nat \ {0}
                             /\ later.allowed <=> d >= a.retryAfter
            /\ a.allowed /\ d = 0 => (later.allowed <=> a.remaining # 0)
<1> DEFINE a == TokenBucket(b, p, t)
           f == Refilled(b, p, t)
           left == IF f >= p.windowMs THEN f - p.windowMs ELSE f
           g == Refilled(a.state, p, t + d)
           full == p.limit * p.windowMs
<1>1. p.limit \in Nat \ {0} /\ p.windowMs \in Nat \ {0}
  BY DEF Policy
<1>2. full \in Nat /\ full >= p.windowMs
  <2>1. 1 * p.windowMs <= full
    BY <1>1, Products
  <2> QED BY <1>1, <2>1
<1>3. f \in Nat /\ f <= full
  BY BucketRefilled
<1>4. /\ a.allowed <=> f >= p.windowMs
      /\ a.state = [present |-> TRUE, tokens |-> left,
                    lastRefill |-> t, limit |-> p.limit, windowMs |-> p.windowMs]
      /\ a.state \in BucketRecord(Nat) /\ NotOverfull(a.state)
  BY BucketTaken
<1>5. a.remaining = left \div p.windowMs
  BY DEF TokenBucket
<1>6. a.retryAfter = IF f >= p.windowMs THEN 0
                     ELSE Max2(1, CeilDiv(p.windowMs - left, p.limit))
  BY DEF TokenBucket
<1> HIDE DEF a, f
<1>7. left \in Nat /\ left <= full
  <2> HIDE DEF full
  <2> QED BY <1>1, <1>2, <1>3
<1> HIDE DEF left
<1>8. g = Min2(full, left + d * p.limit)
  <2>1. /\ a.state.present /\ a.state.limit = p.limit /\ a.state.windowMs = p.windowMs
        /\ a.state.tokens = left /\ a.state.lastRefill = t
    BY <1>4
  <2>2. Max2(0, (t + d) - t) = d
    BY DEF Max2
  <2> QED BY <2>1, <2>2 DEF Refilled
<1>9. TokenBucket(a.state, p, t + d).allowed <=> g >= p.windowMs
  <2>1. a.state \in BucketState(Nat) /\ t + d \in Nat /\ Nat \in SUBSET Nat
    BY <1>4 DEF BucketState
  <2> HIDE DEF full
  <2> QED BY <1>4, <2>1, BucketTaken
<1>10. g >= p.windowMs <=> left + d * p.limit >= p.windowMs
  <2> DEFINE more == d * p.limit
  <2>1. more \in Nat
    BY <1>1
  <2> HIDE DEF more, full
  <2> QED BY <1>1, <1>2, <1>7, <1>8, <2>1 DEF Min2, more
<1> HIDE DEF g, full
<1>11. a.remaining \in Nat
  BY <1>1, <1>5, <1>7, Quotient
<1>12. CASE ~a.allowed
  <2>1. ~ (f >= p.windowMs) /\ left = f /\ p.windowMs - left \in Nat \ {0}
    BY <1>1, <1>3, <1>4, <1>12 DEF left
  <2> DEFINE c == CeilDiv(p.windowMs - left, p.limit)
  <2>2. c \in Nat \ {0} /\ (d * p.limit >= p.windowMs - left <=> d >= c)
    BY <1>1, <2>1, CeilDivExact
  <2>3. a.retryAfter = c
    <3>1. a.retryAfter = Max2(1, c)
      BY <1>6, <2>1
    <3> HIDE DEF c
    <3> QED BY <2>2, <3>1 DEF Max2
  <2>4. left + d * p.limit >= p.windowMs <=> d * p.limit >= p.windowMs - left
    <3> DEFINE more == d * p.limit
    <3>1. more \in Nat
      BY <1>1
    <3> HIDE DEF more
    <3> QED BY <1>1, <1>7, <3>1 DEF more
  <2> HIDE DEF c
  <2> QED BY <1>9, <1>10, <1>11, <1>12, <2>2, <2>3, <2>4 DEF a
<1>13. CASE a.allowed
  <2>1. ASSUME d = 0 PROVE left >= p.windowMs <=> a.remaining # 0
    <3>1. /\ a.remaining \in Nat /\ a.remaining * p.windowMs <= left
          /\ left < a.remaining * p.windowMs + p.windowMs
      BY <1>1, <1>5, <1>7, Quotient
    <3>2. a.remaining = 0 => a.remaining * p.windowMs = 0
      BY <1>1
    <3>3. a.remaining # 0 => 1 * p.windowMs <= a.remaining * p.windowMs
      BY <1>1, <3>1, Products
    <3> DEFINE x == a.remaining * p.windowMs
    <3>4. x \in Nat
      BY <1>1, <3>1
    <3> HIDE DEF x
    <3> QED BY <1>1, <1>7, <3>1, <3>2, <3>3, <3>4 DEF x
  <2>2. d = 0 => left + d * p.limit = left
    BY <1>1, <1>7
  <2> QED BY <1>9, <1>10, <1>11, <1>13, <2>1, <2>2 DEF a
<1> QED BY <1>12, <1>13

\* Any i admissions of late took no more than the capacity and what was refilled.
Burst(T, p) ==
  \A i, j \in DOMAIN T :
    i <= j => (j - i + 1) * p.windowMs <= (p.windowMs + T[j] - T[i]) * p.limit

\* What is in the bucket was not taken by the admissions; a bucket that was pruned
\* would be full again.
BucketFollows(b, T, p, t) ==
  \/ /\ b.present /\ b.limit = p.limit /\ b.windowMs = p.windowMs /\ b.lastRefill <= t
     /\ \A i \in DOMAIN T :
          b.tokens + (Len(T) - i + 1) * p.windowMs
            <= p.limit * p.windowMs + (b.lastRefill - T[i]) * p.limit
  \/ /\ ~b.present
     /\ \A i \in DOMAIN T : (Len(T) - i + 1) * p.windowMs <= (t - T[i]) * p.limit

LEMMA Elapsed == \A x, y, z, c \in Int : (z - x) * c = (y - x) * c + (z - y) * c
OBVIOUS

LEMMA BucketCovers ==
  ASSUME NEW p \in Policy, NEW T \in Seq(Nat), NEW t \in Nat, NEW b \in BucketState(Nat),
         NotOverfull(b), BucketFollows(b, T, p, t), NEW i \in DOMAIN T
  PROVE  Refilled(b, p, t) + (Len(T) - i + 1) * p.windowMs
           <= p.limit * p.windowMs + (t - T[i]) * p.limit
<1> DEFINE f == Refilled(b, p, t)
           full == p.limit * p.windowMs
           many == (Len(T) - i + 1) * p.windowMs
           since == (t - T[i]) * p.limit
<1>1. p.limit \in Nat \ {0} /\ p.windowMs \in Nat \ {0}
  BY DEF Policy
<1>2. T[i] \in Nat /\ i \in Nat /\ Len(T) \in Nat
  OBVIOUS
<1>3. f \in Nat /\ f <= full
  BY BucketRefilled
<1>4. full \in Int /\ many \in Int /\ since \in Int
  <2>1. full \in Int
    BY <1>1
  <2>2. many \in Int
    BY <1>1, <1>2
  <2>3. since \in Int
    BY <1>1, <1>2
  <2> QED BY <2>1, <2>2, <2>3
<1>5. CASE ~b.present
  <2>1. many <= since
    BY <1>5 DEF BucketFollows
  <2> HIDE DEF f, full, many, since
  <2>2. f + many <= full + since
    BY <1>3, <1>4, <2>1
  <2> QED BY <2>2 DEF f, full, many, since
<1>6. CASE b.present
  <2> DEFINE before == (b.lastRefill - T[i]) * p.limit
             gain == (t - b.lastRefill) * p.limit
  <2>1. /\ b.limit = p.limit /\ b.windowMs = p.windowMs /\ b.lastRefill <= t
        /\ b.tokens + many <= full + before
    BY <1>6 DEF BucketFollows
  <2>2. b.tokens \in Nat /\ b.lastRefill \in Nat
    BY <1>6, RememberedBucket DEF BucketRecord
  <2>3. f <= b.tokens + gain
    <3>1. Max2(0, t - b.lastRefill) = t - b.lastRefill
      BY <2>1, <2>2 DEF Max2
    <3>2. f <= b.tokens + Max2(0, t - b.lastRefill) * p.limit
      BY <1>6, <2>1, BucketRefilled
    <3> QED BY <3>1, <3>2
  <2>4. since = before + gain /\ before \in Int /\ gain \in Int
    <3>1. T[i] \in Int /\ b.lastRefill \in Int /\ t \in Int /\ p.limit \in Int
      BY <1>1, <1>2, <2>2
    <3>2. since = before + gain
      BY <3>1, Elapsed
    <3>3. before \in Int
      BY <3>1
    <3>4. gain \in Int
      BY <3>1
    <3> QED BY <3>2, <3>3, <3>4
  <2> HIDE DEF f, full, many, since, before, gain
  <2>5. f + many <= full + since
    BY <1>3, <1>4, <2>1, <2>2, <2>3, <2>4
  <2> QED BY <2>5 DEF f, full, many, since
<1> QED BY <1>5, <1>6

\* A bucket after a request.
LEMMA BucketStep ==
  ASSUME NEW p \in Policy, NEW T \in Seq(Nat), NEW t \in Nat, NEW b \in BucketState(Nat),
         NotOverfull(b), BucketFollows(b, T, p, t), Burst(T, p)
  PROVE  LET a == TokenBucket(b, p, t)
             N == IF a.allowed THEN Append(T, t) ELSE T
         IN BucketFollows(a.state, N, p, t) /\ Burst(N, p)
<1> DEFINE a == TokenBucket(b, p, t)
           f == Refilled(b, p, t)
           W == p.windowMs
           L == p.limit
           n == Len(T)
           left == IF f >= W THEN f - W ELSE f
<1>1. L \in Nat \ {0} /\ W \in Nat \ {0}
  BY DEF Policy
<1>2. f \in Nat /\ f <= L * W
  BY BucketRefilled
<1>3. /\ a.allowed <=> f >= W
      /\ a.state = [present |-> TRUE, tokens |-> left, lastRefill |-> t,
                    limit |-> L, windowMs |-> W]
  <2>1. Nat \in SUBSET Nat
    OBVIOUS
  <2> QED BY <2>1, BucketTaken
<1>4. \A i \in DOMAIN T : f + (n - i + 1) * W <= L * W + (t - T[i]) * L
  BY BucketCovers
<1>5. DOMAIN T = 1..n /\ n \in Nat /\ \A i \in 1..n : T[i] \in Nat
  OBVIOUS
<1> HIDE DEF a, f, n
<1>6. /\ a.state.present /\ a.state.limit = L /\ a.state.windowMs = W /\ a.state.lastRefill = t
      /\ a.state.tokens = left /\ t <= t
  BY <1>3
<1>7. CASE ~a.allowed
  <2>1. left = f
    BY <1>3, <1>7
  <2>2. BucketFollows(a.state, T, p, t)
    BY <1>4, <1>6, <2>1 DEF BucketFollows, n
  <2> QED BY <1>7, <2>2 DEF a
<1>8. CASE a.allowed
  <2> DEFINE N == Append(T, t)
  <2>1. f >= W /\ left = f - W
    BY <1>3, <1>8
  <2>2. /\ Len(N) = n + 1 /\ DOMAIN N = 1..(n + 1)
        /\ N[n + 1] = t /\ \A i \in 1..n : N[i] = T[i]
    BY DEF n
  <2> HIDE DEF N, left, W, L
  <2>3. ASSUME NEW i \in 1..(n + 1)
        PROVE  left + ((n + 1) - i + 1) * W <= L * W + (t - N[i]) * L
    <3>1. CASE i = n + 1
      <4>1. ((n + 1) - i + 1) * W = W /\ (t - N[i]) * L = 0
        BY <1>1, <1>5, <2>2, <3>1
      <4> DEFINE x == L * W
      <4>2. x \in Int
        BY <1>1
      <4> HIDE DEF x
      <4> QED BY <1>1, <1>2, <2>1, <4>1, <4>2 DEF x
    <3>2. CASE i # n + 1
      <4>1. i \in 1..n /\ N[i] = T[i]
        BY <1>5, <2>2, <3>2
      <4>2. ((n + 1) - i + 1) * W = (n - i + 1) * W + W
        BY <1>1, <1>5
      <4> DEFINE x == (n - i + 1) * W
                 y == L * W
                 z == (t - T[i]) * L
      <4>3. x \in Int /\ y \in Int /\ z \in Int
        BY <1>1, <1>5, <4>1
      <4>4. f + x <= y + z
        BY <1>4, <1>5, <4>1 
      <4> HIDE DEF x, y, z
      <4>5. left + (x + W) <= y + z
        BY <1>1, <1>2, <2>1, <4>3, <4>4
      <4> QED BY <4>1, <4>2, <4>5 DEF x, y, z
    <3> QED BY <3>1, <3>2
  <2>4. BucketFollows(a.state, N, p, t)
    BY <1>6, <2>2, <2>3 DEF BucketFollows, W, L
  <2>5. ASSUME NEW i \in 1..(n + 1), NEW j \in 1..(n + 1), i <= j
        PROVE  (j - i + 1) * W <= (W + N[j] - N[i]) * L
    <3>1. CASE j # n + 1
      <4>1. i \in 1..n /\ j \in 1..n
        BY <1>5, <2>5, <3>1
      <4> QED BY <1>5, <2>2, <2>5, <4>1 DEF Burst, W, L
    <3>2. CASE j = n + 1 /\ i = n + 1
      <4>1. j - i + 1 = 1 /\ W + N[j] - N[i] = W
        BY <1>1, <1>5, <2>2, <3>2
      <4>2. 1 * W <= L * W /\ W * L = L * W
        BY <1>1, Products
      <4> QED BY <1>1, <4>1, <4>2
    <3>3. CASE j = n + 1 /\ i # n + 1
      <4>1. i \in 1..n /\ N[i] = T[i] /\ N[j] = t /\ T[i] \in Nat
        BY <1>5, <2>2, <3>3
      <4>2. /\ (j - i + 1) * W = (n - i + 1) * W + W
            /\ (W + t - T[i]) * L = L * W + (t - T[i]) * L
        BY <1>1, <1>5, <3>3, <4>1
      <4> DEFINE x == (n - i + 1) * W
                 y == L * W
                 z == (t - T[i]) * L
      <4>3. x \in Int /\ y \in Int /\ z \in Int
        BY <1>1, <1>5, <4>1
      <4>4. f + x <= y + z
        BY <1>4, <1>5, <4>1
      <4> HIDE DEF x, y, z
      <4>5. x + W <= y + z
        BY <1>1, <1>2, <2>1, <4>3, <4>4
      <4> QED BY <4>1, <4>2, <4>5 DEF x, y, z
    <3> QED BY <3>1, <3>2, <3>3
  <2>6. Burst(N, p)
    BY <2>2, <2>5 DEF Burst, W, L
  <2> QED BY <1>8, <2>4, <2>6 DEF N, a
<1> QED BY <1>7, <1>8

\* A bucket that was idle as long as it takes to fill it may be forgotten.
LEMMA BucketForgotten ==
  ASSUME NEW p \in Policy, NEW T \in Seq(Nat), NEW t \in Nat, NEW b \in BucketState(Nat),
         BucketFollows(b, T, p, t), b.present, b.lastRefill + p.windowMs <= t
  PROVE  BucketFollows(NoState, T, p, t)
<1> SUFFICES ASSUME NEW i \in DOMAIN T
             PROVE  (Len(T) - i + 1) * p.windowMs <= (t - T[i]) * p.limit
  BY DEF BucketFollows, NoState
<1> DEFINE many == (Len(T) - i + 1) * p.windowMs
           full == p.limit * p.windowMs
           before == (b.lastRefill - T[i]) * p.limit
           idle == (t - b.lastRefill) * p.limit
<1>1. p.limit \in Nat \ {0} /\ p.windowMs \in Nat \ {0}
  BY DEF Policy
<1>2. T[i] \in Nat /\ i \in Nat /\ Len(T) \in Nat
  OBVIOUS
<1>3. b.tokens \in Nat /\ b.lastRefill \in Nat
  BY RememberedBucket DEF BucketRecord
<1>4. b.tokens + many <= full + before
  BY DEF BucketFollows
<1>5. full <= idle
  <2>1. p.windowMs <= t - b.lastRefill /\ t - b.lastRefill \in Nat
    BY <1>1, <1>3
  <2> DEFINE since == t - b.lastRefill
  <2> HIDE DEF since
  <2>2. p.windowMs * p.limit <= since * p.limit
    BY <1>1, <2>1, Products DEF since
  <2>3. full = p.windowMs * p.limit
    BY <1>1
  <2> HIDE DEF full
  <2> QED BY <2>2, <2>3 DEF since
<1>6. /\ (t - T[i]) * p.limit = before + idle
      /\ many \in Int /\ full \in Int /\ before \in Int /\ idle \in Int
  <2>1. (t - T[i]) * p.limit = before + idle
    <3> DEFINE x == T[i]
               y == b.lastRefill
               L == p.limit
    <3>1. x \in Int /\ y \in Int /\ L \in Int
      BY <1>1, <1>2, <1>3
    <3> HIDE DEF x, y, L
    <3>2. (t - x) * L = (y - x) * L + (t - y) * L
      BY <3>1, Elapsed
    <3> QED BY <3>2 DEF x, y, L
  <2>2. many \in Int /\ full \in Int
    BY <1>1, <1>2
  <2>3. before \in Int /\ idle \in Int
    BY <1>1, <1>2, <1>3
  <2> QED BY <2>1, <2>2, <2>3
<1> HIDE DEF many, full, before, idle
<1>7. many <= before + idle
  BY <1>3, <1>4, <1>5, <1>6
<1> QED BY <1>6, <1>7 DEF many

LEMMA BucketWaits ==
  ASSUME NEW p \in Policy, NEW T \in Seq(Nat), NEW t \in Nat, NEW b \in BucketState(Nat),
         BucketFollows(b, T, p, t)
  PROVE  BucketFollows(b, T, p, t + 1)
<1>1. p.limit \in Nat \ {0}
  BY DEF Policy
<1>2. CASE b.present
  <2>1. b.lastRefill \in Nat
    BY <1>2, RememberedBucket DEF BucketRecord
  <2> QED BY <1>2, <2>1 DEF BucketFollows
<1>3. CASE ~b.present
  <2> SUFFICES ASSUME NEW i \in DOMAIN T
               PROVE  (Len(T) - i + 1) * p.windowMs <= ((t + 1) - T[i]) * p.limit
    BY <1>3 DEF BucketFollows
  <2> DEFINE many == (Len(T) - i + 1) * p.windowMs
             since == (t - T[i]) * p.limit
  <2>1. many <= since
    BY <1>3 DEF BucketFollows
  <2>2. T[i] \in Nat /\ i \in Nat /\ Len(T) \in Nat /\ p.windowMs \in Nat
    BY DEF Policy
  <2>3. ((t + 1) - T[i]) * p.limit = since + p.limit
    <3> DEFINE x == T[i]
               L == p.limit
    <3>1. x \in Int /\ L \in Int
      BY <1>1, <2>2
    <3> HIDE DEF x, L
    <3>2. ((t + 1) - x) * L = (t - x) * L + L
      BY <3>1
    <3> QED BY <3>2 DEF x, L
  <2>5. many \in Int /\ since \in Int
    BY <1>1, <2>2
  <2> HIDE DEF many, since
  <2>4. many <= since + p.limit
    BY <1>1, <2>1, <2>5
  <2> QED BY <2>3, <2>4 DEF many
<1> QED BY <1>2, <1>3

-----------------------------------------------------------------------------
(* The limits of a request                                                   *)

LEMMA LimitsTyped == \A l \in Limits : l.key \in LimitKeys /\ l.policy \in Policy
<1> SUFFICES ASSUME NEW l \in Limits PROVE l.key \in LimitKeys /\ l.policy \in Policy
  OBVIOUS
<1>1. IpPolicy \in Policy /\ UserPolicy \in Policy
  BY RateLimiterAssumption
<1>2. \A m \in Methods : EndpointPolicy(m) \in Policy \union {NoPolicy}
  BY EndpointPolicies
<1>3. \A m \in {EndpointPolicy(x) : x \in Methods} \ {NoPolicy} : m \in Policy
  BY <1>2
<1>4. l.policy \in Policy
  BY <1>1, <1>3 DEF Limits
<1>5. l.key \in LimitKeys
  BY DEF Limits, LimitKeys, Identities
<1> QED BY <1>4, <1>5

\* At most three, under different keys.
Apart(s) == \A i, j \in DOMAIN s : s[i].key = s[j].key => i = j

LEMMA OneOfEach ==
  ASSUME NEW S, NEW a \in S, NEW U \in Seq(S), NEW E \in Seq(S), Len(U) <= 1, Len(E) <= 1,
         a.key[1] = "ip", \A i \in DOMAIN U : U[i].key[1] = "user",
         \A i \in DOMAIN E : E[i].key[1] = "endpoint"
  PROVE  LET s == <<a>> \o U \o E IN s \in Seq(S) /\ Len(s) \in 1..3 /\ Apart(s)
<1> DEFINE A == <<a>>
           B == A \o U
           s == B \o E
<1>1. A \in Seq(S) /\ Len(A) = 1 /\ A[1] = a /\ Len(U) \in Nat /\ Len(E) \in Nat
  OBVIOUS
<1> HIDE DEF A
<1>2. /\ B \in Seq(S) /\ Len(B) = 1 + Len(U)
      /\ \A i \in 1..(1 + Len(U)) : B[i] = IF i <= 1 THEN A[i] ELSE U[i - 1]
  BY <1>1, ConcatProperties
<1> HIDE DEF B
<1>3. /\ s \in Seq(S) /\ Len(s) = Len(B) + Len(E)
      /\ \A i \in 1..(Len(B) + Len(E)) : s[i] = IF i <= Len(B) THEN B[i] ELSE E[i - Len(B)]
  BY <1>2, ConcatProperties
<1> HIDE DEF s
<1>4. DOMAIN s = 1..(Len(B) + Len(E)) /\ DOMAIN U = 1..Len(U) /\ DOMAIN E = 1..Len(E)
  BY <1>3
<1> DEFINE Place(i) == IF i = 1 THEN "ip" ELSE IF i <= Len(B) THEN "user" ELSE "endpoint"
<1>5. \A i \in DOMAIN s : s[i].key[1] = Place(i)
  <2> SUFFICES ASSUME NEW i \in DOMAIN s PROVE s[i].key[1] = Place(i)
    OBVIOUS
  <2>1. CASE i = 1
    <3>1. s[1] = a
      BY <1>1, <1>2, <1>3, <1>4, <2>1
    <3> QED BY <2>1, <3>1
  <2>2. CASE i # 1 /\ i <= Len(B)
    <3>1. s[i] = U[i - 1] /\ i - 1 \in DOMAIN U
      BY <1>1, <1>2, <1>3, <1>4, <2>2
    <3> QED BY <2>2, <3>1
  <2>3. CASE ~ (i <= Len(B))
    <3>1. s[i] = E[i - Len(B)] /\ i - Len(B) \in DOMAIN E /\ i # 1
      BY <1>1, <1>2, <1>3, <1>4, <2>3
    <3> QED BY <2>3, <3>1
  <2> QED BY <2>1, <2>2, <2>3
<1>6. \A i, j \in DOMAIN s : Place(i) = Place(j) => i = j
  <2> DEFINE b == Len(B)
             e == Len(E)
  <2>1. b \in 1..2 /\ e \in 0..1 /\ DOMAIN s = 1..(b + e)
    BY <1>1, <1>2, <1>4
  <2> HIDE DEF b, e, s
  <2>2. ASSUME NEW i \in 1..(b + e), NEW j \in 1..(b + e)
        PROVE  /\ i <= b => (i = 1 \/ (i = 2 /\ b = 2))
               /\ ~ (i <= b) => i = b + 1
               /\ i = 1 => i <= b
    BY <2>1
  <2> QED BY <2>1, <2>2 DEF b
<1>7. Apart(s)
  <2> HIDE DEF Place
  <2> QED BY <1>5, <1>6 DEF Apart
<1>8. Len(s) \in 1..3
  BY <1>1, <1>2, <1>3
<1> QED BY <1>3, <1>7, <1>8 DEF s, B, A

LEMMA LimitsOfRequest ==
  ASSUME NEW r \in HttpRequests
  PROVE  LimitsOf(r) \in Seq(Limits) /\ Len(LimitsOf(r)) \in 1..3 /\ Apart(LimitsOf(r))
<1> DEFINE a == [key |-> <<"ip", r.ip>>, policy |-> IpPolicy]
           U == UserLimit(r)
           E == EndpointLimit(r)
<1>1. r.ip \in Ips /\ r.user \in Users \union {NoUser} /\ r.method \in Methods
  BY DEF HttpRequests
<1>2. a \in Limits /\ a.key[1] = "ip"
  BY <1>1 DEF Limits
<1>3. U \in Seq(Limits) /\ Len(U) <= 1 /\ \A i \in DOMAIN U : U[i].key[1] = "user"
  <2>1. CASE r.user = NoUser
    BY <2>1 DEF UserLimit
  <2>2. CASE r.user # NoUser
    <3> DEFINE u == [key |-> <<"user", r.user>>, policy |-> UserPolicy]
    <3>1. U = <<u>>
      BY <2>2 DEF UserLimit
    <3>2. u \in Limits /\ u.key[1] = "user"
      BY <1>1, <2>2 DEF Limits
    <3> HIDE DEF u, U
    <3> QED BY <3>1, <3>2
  <2> QED BY <2>1, <2>2
<1>4. E \in Seq(Limits) /\ Len(E) <= 1 /\ \A i \in DOMAIN E : E[i].key[1] = "endpoint"
  <2> DEFINE policy == EndpointPolicy(r.method)
             identity == IF policy.scope = "ip" \/ r.user = NoUser THEN r.ip ELSE r.user
             e == [key |-> <<"endpoint", identity>>, policy |-> policy]
  <2>1. E = IF policy = NoPolicy THEN <<>> ELSE <<e>>
    BY DEF EndpointLimit
  <2>2. CASE policy = NoPolicy
    BY <2>1, <2>2
  <2>3. CASE policy # NoPolicy
    <3>1. identity \in Identities
      BY <1>1 DEF Identities
    <3>2. policy \in {EndpointPolicy(m) : m \in Methods} \ {NoPolicy}
      BY <1>1, <2>3
    <3> HIDE DEF policy, identity
    <3>3. e \in Limits /\ e.key[1] = "endpoint"
      BY <3>1, <3>2 DEF Limits
    <3>4. E = <<e>>
      BY <2>1, <2>3
    <3> HIDE DEF e, E
    <3> QED BY <3>3, <3>4
  <2> QED BY <2>2, <2>3
<1> HIDE DEF a, U, E
<1>5. LimitsOf(r) = <<a>> \o U \o E
  BY DEF LimitsOf, a, U, E
<1> QED BY <1>2, <1>3, <1>4, <1>5, OneOfEach

-----------------------------------------------------------------------------
(* The steps                                                                 *)

\* No two limits share the state of a key: the endpoint policies of a path agree,
\* or one algorithm does not serve both.
KeysApart == \A l, m \in Limits : l.key = m.key /\ (Slides(l) <=> Slides(m)) => l = m

\* What is pruned is older than every window.
KeptLongEnough == \A l \in Limits : l.policy.windowMs <= MaxIdle

LEMMA CheckedLimit ==
  ASSUME KeysApart, NEW r \in HttpRequests, Check(r), NEW l \in Limits
  PROVE  LET a == Consume(l, now) IN
         \/ /\ taken'[l] = IF a.allowed THEN Append(taken[l], now) ELSE taken[l]
            /\ Slides(l) => windows'[l.key] = a.state
            /\ ~Slides(l) => buckets'[l.key] = a.state
         \/ /\ taken'[l] = taken[l]
            /\ Slides(l) => windows'[l.key] = windows[l.key]
            /\ ~Slides(l) => buckets'[l.key] = buckets[l.key]
<1> DEFINE limits == LimitsOf(r)
           results == [i \in DOMAIN limits |-> Consume(limits[i], now)]
           admitted == {limits[i] : i \in DOMAIN limits \ Denied(results)}
           Hits(slides) ==
             {i \in DOMAIN limits : limits[i].key = l.key /\ Slides(limits[i]) = slides}
           After(old, slides) == IF Hits(slides) = {} THEN old[l.key]
                                 ELSE results[CHOOSE i \in Hits(slides) : TRUE].state
           hits ==
             {i \in DOMAIN limits : limits[i].key = l.key /\ (Slides(limits[i]) <=> Slides(l))}
<1>1. l.key \in LimitKeys
  BY LimitsTyped
<1>2. /\ buckets'[l.key] = After(buckets, FALSE)
      /\ windows'[l.key] = After(windows, TRUE)
      /\ taken'[l] = IF l \in admitted THEN Append(taken[l], now) ELSE taken[l]
  <2>1. /\ buckets' = Updated(buckets, limits, results, FALSE)
        /\ windows' = Updated(windows, limits, results, TRUE)
        /\ taken' = [m \in Limits |-> IF m \in admitted THEN Append(taken[m], now) ELSE taken[m]]
    BY DEF Check
  <2> HIDE DEF limits, results, admitted
  <2> QED BY <1>1, <2>1 DEF Updated
<1>3. (Slides(l) => Hits(TRUE) = hits) /\ (~Slides(l) => Hits(FALSE) = hits)
  BY DEF Slides
<1>4. limits \in Seq(Limits) /\ Apart(limits)
  BY LimitsOfRequest
<1>5. \A i \in DOMAIN limits : limits[i] \in Limits
  <2> HIDE DEF limits
  <2> QED BY <1>4
<1>6. \A i \in hits : limits[i] = l
  <2> HIDE DEF limits
  <2> QED BY <1>5 DEF KeysApart
<1>7. \A i \in DOMAIN limits : limits[i] = l => i \in hits
  OBVIOUS
<1>8. \A i \in DOMAIN limits : i \in Denied(results) <=> ~results[i].allowed
  BY DEF Denied
<1> HIDE DEF limits, hits
<1>9. CASE hits = {}
  <2>1. l \notin admitted
    BY <1>7, <1>9
  <2> HIDE DEF admitted, Hits
  <2> QED BY <1>2, <1>3, <1>9, <2>1
<1>10. CASE hits # {}
  <2> DEFINE i == CHOOSE i \in hits : TRUE
  <2>1. i \in hits
    BY <1>10
  <2>2. i \in DOMAIN limits /\ limits[i] = l
    BY <1>6, <2>1 DEF hits
  <2>3. results[i] = Consume(l, now)
    BY <2>2
  <2>4. l \in admitted <=> results[i].allowed
    <3>1. \A j \in DOMAIN limits : limits[j] = l => j = i
      BY <1>4, <2>2 DEF Apart
    <3> HIDE DEF results, i
    <3>2. l \in admitted <=> i \in DOMAIN limits \ Denied(results)
      BY <2>2, <3>1
    <3> QED BY <1>8, <2>2, <3>2
  <2>5. /\ Slides(l) => After(windows, TRUE) = results[i].state
        /\ ~Slides(l) => After(buckets, FALSE) = results[i].state
    <3> HIDE DEF Hits, results
    <3> QED BY <1>3, <1>10
  <2> HIDE DEF admitted, After, results, i
  <2> QED BY <1>2, <2>3, <2>4, <2>5
<1> QED BY <1>9, <1>10

\* What becomes of a key, whether or not a limit is kept under it.
LEMMA CheckedKey ==
  ASSUME NEW r \in HttpRequests, Check(r), NEW k \in LimitKeys
  PROVE  /\ \/ windows'[k] = windows[k]
            \/ \E l \in Limits : Slides(l) /\ l.key = k /\ windows'[k] = Consume(l, now).state
         /\ \/ buckets'[k] = buckets[k]
            \/ \E l \in Limits : ~Slides(l) /\ l.key = k /\ buckets'[k] = Consume(l, now).state
<1> DEFINE limits == LimitsOf(r)
           results == [i \in DOMAIN limits |-> Consume(limits[i], now)]
           Hits(slides) == {i \in DOMAIN limits : limits[i].key = k /\ Slides(limits[i]) = slides}
           After(old, slides) == IF Hits(slides) = {} THEN old[k]
                                 ELSE results[CHOOSE i \in Hits(slides) : TRUE].state
<1>1. buckets'[k] = After(buckets, FALSE) /\ windows'[k] = After(windows, TRUE)
  <2>1. /\ buckets' = Updated(buckets, limits, results, FALSE)
        /\ windows' = Updated(windows, limits, results, TRUE)
    BY DEF Check
  <2> HIDE DEF limits, results
  <2> QED BY <2>1 DEF Updated
<1>2. \A i \in DOMAIN limits : limits[i] \in Limits
  <2>1. limits \in Seq(Limits)
    BY LimitsOfRequest
  <2> HIDE DEF limits
  <2> QED BY <2>1
<1> HIDE DEF limits
<1>3. ASSUME Hits(TRUE) # {}
      PROVE  \E l \in Limits : Slides(l) /\ l.key = k /\ windows'[k] = Consume(l, now).state
  <2> DEFINE i == CHOOSE i \in Hits(TRUE) : TRUE
  <2>1. i \in Hits(TRUE)
    BY <1>3
  <2>2. i \in DOMAIN limits /\ limits[i].key = k /\ Slides(limits[i])
    BY <2>1
  <2>3. windows'[k] = results[i].state
    <3> HIDE DEF Hits, results
    <3> QED BY <1>1, <1>3
  <2> HIDE DEF i
  <2> QED BY <1>2, <2>2, <2>3
<1>4. ASSUME Hits(FALSE) # {}
      PROVE  \E l \in Limits : ~Slides(l) /\ l.key = k /\ buckets'[k] = Consume(l, now).state
  <2> DEFINE i == CHOOSE i \in Hits(FALSE) : TRUE
  <2>1. i \in Hits(FALSE)
    BY <1>4
  <2>2. i \in DOMAIN limits /\ limits[i].key = k /\ ~Slides(limits[i])
    BY <2>1
  <2>3. buckets'[k] = results[i].state
    <3> HIDE DEF Hits, results
    <3> QED BY <1>1, <1>4
  <2> HIDE DEF i
  <2> QED BY <1>2, <2>2, <2>3
<1> HIDE DEF Hits
<1> QED BY <1>1, <1>3, <1>4

-----------------------------------------------------------------------------
(* The invariant                                                             *)

LimitFollowed(l) ==
  /\ Slides(l) => /\ WindowFollows(windows[l.key], taken[l], l.policy, now)
                  /\ Spaced(taken[l], l.policy, now)
  /\ ~Slides(l) => /\ BucketFollows(buckets[l.key], taken[l], l.policy, now)
                   /\ Burst(taken[l], l.policy)

Followed == \A l \in Limits : LimitFollowed(l)

LEMMA StatesTyped ==
  ASSUME LimiterTypeOK
  PROVE  /\ now \in Nat /\ now \in 0..MaxTime /\ 0..MaxTime \in SUBSET Nat
         /\ \A k \in LimitKeys :
              /\ windows[k] \in WindowState(0..MaxTime) /\ windows[k] \in WindowState(Nat)
              /\ buckets[k] \in BucketState(0..MaxTime) /\ buckets[k] \in BucketState(Nat)
              /\ NotOverfull(buckets[k])
         /\ \A l \in Limits : taken[l] \in Seq(0..MaxTime) /\ taken[l] \in Seq(Nat)
<1>1. now \in Nat /\ now \in 0..MaxTime /\ 0..MaxTime \in SUBSET Nat
  BY RateLimiterAssumption DEF LimiterTypeOK
<1> DEFINE A == 0..MaxTime
<1>2. A \in SUBSET Nat
  BY <1>1
<1>3. ASSUME NEW k \in LimitKeys
      PROVE  /\ windows[k] \in WindowState(A) /\ buckets[k] \in BucketState(A)
             /\ NotOverfull(buckets[k])
  BY DEF LimiterTypeOK, WindowState, BucketState, Bucket, Window, NotOverfull, BucketRecord
<1>4. \A l \in Limits : taken[l] \in Seq(A)
  BY DEF LimiterTypeOK
<1> HIDE DEF A
<1>5. ASSUME NEW s \in Seq(A) PROVE s \in Seq(Nat)
  BY <1>2, SeqMonotonic
<1>6. ASSUME NEW w \in WindowState(A) PROVE w \in WindowState(Nat)
  BY <1>2, <1>5 DEF WindowState
<1>7. ASSUME NEW b \in BucketState(A) PROVE b \in BucketState(Nat)
  BY <1>2 DEF BucketState, BucketRecord
<1> QED BY <1>1, <1>3, <1>4, <1>5, <1>6, <1>7 DEF A

\* What an answer says of the next one.
LEMMA LaterAnswered ==
  ASSUME LimiterTypeOK, Followed, NEW l \in Limits, NEW d \in Nat
  PROVE  LET a == Consume(l, now)
             later == Answer(l, a.state, now + d)
         IN /\ a.remaining \in Nat
            /\ ~a.allowed => /\ a.retryAfter \in Nat \ {0}
                             /\ later.allowed <=> d >= a.retryAfter
            /\ a.allowed /\ d = 0 => (later.allowed <=> a.remaining # 0)
<1>1. l.key \in LimitKeys /\ l.policy \in Policy
  BY LimitsTyped
<1>2. /\ now \in Nat /\ windows[l.key] \in WindowState(Nat)
      /\ buckets[l.key] \in BucketState(Nat) /\ NotOverfull(buckets[l.key])
      /\ taken[l] \in Seq(Nat)
  BY <1>1, StatesTyped
<1>3. LimitFollowed(l)
  BY DEF Followed
<1>4. CASE Slides(l)
  <2>1. WindowFollows(windows[l.key], taken[l], l.policy, now) /\ Spaced(taken[l], l.policy, now)
    BY <1>3, <1>4 DEF LimitFollowed
  <2>2. Consume(l, now) = SlidingWindow(windows[l.key], l.policy, now)
    BY <1>4 DEF Consume, Answer
  <2>3. \A held : Answer(l, held, now + d) = SlidingWindow(held, l.policy, now + d)
    BY <1>4 DEF Answer
  <2>4. LET a == SlidingWindow(windows[l.key], l.policy, now)
            later == SlidingWindow(a.state, l.policy, now + d)
        IN /\ a.remaining \in Nat
           /\ ~a.allowed => /\ a.retryAfter \in Nat \ {0}
                            /\ later.allowed <=> d >= a.retryAfter
           /\ a.allowed /\ d = 0 => (later.allowed <=> a.remaining # 0)
    BY <1>1, <1>2, <2>1, WindowLater
  <2> QED BY <2>2, <2>3, <2>4
<1>5. CASE ~Slides(l)
  <2>1. Consume(l, now) = TokenBucket(buckets[l.key], l.policy, now)
    BY <1>5 DEF Consume, Answer
  <2>2. \A held : Answer(l, held, now + d) = TokenBucket(held, l.policy, now + d)
    BY <1>5 DEF Answer
  <2>4. LET a == TokenBucket(buckets[l.key], l.policy, now)
            later == TokenBucket(a.state, l.policy, now + d)
        IN /\ a.remaining \in Nat
           /\ ~a.allowed => /\ a.retryAfter \in Nat \ {0}
                            /\ later.allowed <=> d >= a.retryAfter
           /\ a.allowed /\ d = 0 => (later.allowed <=> a.remaining # 0)
    BY <1>1, <1>2, BucketLater
  <2> QED BY <2>1, <2>2, <2>4
<1> QED BY <1>4, <1>5

LEMMA RetriesExact == LimiterTypeOK /\ Followed => RetryAfterExact
<1> SUFFICES ASSUME LimiterTypeOK, Followed, NEW l \in Limits, ~Consume(l, now).allowed
             PROVE  /\ Answer(l, Consume(l, now).state, now + Consume(l, now).retryAfter).allowed
                    /\ \A n \in 0..(Consume(l, now).retryAfter - 1) :
                         ~Answer(l, Consume(l, now).state, now + n).allowed
  BY DEF RetryAfterExact
<1> DEFINE a == Consume(l, now)
<1>1. \A d \in Nat : /\ a.retryAfter \in Nat \ {0}
                     /\ Answer(l, a.state, now + d).allowed <=> d >= a.retryAfter
  BY LaterAnswered
<1> HIDE DEF a
<1>2. a.retryAfter \in Nat \ {0} /\ a.retryAfter >= a.retryAfter
  BY <1>1
<1>3. \A n \in 0..(a.retryAfter - 1) : n \in Nat /\ ~ (n >= a.retryAfter)
  BY <1>2
<1> QED BY <1>1, <1>2, <1>3 DEF a

\* Of three fractions one is the least.
LEMMA LeastOfThree ==
  ASSUME NEW n \in 1..3, NEW x, NEW y,
         \A i \in 1..n : x[i] \in Nat /\ y[i] \in Nat \ {0}
  PROVE  \E i \in 1..n : \A j \in 1..n : x[i] * y[j] <= x[j] * y[i]
<1> DEFINE Below(i, j) == x[i] * y[j] <= x[j] * y[i]
<1>1. \A i, j \in 1..n : Below(i, j) \/ Below(j, i)
  <2> SUFFICES ASSUME NEW i \in 1..n, NEW j \in 1..n PROVE Below(i, j) \/ Below(j, i)
    OBVIOUS
  <2>1. x[i] * y[j] \in Nat /\ x[j] * y[i] \in Nat
    OBVIOUS
  <2> QED BY <2>1
<1>2. \A i, j, k \in 1..n : Below(i, j) /\ Below(j, k) => Below(i, k)
  <2> SUFFICES ASSUME NEW i \in 1..n, NEW j \in 1..n, NEW k \in 1..n, Below(i, j), Below(j, k)
               PROVE  Below(i, k)
    OBVIOUS
  <2> QED BY LeastFraction
<1> HIDE DEF Below
<1>3. \E i \in 1..n : \A j \in 1..n : Below(i, j)
  <2>1. CASE n = 1
    <3>1. 1..n = {1}
      BY <2>1
    <3> HIDE <2>1
    <3> QED BY <1>1, <3>1
  <2>2. CASE n = 2
    <3>1. 1..n = {1, 2}
      BY <2>2
    <3> HIDE <2>2
    <3> QED BY <1>1, <3>1
  <2>3. CASE n = 3
    <3>1. 1..n = {1, 2, 3}
      BY <2>3
    <3> HIDE <2>3
    <3>2. /\ Below(1, 1) /\ Below(2, 2) /\ Below(3, 3)
          /\ Below(1, 2) \/ Below(2, 1)
          /\ Below(1, 3) \/ Below(3, 1)
          /\ Below(2, 3) \/ Below(3, 2)
      BY <1>1, <3>1
    <3>3. /\ Below(1, 2) /\ Below(2, 3) => Below(1, 3)
          /\ Below(3, 1) /\ Below(1, 2) => Below(3, 2)
          /\ Below(2, 1) /\ Below(1, 3) => Below(2, 3)
          /\ Below(3, 2) /\ Below(2, 1) => Below(3, 1)
      BY <1>2, <3>1
    <3>4. \/ Below(1, 1) /\ Below(1, 2) /\ Below(1, 3)
          \/ Below(2, 1) /\ Below(2, 2) /\ Below(2, 3)
          \/ Below(3, 1) /\ Below(3, 2) /\ Below(3, 3)
      BY <3>2, <3>3
    <3> QED BY <3>1, <3>4
  <2> QED BY <2>1, <2>2, <2>3
<1> QED BY <1>3 DEF Below

LEMMA HeadersTell == LimiterTypeOK /\ Followed => HeadersRight
<1> SUFFICES ASSUME LimiterTypeOK, Followed, NEW r \in HttpRequests
             PROVE  LET limits == LimitsOf(r)
                        results == [i \in DOMAIN limits |-> Consume(limits[i], now)]
                        After(i, n) == Answer(limits[i], results[i].state, now + n)
                        told == Headers(Decision(limits, results))
                    IN IF Denied(results) = {}
                         THEN told.remaining = 0 <=> \E i \in DOMAIN limits : ~After(i, 0).allowed
                         ELSE After(Min(Denied(results)), told.retryAfter * Second).allowed
  BY DEF HeadersRight
<1> DEFINE limits == LimitsOf(r)
           results == [i \in DOMAIN limits |-> Consume(limits[i], now)]
           After(i, n) == Answer(limits[i], results[i].state, now + n)
           told == Headers(Decision(limits, results))
           D == DOMAIN limits
<1>1. limits \in Seq(Limits) /\ Len(limits) \in 1..3
  BY LimitsOfRequest
<1> HIDE DEF limits
<1>2. D = 1..Len(limits) /\ D \subseteq Nat /\ \A i \in D : limits[i] \in Limits
  BY <1>1
<1>3. /\ DOMAIN results = D
      /\ \A i \in D : results[i] = Consume(limits[i], now)
  OBVIOUS
<1> HIDE DEF results, D
<1>4. ASSUME NEW i \in D, NEW d \in Nat
      PROVE  /\ results[i].remaining \in Nat
             /\ ~results[i].allowed => /\ results[i].retryAfter \in Nat \ {0}
                                       /\ After(i, d).allowed <=> d >= results[i].retryAfter
             /\ results[i].allowed /\ d = 0 => (After(i, d).allowed <=> results[i].remaining # 0)
  BY <1>2, <1>3, LaterAnswered
<1> HIDE DEF After
<1>5. Denied(results) = {i \in D : ~results[i].allowed}
  BY <1>3 DEF Denied
<1>6. CASE Denied(results) # {}
  <2> DEFINE m == Min(Denied(results))
  <2>1. m \in D /\ ~results[m].allowed
    <3>1. Denied(results) \subseteq Nat
      BY <1>2, <1>5
    <3>2. m \in Denied(results)
      BY <1>6, <3>1, LeastOfSome
    <3> HIDE DEF m
    <3> QED BY <1>5, <3>2
  <2> HIDE DEF m
  <2>2. \A d \in Nat : /\ results[m].retryAfter \in Nat \ {0}
                       /\ After(m, d).allowed <=> d >= results[m].retryAfter
    BY <1>4, <2>1
  <2>3. Decision(limits, results) = results[m]
    BY <1>6 DEF Decision, m
  <2> DEFINE after == results[m].retryAfter
             c == CeilDiv(after, Second)
  <2>4. after \in Nat \ {0} /\ Second \in Nat \ {0}
    BY <2>2, RateLimiterAssumption
  <2>5. told.retryAfter = Max2(1, c)
    BY <2>1, <2>3 DEF Headers
  <2>6. c \in Nat \ {0} /\ c * Second >= after
    <3> HIDE DEF after
    <3>1. c \in Nat \ {0} /\ \A n \in Nat : n * Second >= after <=> n >= c
      BY <2>4, CeilDivExact
    <3> HIDE DEF c
    <3> QED BY <3>1
  <2>7. told.retryAfter = c
    <3> HIDE DEF c, told
    <3> QED BY <2>5, <2>6 DEF Max2
  <2> HIDE DEF c, told, after
  <2>8. After(m, told.retryAfter * Second).allowed
    <3>1. told.retryAfter * Second \in Nat /\ told.retryAfter * Second >= after
      BY <2>4, <2>6, <2>7
    <3> QED BY <2>2, <3>1 DEF after
  <2> QED BY <1>6, <2>8 DEF told, m, After, limits, results
<1>7. CASE Denied(results) = {}
  <2> DEFINE Least == {i \in D : \A j \in D :
                         results[i].remaining * limits[j].policy.limit
                           <= results[j].remaining * limits[i].policy.limit}
             m == Min(Least)
  <2>1. \A i \in D : results[i].allowed
    BY <1>5, <1>7
  <2>2. \A i \in D : results[i].remaining \in Nat
                     /\ (After(i, 0).allowed <=> results[i].remaining # 0)
    BY <1>4, <2>1
  <2>3. \A i \in D : limits[i].policy.limit \in Nat \ {0}
    <3>1. \A i \in D : limits[i].policy \in Policy
      BY <1>2, LimitsTyped
    <3> QED BY <3>1 DEF Policy
  <2>4. Least # {}
    <3> DEFINE x == [i \in D |-> results[i].remaining]
               y == [i \in D |-> limits[i].policy.limit]
    <3>1. \A i \in D : x[i] \in Nat /\ y[i] \in Nat \ {0}
      BY <2>2, <2>3
    <3>2. \E i \in D : \A j \in D : x[i] * y[j] <= x[j] * y[i]
      <4> HIDE DEF x, y
      <4> QED BY <1>1, <1>2, <3>1, LeastOfThree
    <3> QED BY <3>2
  <2>5. Least \subseteq Nat
    BY <1>2
  <2>6. m \in Least
    <3> HIDE DEF Least
    <3> QED BY <2>4, <2>5, LeastOfSome
  <2>7. Decision(limits, results) = results[m]
    BY <1>3, <1>7 DEF Decision, MostRestrictive
  <2>8. told.remaining = results[m].remaining
    BY <2>7 DEF Headers
  <2>9. /\ m \in D
        /\ \A j \in D : results[m].remaining * limits[j].policy.limit
                          <= results[j].remaining * limits[m].policy.limit
    BY <2>6
  <2> HIDE DEF Least, m, told
  <2>10. ASSUME NEW j \in D, results[j].remaining = 0 PROVE results[m].remaining = 0
    <3> DEFINE x == results[m].remaining
               l == limits[j].policy.limit
    <3>1. x \in Nat /\ l \in Nat \ {0} /\ results[j].remaining * limits[m].policy.limit = 0
      BY <2>2, <2>3, <2>9, <2>10
    <3>2. x * l <= 0
      BY <2>9, <3>1
    <3> HIDE DEF x, l
    <3>3. x # 0 => 1 * l <= x * l
      BY <3>1, Products
    <3>4. x * l \in Nat
      BY <3>1
    <3>5. x = 0
      BY <3>1, <3>2, <3>3, <3>4
    <3> QED BY <3>5 DEF x
  <2>11. told.remaining = 0 <=> \E i \in D : ~After(i, 0).allowed
    BY <2>2, <2>8, <2>9, <2>10
  <2> QED BY <1>7, <2>11 DEF told, After, D, limits, results
<1> QED BY <1>6, <1>7

-----------------------------------------------------------------------------

LEMMA LimiterStarts == LimiterInit => LimiterTypeOK /\ Followed
<1> SUFFICES ASSUME LimiterInit PROVE LimiterTypeOK /\ Followed
  OBVIOUS
<1>1. now = 0 /\ MaxTime \in Nat
  BY RateLimiterAssumption DEF LimiterInit
<1>2. \A k \in LimitKeys : buckets[k] = NoState /\ windows[k] = NoState
  BY DEF LimiterInit
<1>3. taken = [l \in Limits |-> <<>>]
  BY DEF LimiterInit
<1>4. taken \in [Limits -> Seq(0..MaxTime)]
  BY <1>3
<1>5. LimiterTypeOK
  BY <1>1, <1>2, <1>4 DEF LimiterTypeOK, NoState
<1>6. ASSUME NEW l \in Limits PROVE LimitFollowed(l)
  <2>1. /\ taken[l] = <<>> /\ DOMAIN taken[l] = {}
        /\ buckets[l.key] = NoState /\ windows[l.key] = NoState /\ ~NoState.present
    BY <1>2, <1>3, LimitsTyped DEF NoState
  <2> QED BY <2>1 DEF LimitFollowed, WindowFollows, BucketFollows, Spaced, Burst, Sorted
<1> QED BY <1>5, <1>6 DEF Followed

LEMMA CheckKeeps ==
  ASSUME KeysApart, LimiterTypeOK, Followed, NEW r \in HttpRequests, Check(r)
  PROVE  LimiterTypeOK' /\ Followed'
<1> DEFINE A == 0..MaxTime
<1>1. now' = now /\ taken' = [l \in Limits |-> taken'[l]]
  BY DEF Check
<1>2. now \in Nat /\ now \in A /\ A \in SUBSET Nat /\ A \in SUBSET Int /\ Nat \in SUBSET Nat
  BY StatesTyped
<1> HIDE DEF A
<1>3. \A k \in LimitKeys :
        /\ windows[k] \in WindowState(A) /\ windows[k] \in WindowState(Nat)
        /\ buckets[k] \in BucketState(A) /\ buckets[k] \in BucketState(Nat)
        /\ NotOverfull(buckets[k])
  BY StatesTyped DEF A
<1>4. \A l \in Limits : taken[l] \in Seq(A) /\ taken[l] \in Seq(Nat)
  BY StatesTyped DEF A
<1>5. \A l \in Limits : l.key \in LimitKeys /\ l.policy \in Policy
  BY LimitsTyped
<1>6. ASSUME NEW l \in Limits
      PROVE  LET a == Consume(l, now)
                 N == IF a.allowed THEN Append(taken[l], now) ELSE taken[l]
             IN /\ Slides(l) => /\ a.state \in WindowState(A)
                                /\ WindowFollows(a.state, N, l.policy, now)
                                /\ Spaced(N, l.policy, now)
                /\ ~Slides(l) => /\ a.state \in BucketState(A) /\ NotOverfull(a.state)
                                 /\ BucketFollows(a.state, N, l.policy, now) /\ Burst(N, l.policy)
  <2>1. LimitFollowed(l)
    BY DEF Followed
  <2>2. CASE Slides(l)
    <3>1. Consume(l, now) = SlidingWindow(windows[l.key], l.policy, now)
      BY <2>2 DEF Consume, Answer
    <3>2. /\ WindowFollows(windows[l.key], taken[l], l.policy, now)
          /\ Spaced(taken[l], l.policy, now)
      BY <2>1, <2>2 DEF LimitFollowed
    <3>3. LET a == SlidingWindow(windows[l.key], l.policy, now)
              N == IF a.allowed THEN Append(taken[l], now) ELSE taken[l]
          IN /\ a.state \in [present: {TRUE}, timestamps: Seq(A), lastSeen: A]
             /\ WindowFollows(a.state, N, l.policy, now) /\ Spaced(N, l.policy, now)
      BY <1>2, <1>3, <1>4, <1>5, <3>2, WindowStep
    <3> QED BY <2>2, <3>1, <3>3 DEF WindowState
  <2>3. CASE ~Slides(l)
    <3>1. Consume(l, now) = TokenBucket(buckets[l.key], l.policy, now)
      BY <2>3 DEF Consume, Answer
    <3>2. /\ BucketFollows(buckets[l.key], taken[l], l.policy, now)
          /\ Burst(taken[l], l.policy)
      BY <2>1, <2>3 DEF LimitFollowed
    <3>3. LET a == TokenBucket(buckets[l.key], l.policy, now)
              N == IF a.allowed THEN Append(taken[l], now) ELSE taken[l]
          IN BucketFollows(a.state, N, l.policy, now) /\ Burst(N, l.policy)
      BY <1>2, <1>3, <1>4, <1>5, <3>2, BucketStep
    <3>4. LET a == TokenBucket(buckets[l.key], l.policy, now)
          IN a.state \in BucketRecord(A) /\ NotOverfull(a.state)
      BY <1>2, <1>3, <1>5, BucketTaken
    <3> QED BY <2>3, <3>1, <3>3, <3>4 DEF BucketState
  <2> QED BY <2>2, <2>3
<1>7. Followed'
  <2> SUFFICES ASSUME NEW l \in Limits PROVE LimitFollowed(l)'
    BY DEF Followed
  <2>1. LimitFollowed(l)
    BY DEF Followed
  <2> QED BY <1>1, <1>6, <2>1, CheckedLimit DEF LimitFollowed
<1>8. \A l \in Limits : taken'[l] \in Seq(A)
  <2> SUFFICES ASSUME NEW l \in Limits PROVE taken'[l] \in Seq(A)
    OBVIOUS
  <2>1. taken'[l] = Append(taken[l], now) \/ taken'[l] = taken[l]
    BY CheckedLimit
  <2> DEFINE s == taken[l]
  <2>2. s \in Seq(A) /\ now \in A
    BY <1>2, <1>4
  <2> HIDE DEF s
  <2>3. Append(s, now) \in Seq(A)
    BY <2>2
  <2> QED BY <2>1, <2>2, <2>3 DEF s
<1>9. ASSUME NEW k \in LimitKeys
      PROVE  /\ windows'[k] \in WindowState(A)
             /\ buckets'[k] \in BucketState(A) /\ NotOverfull(buckets'[k])
  BY <1>3, <1>6, CheckedKey
<1>10. LimiterTypeOK'
  <2>1. now' \in 0..MaxTime
    BY <1>1, <1>2 DEF A
  <2>2. taken' \in [Limits -> Seq(0..MaxTime)]
    BY <1>1, <1>8 DEF A
  <2> QED BY <1>9, <2>1, <2>2
          DEF LimiterTypeOK, WindowState, BucketState, Bucket, Window, NotOverfull, BucketRecord, A
<1> QED BY <1>7, <1>10

\* Idle states are dropped when they say nothing any more.
LEMMA PruneKeeps ==
  ASSUME KeptLongEnough, LimiterTypeOK, Followed, Prune
  PROVE  LimiterTypeOK' /\ Followed'
<1>1. UNCHANGED <<now, taken>> /\ MaxIdle \in Nat
  BY RateLimiterAssumption DEF Prune
<1>2. /\ now \in Nat
      /\ \A k \in LimitKeys : /\ windows[k] \in WindowState(Nat)
                              /\ buckets[k] \in BucketState(Nat)
      /\ \A l \in Limits : taken[l] \in Seq(Nat)
  BY StatesTyped
<1>3. ASSUME NEW k \in LimitKeys
      PROVE  /\ \/ windows'[k] = windows[k]
                \/ /\ windows'[k] = NoState
                   /\ windows[k].present /\ windows[k].lastSeen < now - MaxIdle
             /\ \/ buckets'[k] = buckets[k]
                \/ /\ buckets'[k] = NoState
                   /\ buckets[k].present /\ buckets[k].lastRefill < now - MaxIdle
  BY DEF Prune
<1>4. LimiterTypeOK'
  BY <1>1, <1>3 DEF LimiterTypeOK, NoState
<1>5. ASSUME NEW l \in Limits PROVE LimitFollowed(l)'
  <2>1. LimitFollowed(l) /\ l.key \in LimitKeys /\ l.policy \in Policy
    BY LimitsTyped DEF Followed
  <2>2. l.policy.windowMs \in Nat /\ l.policy.windowMs <= MaxIdle
    BY <2>1 DEF KeptLongEnough, Policy
  <2>3. Slides(l) => WindowFollows(windows'[l.key], taken[l], l.policy, now)
    <3> SUFFICES ASSUME Slides(l), windows'[l.key] # windows[l.key]
                 PROVE  WindowFollows(windows'[l.key], taken[l], l.policy, now)
      BY <2>1 DEF LimitFollowed
    <3> DEFINE w == windows[l.key]
    <3>1. windows'[l.key] = NoState /\ w.present /\ w.lastSeen < now - MaxIdle
      BY <1>3, <2>1
    <3>2. w.lastSeen \in Nat
      BY <1>2, <2>1, <3>1, RememberedWindow
    <3>3. \A i \in DOMAIN taken[l] : taken[l][i] <= w.lastSeen /\ taken[l][i] \in Nat
      BY <1>2, <2>1, <3>1 DEF LimitFollowed, WindowFollows
    <3> HIDE DEF w
    <3>4. \A i \in DOMAIN taken[l] : taken[l][i] <= now - l.policy.windowMs
      BY <1>1, <1>2, <2>2, <3>1, <3>2, <3>3
    <3> QED BY <3>1, <3>4 DEF WindowFollows, NoState
  <2>4. ~Slides(l) => BucketFollows(buckets'[l.key], taken[l], l.policy, now)
    <3> SUFFICES ASSUME ~Slides(l), buckets'[l.key] # buckets[l.key]
                 PROVE  BucketFollows(buckets'[l.key], taken[l], l.policy, now)
      BY <2>1 DEF LimitFollowed
    <3> DEFINE b == buckets[l.key]
    <3>1. buckets'[l.key] = NoState /\ b.present /\ b.lastRefill < now - MaxIdle
      BY <1>3, <2>1
    <3>2. b \in BucketState(Nat) /\ BucketFollows(b, taken[l], l.policy, now)
      BY <1>2, <2>1 DEF LimitFollowed
    <3> HIDE DEF b
    <3>3. b.lastRefill + l.policy.windowMs <= now
      <4>1. b.lastRefill \in Nat
        BY <3>1, <3>2, RememberedBucket DEF BucketRecord
      <4> QED BY <1>1, <1>2, <2>2, <3>1, <4>1
    <3> QED BY <1>2, <2>1, <3>1, <3>2, <3>3, BucketForgotten
  <2> QED BY <1>1, <2>1, <2>3, <2>4 DEF LimitFollowed
<1> QED BY <1>4, <1>5 DEF Followed

LEMMA LimiterTickKeeps ==
  ASSUME LimiterTypeOK, Followed, LimiterTick
  PROVE  LimiterTypeOK' /\ Followed'
<1>1. UNCHANGED <<buckets, windows, taken>> /\ now' = now + 1 /\ now < MaxTime /\ MaxTime \in Nat
  BY RateLimiterAssumption DEF LimiterTick
<1>2. /\ now \in Nat
      /\ \A k \in LimitKeys : /\ windows[k] \in WindowState(Nat)
                              /\ buckets[k] \in BucketState(Nat)
      /\ \A l \in Limits : taken[l] \in Seq(Nat)
  BY StatesTyped
<1>3. LimiterTypeOK'
  <2>1. now' \in 0..MaxTime
    BY <1>1, <1>2
  <2> QED BY <1>1, <2>1 DEF LimiterTypeOK
<1>4. ASSUME NEW l \in Limits PROVE LimitFollowed(l)'
  <2>1. LimitFollowed(l) /\ l.key \in LimitKeys /\ l.policy \in Policy
    BY LimitsTyped DEF Followed
  <2> DEFINE w == windows[l.key]
             T == taken[l]
             p == l.policy
  <2>2. T \in Seq(Nat) /\ w \in WindowState(Nat) /\ p.windowMs \in Nat
    BY <1>2, <2>1 DEF Policy
  <2>3. ASSUME Slides(l) PROVE WindowFollows(w, T, p, now + 1) /\ Spaced(T, p, now + 1)
    <3>1. WindowFollows(w, T, p, now) /\ Spaced(T, p, now)
      BY <2>1, <2>3 DEF LimitFollowed
    <3> HIDE DEF w, T, p
    <3>2. \A i \in DOMAIN T : T[i] \in Nat
      BY <2>2
    <3>3. \A x \in Int : (x <= now => x <= now + 1)
                         /\ (x <= now - p.windowMs => x <= (now + 1) - p.windowMs)
      BY <1>2, <2>2
    <3>4. w.present => w.lastSeen \in Int
      BY <2>2, RememberedWindow
    <3>5. Spaced(T, p, now + 1)
      BY <3>1, <3>2, <3>3 DEF Spaced
    <3>6. WindowFollows(w, T, p, now + 1)
      <4>1. CASE w.present
        <5> DEFINE seen == w.lastSeen
                   Same == \A i \in 1..Len(w.timestamps) :
                             w.timestamps[i] = T[Len(T) - Len(w.timestamps) + i]
                   Gone == \A i \in 1..(Len(T) - Len(w.timestamps)) :
                             T[i] <= seen - p.windowMs
                   Lens == Len(w.timestamps) <= Len(T) /\ Len(w.timestamps) <= p.limit
                   Seen == \A i \in DOMAIN T : T[i] <= seen
        <5>1. Lens /\ Same /\ Gone /\ Seen /\ seen <= now
          BY <3>1, <4>1 DEF WindowFollows
        <5>2. seen <= now + 1
          BY <3>3, <3>4, <4>1, <5>1
        <5> QED BY <4>1, <5>1, <5>2, Zenon DEF WindowFollows
      <4>2. CASE ~w.present
        <5>1. \A i \in DOMAIN T : T[i] <= now - p.windowMs
          BY <3>1, <4>2 DEF WindowFollows
        <5>2. \A i \in DOMAIN T : T[i] <= (now + 1) - p.windowMs
          BY <3>2, <3>3, <5>1
        <5> QED BY <4>2, <5>2, Zenon DEF WindowFollows
      <4> QED BY <4>1, <4>2
    <3> QED BY <3>5, <3>6
  <2>4. ASSUME ~Slides(l)
        PROVE  BucketFollows(buckets[l.key], T, p, now + 1) /\ Burst(T, p)
    <3>1. BucketFollows(buckets[l.key], T, p, now) /\ Burst(T, p)
      BY <2>1, <2>4 DEF LimitFollowed
    <3> QED BY <1>2, <2>1, <3>1, BucketWaits
  <2> QED BY <1>1, <2>3, <2>4 DEF LimitFollowed
<1> QED BY <1>3, <1>4 DEF Followed

LEMMA LimitsStated == LimiterTypeOK /\ Followed => LimitsRight
<1> SUFFICES ASSUME LimiterTypeOK, Followed PROVE LimitsRight
  OBVIOUS
<1>1. WindowLimit
  BY DEF WindowLimit, Followed, LimitFollowed, Spaced
<1>2. BurstLimit
  BY DEF BurstLimit, Followed, LimitFollowed, Burst
<1> QED BY <1>1, <1>2, PoliciesLoad, RetriesExact, HeadersTell
        DEF LimitsRight, AdmissionsLimited, ToldRight

\* RateLimitService: where no two limits share a state and no window is longer than
\* states are kept, no limit admits more than it may, a client that waits as long
\* as it was told is admitted and none that waits less, the headers speak for all
\* limits of a request, and every configuration that loads limits something.
THEOREM LimiterCorrect ==
  ASSUME KeysApart, KeptLongEnough
  PROVE  LimiterSpec => []LimitsRight
<1> DEFINE LInv == LimiterTypeOK /\ Followed
<1>1. LimiterInit => LInv
  BY LimiterStarts
<1>2. LInv /\ [LimiterNext]_limiterVars => LInv'
  <2> SUFFICES ASSUME LInv, [LimiterNext]_limiterVars PROVE LInv'
    OBVIOUS
  <2>1. ASSUME NEW r \in HttpRequests, Check(r) PROVE LInv'
    BY <2>1, CheckKeeps
  <2>2. CASE Prune
    BY <2>2, PruneKeeps
  <2>3. CASE LimiterTick
    BY <2>3, LimiterTickKeeps
  <2>4. CASE UNCHANGED limiterVars
    BY <2>4 DEF limiterVars, LimiterTypeOK, Followed, LimitFollowed
  <2> QED BY <2>1, <2>2, <2>3, <2>4 DEF LimiterNext
<1>3. LInv => LimitsRight
  BY LimitsStated
<1> QED BY <1>1, <1>2, <1>3, PTL DEF LimiterSpec
================================================================================
