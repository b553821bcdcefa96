--------------------------- MODULE DriftDetection ---------------------------
(***************************************************************************)
(* Drift detection (src/src/rebalancing/).  DriftCalculatorService compares *)
(* the weights of a portfolio with their targets, saves a snapshot, raises  *)
(* alerts and tells the webhooks.  No operation awaits anything, so each is *)
(* one step; what is hard is the order of calls, and the rounding.          *)
(*                                                                          *)
(* Weights, drifts and thresholds are in units of 1e-5, one digit finer     *)
(* than what the service rounds to.  An alert is counted under its          *)
(* portfolio, asset and severity; a request lists an asset once.  The       *)
(* enabled flag and the URL of a configuration change nothing in the code   *)
(* and are left out; so are texts and times.                                *)
(***************************************************************************)
EXTENDS Integers, FiniteSetsExt, SequencesExt

CONSTANTS
  Portfolios,
  Symbols,        \* assets
  Target,         \* targetWeight of an asset
  Weights,        \* values of currentWeight
  Configs,        \* thresholds of a configuration
  EventSets,      \* the events a webhook registers for
  HistoryLimit,   \* snapshots kept per portfolio (1000)
  MaxSnapshots,   \* bound on snapshots
  MaxHooks        \* bound on webhooks

Severities == {"warning", "critical"}
Thresholds == [Severities -> Nat]
Levels == Severities \union {"healthy"}

ASSUME DriftAssumption ==
  /\ IsFiniteSet(Symbols) /\ Target \in [Symbols -> Nat] /\ Weights \subseteq Nat
  /\ Configs \subseteq Thresholds
  /\ EventSets \subseteq SUBSET (Severities \union {"resolved"})
  /\ HistoryLimit \in Nat \ {0} /\ MaxSnapshots \in Nat /\ MaxHooks \in Nat

VARIABLES
  configs,       \* thresholds of the portfolios that have a configuration
  driftHistory,  \* snapshots of a portfolio, oldest first
  openAlerts,    \* alerts that are not acknowledged: their number
  acknowledged,  \* alerts that are: their number
  webhooks,      \* webhooks of a portfolio in order of registration
  breaches,      \* history: what the last snapshot found and nobody acknowledged
  snapshots      \* history: snapshots so far

driftVars == <<configs, driftHistory, openAlerts, acknowledged, webhooks, breaches, snapshots>>

Alerts == Portfolios \X Symbols \X Severities
Snapshot == [status: Levels, overallDrift: Nat, maxDrift: Nat, breached: Nat,
             exact: Nat, thresholds: Thresholds]   \* the last two: history
\* calls: the calls of sendWebhook; since: alerts raised before the registration
Webhook == [events: EventSets, calls: Nat, since: [Severities -> Nat]]

DriftInit ==
  /\ configs = <<>>
  /\ driftHistory = [p \in Portfolios |-> <<>>]
  /\ openAlerts = [a \in Alerts |-> 0]
  /\ acknowledged = [a \in Alerts |-> 0]
  /\ webhooks = [p \in Portfolios |-> <<>>]
  /\ breaches = [p \in Portfolios |-> {}]
  /\ snapshots = 0

-----------------------------------------------------------------------------
(* DriftCalculatorService *)

CreateConfig(p, t) ==
  /\ configs' = [q \in {p} \union DOMAIN configs |-> IF q = p THEN t ELSE configs[q]]
  /\ UNCHANGED <<driftHistory, openAlerts, acknowledged, webhooks, breaches, snapshots>>

\* The fields that the request leaves undefined keep their values.
UpdateConfig(p, fields, t) ==
  /\ p \in DOMAIN configs
  /\ configs' = [configs EXCEPT ![p] = [s \in Severities |-> IF s \in fields THEN t[s] ELSE @[s]]]
  /\ UNCHANGED <<driftHistory, openAlerts, acknowledged, webhooks, breaches, snapshots>>

\* 0.05 and 0.10 without a configuration
ThresholdsOf(p) ==
  IF p \in DOMAIN configs THEN configs[p]
                          ELSE [s \in Severities |-> IF s = "warning" THEN 5000 ELSE 10000]

Drift(weights, a) ==
  IF weights[a] >= Target[a] THEN weights[a] - Target[a] ELSE Target[a] - weights[a]

\* toFixed(4)
Rounded(drift) == ((drift + 5) \div 10) * 10

\* The critical threshold is asked first, whether or not it is the higher one.
Level(drift, t) ==
  CASE drift >= t["critical"] -> "critical"
    [] drift >= t["warning"] /\ drift < t["critical"] -> "warning"
    [] OTHER -> "healthy"

\* The assets in breach with their severity.
Breached(weights, t) ==
  {b \in (DOMAIN weights) \X Severities : Level(Drift(weights, b[1]), t) = b[2]}

\* Defect: the portfolio is judged by the mean of the drifts.
MeanDrift(weights) ==
  SumFunction([a \in DOMAIN weights |-> Rounded(Drift(weights, a))])
    \div Max({1, Cardinality(DOMAIN weights)})

MaxDrift(weights) == Max({0} \union {Rounded(Drift(weights, a)) : a \in DOMAIN weights})

\* The mean, again to four digits.
OverallDrift(weights) ==
  LET n == Cardinality(DOMAIN weights)
      sum == SumFunction([a \in DOMAIN weights |-> Rounded(Drift(weights, a))])
  IN IF n = 0 THEN 0 ELSE 10 * ((2 * sum + 10 * n) \div (20 * n))

\* An asset is judged by its drift, the portfolio by the highest rounded one.
SnapshotOf(weights, t) ==
  [status |-> Level(MaxDrift(weights), t),
   overallDrift |-> OverallDrift(weights), maxDrift |-> MaxDrift(weights),
   breached |-> Cardinality(Breached(weights, t)),
   exact |-> Max({0} \union {Drift(weights, a) : a \in DOMAIN weights}), thresholds |-> t]

\* persistSnapshot
Persisted(entries, snapshot) ==
  IF Len(entries) = HistoryLimit THEN Append(Tail(entries), snapshot)
                                   ELSE Append(entries, snapshot)

\* Defect: an alert that was acknowledged counts as a duplicate.
DuplicateEver(p, a, s) == openAlerts[<<p, a, s>>] + acknowledged[<<p, a, s>>] > 0

\* The alerts that are not acknowledged are searched.
Duplicate(p, a, s) == openAlerts[<<p, a, s>>] > 0

\* Defect: only the first webhook of the portfolio is told.
DispatchedToFirst(hooks, raised) ==
  [i \in DOMAIN hooks |-> [hooks[i] EXCEPT !.calls =
     @ + IF i = 1 THEN Cardinality({r \in raised : r[2] \in hooks[i].events}) ELSE 0]]

\* dispatchWebhookNotifications, which does not wait for an answer
Dispatched(hooks, raised) ==
  [i \in DOMAIN hooks |-> [hooks[i] EXCEPT !.calls =
     @ + Cardinality({r \in raised : r[2] \in hooks[i].events})]]

\* getDriftStatus and, for its effects, getDriftAnalysis
CalculateDrift(p, weights) ==
  LET t == ThresholdsOf(p)
      breached == Breached(weights, t)
      raised == {b \in breached : ~Duplicate(p, b[1], b[2])}
  IN
  /\ snapshots < MaxSnapshots
  /\ snapshots' = snapshots + 1
  /\ driftHistory' = [driftHistory EXCEPT ![p] = Persisted(@, SnapshotOf(weights, t))]
  /\ openAlerts' = [a \in Alerts |->
       IF a[1] = p /\ <<a[2], a[3]>> \in raised THEN openAlerts[a] + 1 ELSE openAlerts[a]]
  /\ webhooks' = [webhooks EXCEPT ![p] = Dispatched(@, raised)]
  /\ breaches' = [breaches EXCEPT ![p] = breached]
  /\ UNCHANGED <<configs, acknowledged>>

\* To acknowledge an alert again changes nothing that is kept here.
AcknowledgeAlert(p, a, s) ==
  /\ openAlerts[<<p, a, s>>] > 0
  /\ openAlerts' = [openAlerts EXCEPT ![<<p, a, s>>] = @ - 1]
  /\ acknowledged' = [acknowledged EXCEPT ![<<p, a, s>>] = @ + 1]
  /\ breaches' = [breaches EXCEPT ![p] = @ \ {<<a, s>>}]
  /\ UNCHANGED <<configs, driftHistory, webhooks, snapshots>>

\* The alerts of a portfolio and severity that were ever raised.
Raised(p, s) == SumFunction([a \in Symbols |-> openAlerts[<<p, a, s>>] + acknowledged[<<p, a, s>>]])

RegisterWebhook(p, events) ==
  /\ SumFunction([q \in Portfolios |-> Len(webhooks[q])]) < MaxHooks
  /\ webhooks' = [webhooks EXCEPT ![p] =
       Append(@, [events |-> events, calls |-> 0, since |-> [s \in Severities |-> Raised(p, s)]])]
  /\ UNCHANGED <<configs, driftHistory, openAlerts, acknowledged, breaches, snapshots>>

-----------------------------------------------------------------------------
(* analysePortfolio, which begins with calculateDrift *)

\* getHistory: newest first
HistoryOf(p, limit) ==
  LET entries == driftHistory[p]
      first == IF limit = 0 \/ limit >= Len(entries) THEN 1 ELSE Len(entries) - limit + 1
  IN Reverse(SubSeq(entries, first, Len(entries)))

Sum(values) == FoldLeft(+, 0, values)

\* calculateTrend: the mean of the second half less that of the first, a fraction
CalculateTrend(values) ==
  LET half == Len(values) \div 2
      rest == Len(values) - half
  IN IF Len(values) < 4 THEN [num |-> 0, den |-> 1]
     ELSE [num |-> Sum(SubSeq(values, half + 1, Len(values))) * half
                     - Sum(SubSeq(values, 1, half)) * rest,
           den |-> half * rest]

Unknown == -1

\* projectBreachDays, at 24 snapshots a day
ProjectBreachDays(drift, trend, critical) ==
  LET estimate == ((critical - drift) * trend.den + trend.num - 1) \div trend.num
  IN IF drift >= critical \/ trend.num <= 0 THEN Unknown ELSE Max({1, (2 * estimate + 24) \div 48})

\* What follows the snapshot; the average and the peak of the period, and the
\* recommendation, are left out.
AnalysePortfolio(p, periodDays) ==
  LET entries == HistoryOf(p, 24 * periodDays)
      current == Last(driftHistory[p])
      trend == CalculateTrend([i \in DOMAIN entries |-> entries[i].overallDrift])
      days == ProjectBreachDays(current.overallDrift, trend, ThresholdsOf(p)["critical"])
  IN [currentStatus |-> current, driftTrend |-> trend, projectedBreachDays |-> days]

-----------------------------------------------------------------------------
DriftNext ==
  \/ \E p \in Portfolios, t \in Configs : CreateConfig(p, t)
  \/ \E p \in Portfolios, t \in Configs, fields \in SUBSET Severities \ {{}} :
       UpdateConfig(p, fields, t)
  \/ \E p \in Portfolios, S \in SUBSET Symbols : \E weights \in [S -> Weights] :
       CalculateDrift(p, weights)
  \/ \E p \in Portfolios, a \in Symbols, s \in Severities : AcknowledgeAlert(p, a, s)
  \/ \E p \in Portfolios, events \in EventSets : RegisterWebhook(p, events)

DriftSpec == DriftInit /\ [][DriftNext]_driftVars

-----------------------------------------------------------------------------
(* Properties *)

DriftTypeOK ==
  /\ DOMAIN configs \subseteq Portfolios /\ configs \in [DOMAIN configs -> Thresholds]
  /\ driftHistory \in [Portfolios -> Seq(Snapshot)]
  /\ \A p \in Portfolios : Len(driftHistory[p]) <= HistoryLimit
  /\ webhooks \in [Portfolios -> Seq(Webhook)]
  /\ openAlerts \in [Alerts -> Nat] /\ acknowledged \in [Alerts -> Nat]
  /\ breaches \in [Portfolios -> SUBSET (Symbols \X Severities)]
  /\ snapshots \in 0..MaxSnapshots

\* Of one asset and severity at most one alert waits for an answer ("Avoid
\* duplicate unacknowledged alerts for the same asset + severity"), however the
\* drift moves, the thresholds change and alerts are acknowledged in between;
\* and one does wait for each breach of the last snapshot, also when an earlier
\* alert of it was acknowledged, until it is acknowledged itself.
AlertsFollowBreaches ==
  /\ DriftTypeOK
  /\ \A p \in Portfolios, a \in Symbols, s \in Severities :
       openAlerts[<<p, a, s>>] \in (IF <<a, s>> \in breaches[p] THEN {1} ELSE {0, 1})

\* A webhook is told once of every alert of the severities it registered for,
\* from its registration on, and of no other, whatever was registered besides it.
WebhooksTold ==
  \A p \in Portfolios : \A i \in DOMAIN webhooks[p] :
    LET hook == webhooks[p][i] IN
    hook.calls = SumFunction([s \in hook.events \ {"resolved"} |-> Raised(p, s) - hook.since[s]])

\* The status of a portfolio ("Portfolio-level status derived from thresholds")
\* is the worst of its assets', which decide about the alerts, except when the
\* highest drift is so near to a threshold that the rounding decides.
StatusFollowsAssets ==
  \A p \in Portfolios : \A i \in DOMAIN driftHistory[p] :
    LET s == driftHistory[p][i] IN
    \/ s.status = Level(s.exact, s.thresholds) /\ (s.status = "healthy" <=> s.breached = 0)
    \/ \E severity \in Severities : s.exact - s.thresholds[severity] \in -5..5

\* "Drift trend: positive = drifting further, negative = converging": when each
\* snapshot of the period drifted at least as far as the one before it, the trend
\* is not negative (calculateTrend).
TrendTellsDirection ==
  \A p \in {q \in Portfolios : driftHistory[q] # <<>>} :
    LET entries == driftHistory[p] IN
    (\A i \in 2..Len(entries) : entries[i - 1].overallDrift <= entries[i].overallDrift)
      => AnalysePortfolio(p, 30).driftTrend.num >= 0

\* "Projected days until critical threshold breach, null if already breached":
\* nothing is projected for a portfolio whose status is critical (projectBreachDays).
BreachedNotProjected ==
  \A p \in {q \in Portfolios : driftHistory[q] # <<>>} :
    LET analysis == AnalysePortfolio(p, 30) IN
    analysis.currentStatus.status = "critical" => analysis.projectedBreachDays = Unknown

\* What DriftAnalysisDto says of an analysis (analysePortfolio).
AnalysisAsDocumented == TrendTellsDirection /\ BreachedNotProjected
=============================================================================
