----------------------------- MODULE Monitoring -----------------------------
(***************************************************************************)
(* Monitoring (src/src/monitoring/): MetricsInterceptor counts every        *)
(* request in MetricsService and PerformanceService, and AlertingService    *)
(* evaluates its rules on what they counted.  A request is in progress      *)
(* between the two halves of the interceptor; an evaluation takes a summary,*)
(* awaits the health check and then applies all rules at once.  A timer     *)
(* starts an evaluation whether or not the one before has ended.            *)
(*                                                                          *)
(* A label set is a route; a status is an error or not, a latency slow      *)
(* (over the threshold of the rule) or not.  Rates are in hundredths of a   *)
(* percent.  Traces, logs, request rates and system metrics are left out.   *)
(***************************************************************************)
EXTENDS Integers, SequencesExt

CONSTANTS
  Handlers,       \* concurrent requests
  Evaluations,    \* concurrent evaluations
  Routes,         \* the label sets {method, path}
  RuleOrder,      \* the rules in the order evaluateRules takes them
  MinRequests,    \* requests before the error rate counts
  ErrorRate,      \* threshold of the error rate, in hundredths of a percent
  BufferSize,     \* PerformanceService.maxBufferSize
  MaxHistory,     \* AlertingService.maxAlertHistory
  MaxRequests,    \* bound on requests
  MaxTests        \* bound on test alerts

RuleIds == {"high-error-rate", "high-latency-p95", "high-memory-usage",
            "database-disconnected", "rebalancing-failure-spike"}

NoRoute == "none"

ASSUME MonitoringAssumption ==
  /\ IsFiniteSet(Routes) /\ NoRoute \notin Routes
  /\ RuleOrder \in Seq(RuleIds) /\ IsInjective(RuleOrder)
  /\ MinRequests \in Nat /\ ErrorRate \in Nat /\ BufferSize \in Nat \ {0}
  /\ MaxHistory \in Nat /\ MaxRequests \in Nat /\ MaxTests \in Nat

VARIABLES
  requests,      \* the route of every request in progress
  inFlight,      \* gauge http_requests_in_flight
  total,         \* counter http_requests_total, by route
  errorTotal,    \* counter http_errors_total, by route
  performance,   \* PerformanceService: counts of requests and the latencies
  database,      \* whether the database answers
  evaluations,   \* the evaluations in progress
  state,         \* AlertRule.state
  alerts,        \* firedAlertsHistory, newest first
  tests,         \* history: test alerts so far
  shared         \* history: routes with a request that overlapped another

vars == <<requests, inFlight, total, errorTotal, performance, database,
          evaluations, state, alerts, tests, shared>>

Rules == Range(RuleOrder)
TestRule == "test-ops-alert"
Alert == [rule: Rules \union {TestRule}, resolved: BOOLEAN]
Status == {"ok", "error"}
Latency == {"fast", "slow"}

Performance == [active: Nat, total: Nat, errors: Nat, latencies: Seq(Latency)]
Summary == [exceeded: SUBSET Rules, recovered: SUBSET Rules]
Evaluation == [pc: {"query", "answer"}, summary: Summary, database: {"up", "down"}]
Idle == [pc |-> "idle"]

Init ==
  /\ requests = [h \in Handlers |-> NoRoute]
  /\ inFlight = [r \in Routes |-> 0]
  /\ total = [r \in Routes |-> 0]
  /\ errorTotal = [r \in Routes |-> 0]
  /\ performance = [active |-> 0, total |-> 0, errors |-> 0, latencies |-> <<>>]
  /\ database \in {"up", "down"}
  /\ evaluations = [e \in Evaluations |-> Idle]
  /\ state = [r \in Rules |-> "ok"]
  /\ alerts = <<>>
  /\ tests = 0
  /\ shared = {}

InProgress(r) == {h \in Handlers : requests[h] = r}

-----------------------------------------------------------------------------
(* MetricsInterceptor *)

Arrive(h, r) ==
  /\ requests[h] = NoRoute
  /\ performance.total + performance.active < MaxRequests
  /\ requests' = [requests EXCEPT ![h] = r]
  /\ inFlight' = [inFlight EXCEPT ![r] = 1]
  /\ performance' = [performance EXCEPT !.active = @ + 1]
  /\ shared' = IF InProgress(r) # {} THEN shared \union {r} ELSE shared
  /\ UNCHANGED <<total, errorTotal, database, evaluations, state, alerts, tests>>

Buffered(latencies, latency) ==
  IF Len(latencies) = BufferSize THEN Append(Tail(latencies), latency)
                                 ELSE Append(latencies, latency)

\* decrementActiveRequests and recordRequest
Recorded(p, status, latency) ==
  [active |-> IF p.active > 0 THEN p.active - 1 ELSE 0,
   total |-> p.total + 1,
   errors |-> IF status = "error" THEN p.errors + 1 ELSE p.errors,
   latencies |-> Buffered(p.latencies, latency)]

\* Defect: the gauge keeps its value.
FinishGaugeKept(h) ==
  /\ requests[h] # NoRoute
  /\ requests' = [requests EXCEPT ![h] = NoRoute]
  /\ total' = [total EXCEPT ![requests[h]] = @ + 1]
  /\ shared' = IF InProgress(requests[h]) = {h} THEN shared \ {requests[h]} ELSE shared
  /\ UNCHANGED <<inFlight, database, evaluations, state, alerts, tests>>

\* What both ends of a request have in common.
Finish(h) ==
  /\ requests[h] # NoRoute
  /\ requests' = [requests EXCEPT ![h] = NoRoute]
  /\ inFlight' = [inFlight EXCEPT ![requests[h]] = 0]
  /\ total' = [total EXCEPT ![requests[h]] = @ + 1]
  /\ shared' = IF InProgress(requests[h]) = {h} THEN shared \ {requests[h]} ELSE shared
  /\ UNCHANGED <<database, evaluations, state, alerts, tests>>

CountError(h) == errorTotal' = [errorTotal EXCEPT ![requests[h]] = @ + 1]

\* The handler returned; it may have set an error status.
Respond(h, status, latency) ==
  /\ Finish(h)
  /\ performance' = Recorded(performance, status, latency)
  /\ IF status = "error" THEN CountError(h) ELSE UNCHANGED errorTotal

\* The handler, or an interceptor or pipe before it, threw.
CatchError(h, latency) ==
  /\ Finish(h)
  /\ performance' = Recorded(performance, "error", latency)
  /\ CountError(h)

-----------------------------------------------------------------------------
(* getSummary *)

\* Half up, to a hundredth of a percent.
ErrorRatePercentage(p) ==
  IF p.total = 0 THEN 0 ELSE (20000 * p.errors + p.total) \div (2 * p.total)

\* getPercentile: with n latencies sorted, the one at index ceil(0.95 n) - 1.
P95(latencies) ==
  LET n == Len(latencies)
      fast == Cardinality({i \in DOMAIN latencies : latencies[i] = "fast"})
      rank == (95 * n + 99) \div 100
  IN IF n = 0 \/ rank <= fast THEN "fast" ELSE "slow"

\* What the rules find in the summary; an error rate that exceeds the threshold
\* in too few requests is neither.
Summarized(p) ==
  LET rate == ErrorRatePercentage(p)
      exceeded == {r \in Rules :
        \/ r = "high-error-rate" /\ p.total >= MinRequests /\ rate > ErrorRate
        \/ r = "high-latency-p95" /\ P95(p.latencies) = "slow"}
  IN [exceeded |-> exceeded,
      recovered |-> {r \in Rules \ exceeded : r = "high-error-rate" => rate <= ErrorRate}]

-----------------------------------------------------------------------------
(* AlertingService *)

\* The timer, every ten seconds: the summary is taken before the health check.
EvaluateRules(e) ==
  /\ evaluations[e] = Idle
  /\ evaluations' = [evaluations EXCEPT ![e] =
       [pc |-> "query", summary |-> Summarized(performance), database |-> "up"]]
  /\ UNCHANGED <<requests, inFlight, total, errorTotal, performance, database,
                 state, alerts, tests, shared>>

\* Defect: a query that fails leaves the component up.
CheckDatabaseSwallowed(e) ==
  /\ evaluations[e].pc = "query"
  /\ evaluations' = [evaluations EXCEPT ![e].pc = "answer"]
  /\ UNCHANGED <<requests, inFlight, total, errorTotal, performance, database,
                 state, alerts, tests, shared>>

\* The database answers the query of the health check, or does not.
CheckDatabase(e) ==
  /\ evaluations[e].pc = "query"
  /\ evaluations' = [evaluations EXCEPT ![e].pc = "answer", ![e].database = database]
  /\ UNCHANGED <<requests, inFlight, total, errorTotal, performance, database,
                 state, alerts, tests, shared>>

\* Nothing in the code increments astraport_rebalancing_executions_total.
RebalancingFailures == 0

\* The rules whose condition holds; the heap is looked at after the await.
Exceeding(evaluation, heapHigh) ==
  evaluation.summary.exceeded \union
    {r \in Rules :
       \/ r = "high-memory-usage" /\ heapHigh
       \/ r = "database-disconnected" /\ evaluation.database = "down"
       \/ r = "rebalancing-failure-spike" /\ RebalancingFailures >= 3}

\* fireAlert, which fires again what is firing already.
Fired(history, rule) ==
  LET fired == <<[rule |-> rule, resolved |-> FALSE]>> \o history
  IN IF Len(fired) > MaxHistory THEN Front(fired) ELSE fired

\* Defect: the oldest open alert is resolved.
ResolvedOldest(history, rule) ==
  LET open == {i \in DOMAIN history : history[i].rule = rule /\ ~history[i].resolved}
  IN [i \in DOMAIN history |->
        [history[i] EXCEPT !.resolved = @ \/ (i \in open /\ \A j \in open : j <= i)]]

\* resolveAlert: the newest open alert of the rule.
Resolved(history, rule) ==
  LET open == {i \in DOMAIN history : history[i].rule = rule /\ ~history[i].resolved}
  IN [i \in DOMAIN history |->
        [history[i] EXCEPT !.resolved = @ \/ (i \in open /\ \A j \in open : i <= j)]]

\* The health check has answered: the rules are applied one after the other.
ApplyRules(e, heapHigh) ==
  /\ evaluations[e].pc = "answer"
  /\ LET fires == Exceeding(evaluations[e], heapHigh)
         resolves == {r \in evaluations[e].summary.recovered \ fires : state[r] = "firing"}
         Apply(history, r) == IF r \in fires THEN Fired(history, r)
                              ELSE IF r \in resolves THEN Resolved(history, r)
                              ELSE history
     IN /\ alerts' = FoldLeft(Apply, alerts, RuleOrder)
        /\ state' = [r \in Rules |-> IF r \in fires THEN "firing"
                                     ELSE IF r \in resolves THEN "ok" ELSE state[r]]
  /\ evaluations' = [evaluations EXCEPT ![e] = Idle]
  /\ UNCHANGED <<requests, inFlight, total, errorTotal, performance, database, tests, shared>>

\* A test alert is not counted against maxAlertHistory.
TriggerTestAlert ==
  /\ tests < MaxTests
  /\ tests' = tests + 1
  /\ alerts' = <<[rule |-> TestRule, resolved |-> FALSE]>> \o alerts
  /\ UNCHANGED <<requests, inFlight, total, errorTotal, performance, database,
                 evaluations, state, shared>>

\* The database fails or comes back.
DatabaseChanges ==
  /\ database' \in {"up", "down"} \ {database}
  /\ UNCHANGED <<requests, inFlight, total, errorTotal, performance,
                 evaluations, state, alerts, tests, shared>>

Next ==
  \/ \E h \in Handlers :
       \/ \E r \in Routes : Arrive(h, r)
       \/ \E latency \in Latency :
            (\E status \in Status : Respond(h, status, latency)) \/ CatchError(h, latency)
  \/ \E e \in Evaluations :
       \/ EvaluateRules(e) \/ CheckDatabase(e)
       \/ \E heapHigh \in BOOLEAN : ApplyRules(e, heapHigh)
  \/ TriggerTestAlert \/ DatabaseChanges

Spec == Init /\ [][Next]_vars

\* The timer goes on, and health checks answer.
Fairness ==
  /\ WF_vars(\E e \in Evaluations : EvaluateRules(e))
  /\ \A e \in Evaluations :
       WF_vars(CheckDatabase(e)) /\ WF_vars(\E high \in BOOLEAN : ApplyRules(e, high))

FairSpec == Spec /\ Fairness

-----------------------------------------------------------------------------
(* Properties *)

\* Requests, counters, evaluations, rules and alerts are what they may be; the
\* buffer of latencies is bounded, and maxAlertHistory bounds the history of alerts
\* but for one place for each test alert.
TypeOK ==
  /\ requests \in [Handlers -> Routes \union {NoRoute}]
  /\ inFlight \in [Routes -> {0, 1}]
  /\ total \in [Routes -> Nat]
  /\ errorTotal \in [Routes -> Nat]
  /\ performance \in Performance
  /\ Len(performance.latencies) <= BufferSize
  /\ database \in {"up", "down"}
  /\ evaluations \in [Evaluations -> Evaluation \union {Idle}]
  /\ state \in [Rules -> {"ok", "firing"}]
  /\ alerts \in Seq(Alert) /\ Len(alerts) <= MaxHistory + tests
  /\ tests \in 0..MaxTests
  /\ shared \subseteq Routes

SumOver(f) == FoldFunction(+, 0, f)

\* However requests overlap, succeed and fail, every one in progress is counted as
\* active, and every one that ended is counted once, and as an error if it was one,
\* by the metrics and the performance summary alike; and the gauge is the "Current
\* number of HTTP requests being processed", unless two requests of its route
\* overlapped and one of them is in progress still (MetricsInterceptor).
CountersAgree ==
  /\ TypeOK
  /\ performance.active = Cardinality({h \in Handlers : requests[h] # NoRoute})
  /\ SumOver(total) = performance.total
  /\ SumOver(errorTotal) = performance.errors
  /\ \A r \in Routes \ shared : inFlight[r] = Cardinality(InProgress(r))

\* While a rule stays as it is, every evaluation that found it in neither state puts
\* at most an alert of each other rule before its own.
HistoryLongEnough ==
  /\ IsFiniteSet(Evaluations)
  /\ MaxHistory >= 1 + Cardinality(Evaluations) * (Len(RuleOrder) - 1) + MaxTests

NewestOpen(r) ==
  \E i \in DOMAIN alerts :
    /\ alerts[i] = [rule |-> r, resolved |-> FALSE]
    /\ \A j \in 1..(i - 1) : alerts[j].rule # r

\* The history shows what fires: the newest alert of a rule is open exactly while
\* the rule is firing, whatever evaluations overlap, however often it fired, and
\* although old alerts are dropped (fireAlert, resolveAlert).
NewestFollowsState == \A r \in Rules : state[r] = "firing" <=> NewestOpen(r)

\* When the database is down for good its alert fires in the end, and when it is up
\* for good the alert is resolved: an evaluation that asked before the last change
\* and applies its answer late is set right by a later one (evaluateRules).
DatabaseAlertSettles ==
  \A s \in {"up", "down"} :
    <>[](database = s)
      => <>[](state["database-disconnected"] = IF s = "down" THEN "firing" ELSE "ok")
=============================================================================
