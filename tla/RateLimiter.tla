----------------------------- MODULE RateLimiter -----------------------------
(***************************************************************************)
(* The rate limiter (src/src/rate-limit/): RateLimitService.check applies   *)
(* the policy of the IP, of the user and of the endpoint to every request,  *)
(* each with a token bucket or a sliding window kept under a key; a timer   *)
(* prunes what was idle for long.  check is synchronous, so requests do not *)
(* interleave inside it; what is hard is their history.                     *)
(*                                                                          *)
(* Time is in ticks.  The tokens of a bucket are scaled by its windowMs, so *)
(* that the refill is a whole number: the floating point of the code is     *)
(* taken to be exact.  The metrics and the analytics counters are left out. *)
(* The configuration is a constant; what loadRateLimitConfiguration makes   *)
(* of the environment is shown to be one that the constants allow.          *)
(* The names have a prefix where a component is composed with this one.     *)
(***************************************************************************)
EXTENDS Integers, FiniteSets, SequencesExt

CONSTANTS
  Ips, Users,      \* who may send requests
  Methods,         \* methods of the requests to the one path considered
  NoUser,          \* a request that is not authenticated
  NoPolicy,        \* no endpoint policy for a method
  IpPolicy, UserPolicy,
  Endpoints,       \* the endpoint policies with the methods they select, in order
  Whitelist,       \* trusted IPs and users
  Second,          \* ticks in a second
  MaxIdle,         \* MAX_IDLE_MS
  MaxTime          \* bound on the clock

Algorithms == {"token-bucket", "sliding-window"}
Policy == [limit: Nat \ {0}, windowMs: Nat \ {0}, algorithm: Algorithms, scope: {"ip", "user"}]

ASSUME RateLimiterAssumption ==
  /\ MaxIdle \in Nat /\ MaxTime \in Nat /\ Second \in Nat \ {0}
  /\ IpPolicy \in Policy /\ UserPolicy \in Policy
  /\ Endpoints \in Seq([methods: SUBSET Methods, policy: Policy])
  /\ NoUser \notin Users /\ NoPolicy \notin Policy

VARIABLES
  now,      \* Date.now()
  buckets,  \* TokenBucketRateLimiter.buckets
  windows,  \* SlidingWindowRateLimiter.windows
  taken     \* history: when each policy admitted something under each key

limiterVars == <<now, buckets, windows, taken>>

HttpRequests == [ip: Ips, user: Users \union {NoUser}, method: Methods]

Identities == Ips \union Users
LimitKeys == {"ip", "user", "endpoint"} \X Identities
NoState == [present |-> FALSE]

\* The first policy whose selector matches method and path.
EndpointPolicyIn(endpoints, method) ==
  LET i == SelectInSeq(endpoints, LAMBDA e : method \in e.methods)
  IN IF i = 0 THEN NoPolicy ELSE endpoints[i].policy
EndpointPolicy(method) == EndpointPolicyIn(Endpoints, method)

\* A limit is a policy applied under a key.
Limits ==
  [key: {"ip"} \X Ips, policy: {IpPolicy}]
    \union [key: {"user"} \X Users, policy: {UserPolicy}]
    \union [key: {"endpoint"} \X Identities,
            policy: {EndpointPolicy(m) : m \in Methods} \ {NoPolicy}]

Min2(a, b) == IF a < b THEN a ELSE b
Max2(a, b) == IF a > b THEN a ELSE b
CeilDiv(a, b) == (a + b - 1) \div b

\* Array.filter, as a fold: nothing can be proved about SelectSeq.
Filtered(s, Test(_)) ==
  FoldLeft(LAMBDA kept, x : IF Test(x) THEN Append(kept, x) ELSE kept, <<>>, s)

LimiterInit ==
  /\ now = 0
  /\ buckets = [k \in LimitKeys |-> NoState]
  /\ windows = [k \in LimitKeys |-> NoState]
  /\ taken = [l \in Limits |-> <<>>]

-----------------------------------------------------------------------------
(* loadRateLimitConfiguration *)

\* A number in the environment or in JSON.
RawNumbers == [is: {"absent", "other"}] \union [is: {"integer"}, n: 0..2]
RawAlgorithms == Algorithms \union {"other"}

\* Defect: zero is taken.
IsPositiveOrZero(raw) == raw.is = "integer"

IsPositive(raw) == raw.is = "integer" /\ raw.n > 0

PositiveInteger(raw, fallback) == IF IsPositive(raw) THEN raw.n ELSE fallback
AlgorithmValue(raw, fallback) == IF raw \in Algorithms THEN raw ELSE fallback

\* A variable that is absent or of no use leaves the default in force.
PolicyFromEnvironment(raw, defaults) ==
  [defaults EXCEPT !.limit = PositiveInteger(raw.limit, @),
                   !.windowMs = PositiveInteger(raw.windowMs, @),
                   !.algorithm = AlgorithmValue(raw.algorithm, @)]

\* An entry of RATE_LIMIT_ENDPOINTS_JSON: its key names a method, or none.
RawEndpoints ==
  [methods: {{m} : m \in Methods} \union {Methods}, object: BOOLEAN, limit: RawNumbers,
   windowMs: RawNumbers, algorithm: RawAlgorithms, scope: {"ip", "other"}]

Usable(raw) == raw.object /\ IsPositive(raw.limit) /\ IsPositive(raw.windowMs)

\* Entries of no use are skipped.
ParseEndpointPolicies(entries) ==
  LET usable == Filtered(entries, Usable)
  IN [i \in DOMAIN usable |->
        [methods |-> usable[i].methods,
         policy |-> [limit |-> usable[i].limit.n, windowMs |-> usable[i].windowMs.n,
                     algorithm |-> AlgorithmValue(usable[i].algorithm, "token-bucket"),
                     scope |-> IF usable[i].scope = "ip" THEN "ip" ELSE "user"]]]

-----------------------------------------------------------------------------
(* The two algorithms: what consume does to the state of a key at time t *)

Refilled(bucket, policy, t) ==
  LET full == policy.limit * policy.windowMs IN
  IF bucket.present /\ bucket.limit = policy.limit /\ bucket.windowMs = policy.windowMs
    THEN Min2(full, bucket.tokens + Max2(0, t - bucket.lastRefill) * policy.limit)
    ELSE full

TokenBucket(bucket, policy, t) ==
  LET refilled == Refilled(bucket, policy, t)
      allowed == refilled >= policy.windowMs
      tokens == IF allowed THEN refilled - policy.windowMs ELSE refilled
  IN [allowed |-> allowed,
      retryAfter |-> IF allowed THEN 0
                     ELSE Max2(1, CeilDiv(policy.windowMs - tokens, policy.limit)),
      remaining |-> tokens \div policy.windowMs,
      state |-> [present |-> TRUE, tokens |-> tokens, lastRefill |-> t,
                 limit |-> policy.limit, windowMs |-> policy.windowMs]]

\* Defect: the window is one tick short.
RecentShort(window, policy, t) ==
  IF window.present
    THEN Filtered(window.timestamps, LAMBDA s : s > t - policy.windowMs + 1) ELSE <<>>

\* The admissions in the window that ends at time t.
Recent(window, policy, t) ==
  IF window.present
    THEN Filtered(window.timestamps, LAMBDA s : s > t - policy.windowMs) ELSE <<>>

\* Defect: the client waits for the newest admission to leave the window.
ResetAtNewest(timestamps, policy) == timestamps[Len(timestamps)] + policy.windowMs

ResetAt(timestamps, policy) == Head(timestamps) + policy.windowMs

SlidingWindow(window, policy, t) ==
  LET recent == Recent(window, policy, t)
      allowed == Len(recent) < policy.limit
      timestamps == IF allowed THEN Append(recent, t) ELSE recent
  IN [allowed |-> allowed,
      retryAfter |-> IF allowed THEN 0 ELSE Max2(1, ResetAt(timestamps, policy) - t),
      remaining |-> Max2(0, policy.limit - Len(timestamps)),
      state |-> [present |-> TRUE, timestamps |-> timestamps, lastSeen |-> t]]

Slides(l) == l.policy.algorithm = "sliding-window"

\* What the limiter of a limit answers at time t, to a key in a state.
Answer(l, state, t) ==
  IF Slides(l) THEN SlidingWindow(state, l.policy, t) ELSE TokenBucket(state, l.policy, t)
Consume(l, t) == Answer(l, IF Slides(l) THEN windows[l.key] ELSE buckets[l.key], t)

-----------------------------------------------------------------------------
(* check *)

Whitelisted(r) == r.ip \in Whitelist \/ r.user \in Whitelist

\* The key names the path and the identity, and not the method.
EndpointLimit(r) ==
  LET policy == EndpointPolicy(r.method)
      identity == IF policy.scope = "ip" \/ r.user = NoUser THEN r.ip ELSE r.user
  IN IF policy = NoPolicy THEN <<>>
     ELSE <<[key |-> <<"endpoint", identity>>, policy |-> policy]>>

UserLimit(r) ==
  IF r.user = NoUser THEN <<>> ELSE <<[key |-> <<"user", r.user>>, policy |-> UserPolicy]>>

\* The limits of a request, in the order they are applied.
LimitsOf(r) ==
  <<[key |-> <<"ip", r.ip>>, policy |-> IpPolicy]>> \o UserLimit(r) \o EndpointLimit(r)

\* A request is rejected if a limit denies it.
Denied(results) == {i \in DOMAIN results : ~results[i].allowed}

\* The states of the keys that an algorithm keeps, after its limits answered.
Updated(old, limits, results, slides) ==
  [k \in LimitKeys |->
     LET hits == {i \in DOMAIN limits : limits[i].key = k /\ Slides(limits[i]) = slides}
     IN IF hits = {} THEN old[k] ELSE results[CHOOSE i \in hits : TRUE].state]

\* Every limit is consumed, also when another one denies the request.
Check(r) ==
  LET limits == LimitsOf(r)
      results == [i \in DOMAIN limits |-> Consume(limits[i], now)]
      admitted == {limits[i] : i \in DOMAIN limits \ Denied(results)}
  IN /\ ~Whitelisted(r)
     /\ buckets' = Updated(buckets, limits, results, FALSE)
     /\ windows' = Updated(windows, limits, results, TRUE)
     /\ taken' = [l \in Limits |-> IF l \in admitted THEN Append(taken[l], now) ELSE taken[l]]
     /\ UNCHANGED now

\* Defect: the limit with the fewest requests left is not looked for.
MostRestrictiveFirst(limits, results) == 1

\* The first limit of those with the least part of it remaining.
MostRestrictive(limits, results) ==
  Min({i \in DOMAIN results : \A j \in DOMAIN results :
         results[i].remaining * limits[j].policy.limit
           <= results[j].remaining * limits[i].policy.limit})

\* What check decides: the answer of the first limit that denies the request, or
\* of the most restrictive one.
Decision(limits, results) ==
  results[IF Denied(results) # {} THEN Min(Denied(results)) ELSE MostRestrictive(limits, results)]

\* setHeaders
Headers(decision) ==
  [remaining |-> decision.remaining,
   retryAfter |-> IF decision.allowed THEN 0 ELSE Max2(1, CeilDiv(decision.retryAfter, Second))]

\* The cleanup timer.
Prune ==
  /\ buckets' = [k \in LimitKeys |->
       IF buckets[k].present /\ buckets[k].lastRefill < now - MaxIdle THEN NoState ELSE buckets[k]]
  /\ windows' = [k \in LimitKeys |->
       IF windows[k].present /\ windows[k].lastSeen < now - MaxIdle THEN NoState ELSE windows[k]]
  /\ UNCHANGED <<now, taken>>

LimiterTick ==
  /\ now < MaxTime
  /\ now' = now + 1
  /\ UNCHANGED <<buckets, windows, taken>>

LimiterNext == (\E r \in HttpRequests : Check(r)) \/ Prune \/ LimiterTick

LimiterSpec == LimiterInit /\ [][LimiterNext]_limiterVars

-----------------------------------------------------------------------------
(* Properties *)

Bucket == [present: {TRUE}, tokens: Nat, lastRefill: 0..MaxTime,
           limit: Nat \ {0}, windowMs: Nat \ {0}]
Window == [present: {TRUE}, timestamps: Seq(0..MaxTime), lastSeen: 0..MaxTime]

\* Buckets and windows hold what they may hold; a bucket is never overfull.
LimiterTypeOK ==
  /\ now \in 0..MaxTime
  /\ \A k \in LimitKeys :
       /\ buckets[k] \in Bucket \union {NoState}
       /\ windows[k] \in Window \union {NoState}
       /\ buckets[k].present => buckets[k].tokens <= buckets[k].limit * buckets[k].windowMs
  /\ taken \in [Limits -> Seq(0..MaxTime)]

\* No window of windowMs admits more than the limit, whatever was pruned and
\* whichever requests were denied by another limit in between.
WindowLimit ==
  \A l \in Limits : Slides(l) =>
    \A i \in DOMAIN taken[l] :
      i > l.policy.limit =>
        taken[l][i] - taken[l][i - l.policy.limit] >= l.policy.windowMs

\* Between any two admissions a bucket admits its capacity and what was
\* refilled in between, and no more.
BurstLimit ==
  \A l \in Limits : ~Slides(l) =>
    \A i, j \in DOMAIN taken[l] :
      i <= j => (j - i + 1) * l.policy.windowMs
                  <= (l.policy.windowMs + taken[l][j] - taken[l][i]) * l.policy.limit

\* Whatever is in the environment, the policies loaded from it limit something, as
\* the constants assume: no variable turns a limit off by being wrong, and a method
\* for which some entry of the endpoints is of use has a policy whatever the others
\* are (loadRateLimitConfiguration).
PoliciesSound ==
  /\ \A raw \in [limit: RawNumbers, windowMs: RawNumbers, algorithm: RawAlgorithms],
        policy \in {IpPolicy, UserPolicy} : PolicyFromEnvironment(raw, policy) \in Policy
  /\ \A e1, e2 \in RawEndpoints :
       LET endpoints == ParseEndpointPolicies(<<e1, e2>>) IN
       /\ \A i \in DOMAIN endpoints : endpoints[i].policy \in Policy
       /\ \A e \in {e1, e2} : e.object /\ PositiveInteger(e.limit, 0) * PositiveInteger(e.windowMs, 0) > 0
            => \A m \in e.methods : EndpointPolicyIn(endpoints, m) # NoPolicy

\* No limit admits more than it may, with either algorithm and whatever is
\* configured (check).
AdmissionsLimited == LimiterTypeOK /\ PoliciesSound /\ WindowLimit /\ BurstLimit

\* A client a limit denies is admitted by that limit when it comes back after
\* the time it was told, and nobody used the limit meanwhile; a window denies
\* nothing it need not deny: the time told is the shortest.
RetryAfterExact ==
  \A l \in Limits :
    LET answer == Consume(l, now)
        Later(n) == Answer(l, answer.state, now + n)
    IN ~answer.allowed =>
         /\ Later(answer.retryAfter).allowed
         /\ \A n \in 0..(answer.retryAfter - 1) : ~Later(n).allowed

\* The headers speak for all limits of a request: the client is told that
\* nothing remains exactly when its next request would be denied by one of them
\* at once ("the most restrictive active policy is reported"), and the seconds of
\* a Retry-After are enough for the limit that denied.
HeadersRight ==
  \A r \in HttpRequests :
    LET limits == LimitsOf(r)
        results == [i \in DOMAIN limits |-> Consume(limits[i], now)]
        After(i, n) == Answer(limits[i], results[i].state, now + n)
        told == Headers(Decision(limits, results))
    IN IF Denied(results) = {}
         THEN told.remaining = 0 <=> \E i \in DOMAIN limits : ~After(i, 0).allowed
         ELSE After(Min(Denied(results)), told.retryAfter * Second).allowed

\* What a client is told is right (check and setHeaders).
ToldRight == RetryAfterExact /\ HeadersRight

\* What is admitted and what is told are right, for every configuration that loads.
LimitsRight == AdmissionsLimited /\ ToldRight
=============================================================================
