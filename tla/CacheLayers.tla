----------------------------- MODULE CacheLayers -----------------------------
(***************************************************************************)
(* One key of the two-layer cache (src/src/cache/): CacheService over the   *)
(* memory backend (L1) and the Redis backend (L2), used as @Cached and      *)
(* @InvalidateCache use it: readers fill the cache from a producer, writers *)
(* change what the producer reads and invalidate.  Every await of the two   *)
(* layers, of the producer and of the mutation is a point where requests    *)
(* interleave; Redis answers, or fails, between two of them.                *)
(*                                                                          *)
(* A value is the version of the data it was produced from.  Time is what   *)
(* is left of the entries: left until the layer drops an entry, fresh until *)
(* it is older than the ttl it was cached with.  Eviction of keys is the    *)
(* business of module MemoryLRU.                                            *)
(***************************************************************************)
EXTENDS Integers

CONSTANTS
  Handlers,     \* concurrent requests
  Ttl,          \* ttl of the entries, in ticks
  MaxVersion    \* bound on mutations

ASSUME CacheAssumption ==
  Ttl \in Nat \ {0} /\ MaxVersion \in Nat

VARIABLES
  source,   \* version of the data behind the cache
  memory,   \* the entry of MemoryCacheBackend
  redis,    \* the entry of the Redis server
  online,   \* RedisCacheBackend.online
  handlers, \* the requests in progress
  disturbed \* history: what happened that the cache does not guard against

vars == <<source, memory, redis, online, handlers, disturbed>>

Versions == 0..MaxVersion
Absent == [present |-> FALSE, value |-> 0, left |-> 0, fresh |-> 0]
Entry == [present: BOOLEAN, value: Versions, left: 0..Ttl, fresh: (-1)..Ttl]

PCs == {"idle", "getRedis", "promote", "produce", "setMemory", "setRedis",
        "clearMemory", "scanRedis", "delRedis"}
Handler == [pc: PCs, value: Versions, left: 0..Ttl, fresh: (-1)..Ttl]
Idle == [pc |-> "idle", value |-> 0, left |-> 0, fresh |-> 0]

Max2(a, b) == IF a > b THEN a ELSE b

Init ==
  /\ source = 0
  /\ memory = Absent
  /\ redis = Absent
  /\ online \in BOOLEAN
  /\ handlers = [h \in Handlers |-> Idle]
  /\ disturbed = {}

At(h, pc) == handlers[h].pc = pc
Goto(h, pc) == handlers' = [handlers EXCEPT ![h].pc = pc]
Finish(h) == handlers' = [handlers EXCEPT ![h] = Idle]

\* A Redis command runs only if the client is online; it may fail all the same,
\* and every failure is caught.
Reached == online

Filling(h) == handlers[h].pc \in {"getRedis", "promote", "produce", "setMemory", "setRedis"}
Invalidating(h) == handlers[h].pc \in {"clearMemory", "scanRedis", "delRedis"}
DisturbedIf(condition, what) ==
  disturbed' = IF condition THEN disturbed \union {what} ELSE disturbed

-----------------------------------------------------------------------------
(* wrap: get, produce, set *)

\* The first await of get: a hit returns.
GetMemory(h) ==
  /\ At(h, "idle")
  /\ ~memory.present
  /\ Goto(h, "getRedis")
  /\ DisturbedIf(\E g \in Handlers : Invalidating(g), "overlap")
  /\ UNCHANGED <<source, memory, redis, online>>

\* Redis answers the pipeline GET, PTTL: a hit is brought back.
GetRedis(h) ==
  /\ At(h, "getRedis")
  /\ \/ /\ Reached /\ redis.present
        /\ handlers' = [handlers EXCEPT ![h] =
             [pc |-> "promote", value |-> redis.value, left |-> redis.left,
              fresh |-> redis.fresh]]
     \/ Goto(h, "produce")
  /\ UNCHANGED <<source, memory, redis, online, disturbed>>

\* Defect: the promotion uses the default ttl.
PromoteDefaultTtl(h) ==
  /\ At(h, "promote")
  /\ memory' = [present |-> TRUE, value |-> handlers[h].value, left |-> Ttl,
                fresh |-> handlers[h].fresh]
  /\ Finish(h)
  /\ UNCHANGED <<source, redis, online, disturbed>>

\* Defect: the value is brought back with set, which writes both layers.
PromoteBySet(h) ==
  /\ At(h, "promote")
  /\ Goto(h, "setMemory")
  /\ UNCHANGED <<source, memory, redis, online, disturbed>>

\* The answer arrives: memory.set with what was left, at least a tick.
Promote(h) ==
  /\ At(h, "promote")
  /\ memory' = [present |-> TRUE, value |-> handlers[h].value,
                left |-> Max2(1, handlers[h].left), fresh |-> handlers[h].fresh]
  /\ Finish(h)
  /\ UNCHANGED <<source, redis, online, disturbed>>

\* The producer reads the data; one that throws, or returns nothing, caches
\* nothing.
CallProducer(h) ==
  /\ \/ handlers' = [handlers EXCEPT ![h] =
          [pc |-> "setMemory", value |-> source, left |-> 0, fresh |-> 0]]
     \/ Finish(h)
  /\ UNCHANGED <<source, memory, redis, online, disturbed>>

Produce(h) == At(h, "produce") /\ CallProducer(h)

\* A task of warmup sets what its producer returns, cached or not.
Warmup(h) == At(h, "idle") /\ CallProducer(h)

SetMemory(h) ==
  /\ At(h, "setMemory")
  /\ memory' = [present |-> TRUE, value |-> handlers[h].value, left |-> Ttl, fresh |-> Ttl]
  /\ handlers' = [handlers EXCEPT ![h] =
       [pc |-> "setRedis", value |-> handlers[h].value, left |-> handlers[h].left,
        fresh |-> Ttl]]
  /\ UNCHANGED <<source, redis, online, disturbed>>

SetRedis(h) ==
  /\ At(h, "setRedis")
  /\ \/ /\ Reached
        /\ redis' = [present |-> TRUE, value |-> handlers[h].value, left |-> Ttl,
                     fresh |-> handlers[h].fresh]
     \/ UNCHANGED redis
  /\ Finish(h)
  /\ UNCHANGED <<source, memory, online, disturbed>>

-----------------------------------------------------------------------------
(* InvalidateCache, del, clear *)

\* The mutation is made; the invalidation starts when its promise resolved.
Mutate(h) ==
  /\ At(h, "idle")
  /\ source < MaxVersion
  /\ source' = source + 1
  /\ Goto(h, "clearMemory")
  /\ DisturbedIf(\E g \in Handlers : Filling(g), "overlap")
  /\ UNCHANGED <<memory, redis, online>>

\* del and clear are called without a mutation.
StartClear(h) ==
  /\ At(h, "idle")
  /\ Goto(h, "clearMemory")
  /\ UNCHANGED <<source, memory, redis, online, disturbed>>

\* Defect: only the memory layer is cleared.
ClearMemoryOnly(h) ==
  /\ At(h, "clearMemory")
  /\ memory' = Absent
  /\ Finish(h)
  /\ UNCHANGED <<source, redis, online, disturbed>>

ClearMemory(h) ==
  /\ At(h, "clearMemory")
  /\ memory' = Absent
  /\ Goto(h, "scanRedis")
  /\ UNCHANGED <<source, redis, online, disturbed>>

\* invalidateByPrefix and clear look for keys with SCAN and delete what they
\* found in a second command, del deletes the key at once: as if found.
ScanRedis(h) ==
  /\ At(h, "scanRedis")
  /\ \/ Reached /\ Goto(h, "delRedis")
     \/ Finish(h)
  /\ DisturbedIf(redis.present /\ At(h, "idle")', "fault")
  /\ UNCHANGED <<source, memory, redis, online>>

DelRedis(h) ==
  /\ At(h, "delRedis")
  /\ \/ Reached /\ redis' = Absent
     \/ UNCHANGED redis
  /\ Finish(h)
  /\ DisturbedIf(redis'.present, "fault")
  /\ UNCHANGED <<source, memory, online>>

-----------------------------------------------------------------------------
(* The environment *)

\* A closed connection is not opened again (retryStrategy: () => null).
Disconnect ==
  /\ online
  /\ online' = FALSE
  /\ UNCHANGED <<source, memory, redis, handlers, disturbed>>

\* Redis outlives the process; onModuleInit connects again, if it can.
Restart ==
  /\ memory' = Absent
  /\ handlers' = [h \in Handlers |-> Idle]
  /\ online' \in BOOLEAN
  /\ DisturbedIf(\E h \in Handlers : Invalidating(h), "fault")
  /\ UNCHANGED <<source, redis>>

Sooner(n) == Max2(-1, n - 1)

\* The memory layer drops an entry that has nothing left, Redis one that had
\* nothing left: PTTL may be 0.
Aged(e, last) ==
  IF e.present /\ e.left > last
    THEN [present |-> TRUE, value |-> e.value, left |-> e.left - 1,
          fresh |-> Sooner(e.fresh)]
    ELSE Absent

Waiting(h) == ~At(h, "idle")

Tick ==
  /\ memory.present \/ redis.present \/ \E h \in Handlers : Waiting(h)
  /\ memory' = Aged(memory, 1)
  /\ redis' = Aged(redis, 0)
  /\ handlers' = [h \in Handlers |->
       IF handlers[h].pc \in {"promote", "setRedis"}
         THEN [handlers[h] EXCEPT !.fresh = Sooner(@)] ELSE handlers[h]]
  /\ DisturbedIf(\E h \in Handlers : handlers[h].pc \in {"promote", "setRedis"}, "slow")
  /\ UNCHANGED <<source, online>>

Advance(h) ==
  \/ GetRedis(h) \/ Promote(h) \/ Produce(h)
  \/ SetMemory(h) \/ SetRedis(h)
  \/ ClearMemory(h) \/ ScanRedis(h) \/ DelRedis(h)

Next ==
  \/ \E h \in Handlers :
       \/ GetMemory(h) \/ GetRedis(h) \/ Promote(h) \/ Produce(h)
       \/ Warmup(h) \/ SetMemory(h) \/ SetRedis(h) \/ Mutate(h) \/ StartClear(h)
       \/ ClearMemory(h) \/ ScanRedis(h) \/ DelRedis(h)
  \/ Disconnect \/ Restart \/ Tick

Spec == Init /\ [][Next]_vars

\* Awaited promises settle and time passes.
Fairness == WF_vars(Tick) /\ \A h \in Handlers : WF_vars(Advance(h))
FairSpec == Spec /\ Fairness

-----------------------------------------------------------------------------
(* Properties *)

\* The layers and the requests hold what they may hold.
TypeOK ==
  /\ source \in Versions
  /\ memory \in Entry
  /\ redis \in Entry
  /\ online \in BOOLEAN
  /\ handlers \in [Handlers -> Handler]
  /\ disturbed \subseteq {"overlap", "fault", "slow"}

\* "entries with shorter TTLs don't outlive their intended freshness": unless a
\* reply or a command of Redis was slow, a promoted entry lives as long as the
\* entry of Redis it was promoted from, except that one that has nothing left is
\* given one more tick; whatever requests, faults and restarts do (get).
PromotionKeepsFreshness ==
  "slow" \notin disturbed /\ memory.present => memory.left <= memory.fresh + 1

\* "Invalidates cached entries after a mutation completes": unless a fill
\* overlapped a mutation or its invalidation, or a command of an invalidation was
\* lost, nothing older than the data is cached when no request is in progress,
\* whatever else fails, expires or interleaves (InvalidateCache).
CoherentUndisturbed ==
  /\ TypeOK
  /\ disturbed \subseteq {"slow"} /\ (\A h \in Handlers : At(h, "idle")) =>
       /\ memory.present => memory.value = source
       /\ redis.present => redis.value = source

Cached(v) == \/ memory.present /\ memory.value = v
             \/ redis.present /\ redis.value = v

\* However fills, promotions, invalidations, faults and restarts race, an old
\* version disappears from both layers for good: neither layer feeds the other
\* for ever.
SupersededDisappears ==
  \A v \in Versions : source > v ~> [](~Cached(v))
=============================================================================
