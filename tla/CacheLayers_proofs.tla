-------------------------- MODULE CacheLayers_proofs --------------------------
(***************************************************************************)
(* Proofs about CacheLayers, for any number of requests, any ttl and any    *)
(* number of mutations, and, at the end, about the bounded store of its     *)
(* memory layer (MemoryLRU), for any capacity: Ordered says that an entry   *)
(* behind another was used after it, which what is left of the store keeps. *)
(***************************************************************************)
EXTENDS CacheLayers, MemoryLRU, SumTheorems, SequenceTheorems

LEMMA HandlerFacts ==
  ASSUME TypeOK, NEW h \in Handlers
  PROVE  /\ handlers[h].pc \in PCs /\ handlers[h].value \in Versions
         /\ handlers[h].left \in 0..Ttl /\ handlers[h].fresh \in (-1)..Ttl
         /\ \A pc : [handlers[h] EXCEPT !.pc = pc]
              = [pc |-> pc, value |-> handlers[h].value, left |-> handlers[h].left,
                 fresh |-> handlers[h].fresh]
         /\ \A fresh : [handlers[h] EXCEPT !.fresh = fresh]
              = [pc |-> handlers[h].pc, value |-> handlers[h].value,
                 left |-> handlers[h].left, fresh |-> fresh]
BY DEF TypeOK, Handler

LEMMA EntryFacts ==
  ASSUME NEW e \in Entry
  PROVE  /\ e.present \in BOOLEAN /\ e.value \in Versions
         /\ e.left \in 0..Ttl /\ e.fresh \in (-1)..Ttl
BY DEF Entry

LEMMA AbsentTyped == Absent \in Entry /\ Idle \in Handler
BY CacheAssumption DEF Absent, Entry, Idle, Handler, PCs, Versions

\* What is left of an entry after a tick.
LEMMA AgedEntry ==
  ASSUME NEW e \in Entry, NEW last \in {0, 1}
  PROVE  /\ Aged(e, last) \in Entry
         /\ Aged(e, last).present =>
              /\ e.present /\ Aged(e, last).value = e.value
              /\ Aged(e, last).left = e.left - 1 /\ e.left > last
              /\ Aged(e, last).fresh = Sooner(e.fresh)
<1>1. CASE e.present /\ e.left > last
  <2>1. Aged(e, last) = [present |-> TRUE, value |-> e.value, left |-> e.left - 1,
                         fresh |-> Sooner(e.fresh)]
    BY <1>1 DEF Aged
  <2>2. e.left - 1 \in 0..Ttl /\ Sooner(e.fresh) \in (-1)..Ttl
    BY <1>1, EntryFacts, CacheAssumption DEF Sooner, Max2
  <2> QED BY <1>1, <2>1, <2>2, EntryFacts DEF Entry
<1>2. CASE ~(e.present /\ e.left > last)
  BY <1>2, AbsentTyped DEF Aged, Absent
<1> QED BY <1>1, <1>2

-----------------------------------------------------------------------------
(* Types *)

LEMMA TypeInductive == TypeOK /\ [Next]_vars => TypeOK'
<1> SUFFICES ASSUME TypeOK, [Next]_vars PROVE TypeOK'
  OBVIOUS
<1> USE CacheAssumption
<1>1. ASSUME NEW h \in Handlers, NEW pc \in PCs, Goto(h, pc)
      PROVE  handlers' \in [Handlers -> Handler]
  BY <1>1, HandlerFacts DEF Goto, TypeOK, Handler
<1>2. ASSUME NEW h \in Handlers, Finish(h)
      PROVE  handlers' \in [Handlers -> Handler]
  BY <1>2, AbsentTyped DEF Finish, TypeOK
<1>3. ASSUME NEW h \in Handlers, NEW r \in Handler, handlers' = [handlers EXCEPT ![h] = r]
      PROVE  handlers' \in [Handlers -> Handler]
  BY <1>3 DEF TypeOK
<1>4. ASSUME NEW condition, NEW what \in {"overlap", "fault", "slow"}, DisturbedIf(condition, what)
      PROVE  disturbed' \subseteq {"overlap", "fault", "slow"}
  BY <1>4 DEF DisturbedIf, TypeOK
<1>5. memory \in Entry /\ redis \in Entry /\ source \in Versions
  BY DEF TypeOK
<1>6. ASSUME NEW h \in Handlers, GetMemory(h) PROVE TypeOK'
  BY <1>6, <1>1, <1>4 DEF GetMemory, TypeOK, PCs
<1>7. ASSUME NEW h \in Handlers, GetRedis(h) PROVE TypeOK'
  <2>1. CASE Goto(h, "produce")
    BY <1>7, <1>1, <2>1 DEF GetRedis, TypeOK, PCs
  <2>2. CASE handlers' = [handlers EXCEPT ![h] =
               [pc |-> "promote", value |-> redis.value, left |-> redis.left,
                fresh |-> redis.fresh]]
    BY <1>7, <1>3, <1>5, <2>2, EntryFacts DEF GetRedis, TypeOK, PCs, Handler
  <2> QED BY <1>7, <2>1, <2>2 DEF GetRedis
<1>8. ASSUME NEW h \in Handlers, Promote(h) PROVE TypeOK'
  <2>1. Max2(1, handlers[h].left) \in 0..Ttl
    BY HandlerFacts DEF Max2
  <2> QED BY <1>8, <1>2, <2>1, HandlerFacts DEF Promote, TypeOK, Entry
<1>9. ASSUME NEW h \in Handlers, CallProducer(h) PROVE TypeOK'
  BY <1>9, <1>2, <1>3, <1>5 DEF CallProducer, TypeOK, Handler, PCs
<1>10. ASSUME NEW h \in Handlers, SetMemory(h) PROVE TypeOK'
  BY <1>10, <1>3, HandlerFacts DEF SetMemory, TypeOK, Entry, Handler, PCs
<1>11. ASSUME NEW h \in Handlers, SetRedis(h) PROVE TypeOK'
  <2>1. redis' \in Entry
    <3>1. [present |-> TRUE, value |-> handlers[h].value, left |-> Ttl,
           fresh |-> handlers[h].fresh] \in Entry
      BY HandlerFacts DEF Entry
    <3> QED BY <1>11, <1>5, <3>1 DEF SetRedis
  <2> QED BY <1>11, <1>2, <2>1 DEF SetRedis, TypeOK
<1>12. ASSUME NEW h \in Handlers, Mutate(h) PROVE TypeOK'
  <2>1. source' \in Versions
    BY <1>12, <1>5 DEF Mutate, Versions
  <2> QED BY <1>12, <1>1, <1>4, <2>1 DEF Mutate, TypeOK, PCs
<1>13. ASSUME NEW h \in Handlers, StartClear(h) PROVE TypeOK'
  BY <1>13, <1>1 DEF StartClear, TypeOK, PCs
<1>14. ASSUME NEW h \in Handlers, ClearMemory(h) PROVE TypeOK'
  BY <1>14, <1>1, AbsentTyped DEF ClearMemory, TypeOK, PCs
<1>15. ASSUME NEW h \in Handlers, ScanRedis(h) PROVE TypeOK'
  BY <1>15, <1>1, <1>2, <1>4 DEF ScanRedis, TypeOK, PCs
<1>16. ASSUME NEW h \in Handlers, DelRedis(h) PROVE TypeOK'
  BY <1>16, <1>2, <1>4, AbsentTyped DEF DelRedis, TypeOK
<1>17. CASE Disconnect
  BY <1>17 DEF Disconnect, TypeOK
<1>18. CASE Restart
  BY <1>18, <1>4, AbsentTyped DEF Restart, TypeOK
<1>19. CASE Tick
  <2>1. \A h \in Handlers : Sooner(handlers[h].fresh) \in (-1)..Ttl
    BY HandlerFacts DEF Sooner, Max2
  <2>2. \A h \in Handlers : [handlers[h] EXCEPT !.fresh = Sooner(@)] \in Handler
    <3> TAKE h \in Handlers
    <3> DEFINE fresh == Sooner(handlers[h].fresh)
    <3>1. fresh \in (-1)..Ttl
      BY <2>1
    <3> HIDE DEF fresh
    <3>2. [pc |-> handlers[h].pc, value |-> handlers[h].value, left |-> handlers[h].left,
           fresh |-> fresh] \in Handler
      BY <3>1, HandlerFacts DEF Handler
    <3>3. [handlers[h] EXCEPT !.fresh = fresh] \in Handler
      BY <3>2, HandlerFacts
    <3> QED BY <3>3 DEF fresh
  <2>3. handlers' \in [Handlers -> Handler]
    BY <1>19, <2>2 DEF Tick, TypeOK
  <2> QED BY <1>19, <1>4, <1>5, <2>3, AgedEntry DEF Tick, TypeOK
<1>20. CASE UNCHANGED vars
  BY <1>20 DEF vars, TypeOK
<1> QED BY <1>6, <1>7, <1>8, <1>9, <1>10, <1>11, <1>12, <1>13, <1>14, <1>15, <1>16, <1>17, <1>18,
           <1>19, <1>20
  DEF Next, Produce, Warmup

\* Everything is of its type, in every reachable state.
THEOREM TypeCorrect == Spec => []TypeOK
<1>1. Init => TypeOK
  BY AbsentTyped, CacheAssumption DEF Init, TypeOK, Versions
<1> QED BY <1>1, TypeInductive, PTL DEF Spec

-----------------------------------------------------------------------------
(* The strengthenings *)

\* While nothing is slow, no layer and no promotion has more left than it should.
PromiseKept ==
  "slow" \notin disturbed =>
    /\ redis.present => redis.left <= redis.fresh
    /\ memory.present => memory.left <= memory.fresh + 1
    /\ \A h \in Handlers :
         /\ At(h, "promote") => handlers[h].left <= handlers[h].fresh
         /\ At(h, "setRedis") => handlers[h].fresh = Ttl

StaleMemory == memory.present /\ memory.value # source
StaleRedis == redis.present /\ redis.value # source

\* What a request is about to write is as new as the data.
FillsCurrent ==
  \A h \in Handlers :
    handlers[h].pc \in {"promote", "setMemory", "setRedis"} => handlers[h].value = source

\* A layer that is older than the data is about to be cleared, and nobody is
\* about to read it, or the data, for the cache.
StaleIsCleared ==
  /\ StaleMemory => \E h \in Handlers : At(h, "clearMemory")
  /\ StaleRedis => \E h \in Handlers : Invalidating(h)
  /\ StaleMemory \/ StaleRedis =>
       \A h \in Handlers : handlers[h].pc \notin {"getRedis", "produce"}

Coherent == disturbed \subseteq {"slow"} => FillsCurrent /\ StaleIsCleared


LEMMA PromiseInductive == TypeOK /\ PromiseKept /\ [Next]_vars => PromiseKept'
<1> SUFFICES ASSUME TypeOK, PromiseKept, [Next]_vars PROVE PromiseKept'
  OBVIOUS
<1> USE CacheAssumption
<1>t. memory \in Entry /\ redis \in Entry /\ handlers \in [Handlers -> Handler]
  BY DEF TypeOK
<1>1. ASSUME NEW h \in Handlers, GetMemory(h) PROVE PromiseKept'
  BY <1>1, <1>t, HandlerFacts DEF GetMemory, At, Goto, DisturbedIf, PromiseKept
<1>2. ASSUME NEW h \in Handlers, GetRedis(h) PROVE PromiseKept'
  <2>1. CASE Goto(h, "produce")
    BY <1>2, <1>t, <2>1, HandlerFacts DEF GetRedis, At, Goto, PromiseKept
  <2>2. CASE redis.present /\ handlers' = [handlers EXCEPT ![h] =
               [pc |-> "promote", value |-> redis.value, left |-> redis.left,
                fresh |-> redis.fresh]]
    BY <1>2, <1>t, <2>2 DEF GetRedis, At, PromiseKept
  <2> QED BY <1>2, <2>1, <2>2 DEF GetRedis
<1>3. ASSUME NEW h \in Handlers, Promote(h) PROVE PromiseKept'
  BY <1>3, <1>t, HandlerFacts DEF Promote, At, Finish, Idle, Max2, PromiseKept
<1>4. ASSUME NEW h \in Handlers, CallProducer(h) PROVE PromiseKept'
  BY <1>4, <1>t, HandlerFacts DEF CallProducer, At, Finish, Idle, PromiseKept
<1>5. ASSUME NEW h \in Handlers, SetMemory(h) PROVE PromiseKept'
  BY <1>5, <1>t, HandlerFacts DEF SetMemory, At, PromiseKept
<1>6. ASSUME NEW h \in Handlers, SetRedis(h) PROVE PromiseKept'
  BY <1>6, <1>t, HandlerFacts DEF SetRedis, At, Finish, Idle, PromiseKept
<1>7. ASSUME NEW h \in Handlers, Mutate(h) PROVE PromiseKept'
  BY <1>7, <1>t, HandlerFacts DEF Mutate, At, Goto, DisturbedIf, PromiseKept
<1>8. ASSUME NEW h \in Handlers, StartClear(h) PROVE PromiseKept'
  BY <1>8, <1>t, HandlerFacts DEF StartClear, At, Goto, PromiseKept
<1>9. ASSUME NEW h \in Handlers, ClearMemory(h) PROVE PromiseKept'
  BY <1>9, <1>t, HandlerFacts DEF ClearMemory, At, Goto, Absent, PromiseKept
<1>10. ASSUME NEW h \in Handlers, ScanRedis(h) PROVE PromiseKept'
  <2>1. CASE Goto(h, "delRedis")
    BY <1>10, <1>t, <2>1, HandlerFacts DEF ScanRedis, At, Goto, DisturbedIf, PromiseKept
  <2>2. CASE Finish(h)
    BY <1>10, <1>t, <2>2 DEF ScanRedis, At, Finish, Idle, DisturbedIf, PromiseKept
  <2> QED BY <1>10, <2>1, <2>2 DEF ScanRedis
<1>11. ASSUME NEW h \in Handlers, DelRedis(h) PROVE PromiseKept'
  BY <1>11, <1>t, HandlerFacts
    DEF DelRedis, At, Finish, Idle, Absent, DisturbedIf, PromiseKept
<1>12. CASE Disconnect
  BY <1>12 DEF Disconnect, PromiseKept, At
<1>13. CASE Restart
  BY <1>13 DEF Restart, PromiseKept, At, Idle, Absent, DisturbedIf
<1>14. CASE Tick
  BY <1>14, <1>t, AgedEntry, EntryFacts DEF Tick, PromiseKept, At, DisturbedIf, Sooner, Max2
<1>15. CASE UNCHANGED vars
  BY <1>15 DEF vars, PromiseKept, At
<1> QED BY <1>1, <1>2, <1>3, <1>4, <1>5, <1>6, <1>7, <1>8, <1>9, <1>10, <1>11, <1>12, <1>13,
           <1>14, <1>15
  DEF Next, Produce, Warmup

LEMMA CoherentInductive == TypeOK /\ Coherent /\ [Next]_vars => Coherent'
<1> SUFFICES ASSUME TypeOK, Coherent, [Next]_vars PROVE Coherent'
  OBVIOUS
<1>t. memory \in Entry /\ redis \in Entry /\ handlers \in [Handlers -> Handler]
  BY DEF TypeOK
<1>1. ASSUME NEW h \in Handlers, GetMemory(h) PROVE Coherent'
  BY <1>1, <1>t, HandlerFacts
    DEF GetMemory, Goto, DisturbedIf, Coherent, FillsCurrent, StaleIsCleared,
        StaleMemory, StaleRedis
<1>2. ASSUME NEW h \in Handlers, GetRedis(h) PROVE Coherent'
  <2>1. CASE Goto(h, "produce")
    BY <1>2, <1>t, <2>1, HandlerFacts
      DEF GetRedis, At, Goto, Coherent, FillsCurrent, StaleIsCleared, StaleMemory,
          StaleRedis
  <2>2. CASE redis.present /\ handlers' = [handlers EXCEPT ![h] =
               [pc |-> "promote", value |-> redis.value, left |-> redis.left,
                fresh |-> redis.fresh]]
    BY <1>2, <1>t, <2>2
      DEF GetRedis, At, Coherent, FillsCurrent, StaleIsCleared, StaleMemory, StaleRedis
  <2> QED BY <1>2, <2>1, <2>2 DEF GetRedis
<1>3. ASSUME NEW h \in Handlers, Promote(h) PROVE Coherent'
  BY <1>3, <1>t, HandlerFacts
    DEF Promote, At, Finish, Idle, Invalidating, Coherent, FillsCurrent, StaleIsCleared,
        StaleMemory, StaleRedis
<1>4. ASSUME NEW h \in Handlers, At(h, "idle") \/ At(h, "produce"), CallProducer(h)
      PROVE  Coherent'
  <2>1. CASE handlers' = [handlers EXCEPT ![h] =
               [pc |-> "setMemory", value |-> source, left |-> 0, fresh |-> 0]]
    BY <1>4, <1>t, <2>1
      DEF CallProducer, At, Invalidating, Coherent, FillsCurrent, StaleIsCleared,
          StaleMemory, StaleRedis
  <2>2. CASE Finish(h)
    BY <1>4, <1>t, <2>2
      DEF CallProducer, At, Finish, Idle, Invalidating, Coherent, FillsCurrent,
          StaleIsCleared, StaleMemory, StaleRedis
  <2> QED BY <1>4, <2>1, <2>2 DEF CallProducer
<1>5. ASSUME NEW h \in Handlers, SetMemory(h) PROVE Coherent'
  BY <1>5, <1>t, HandlerFacts
    DEF SetMemory, At, Invalidating, Coherent, FillsCurrent, StaleIsCleared, StaleMemory,
        StaleRedis
<1>6. ASSUME NEW h \in Handlers, SetRedis(h) PROVE Coherent'
  BY <1>6, <1>t, HandlerFacts
    DEF SetRedis, At, Finish, Idle, Invalidating, Coherent, FillsCurrent, StaleIsCleared,
        StaleMemory, StaleRedis
<1>7. ASSUME NEW h \in Handlers, Mutate(h) PROVE Coherent'
  <2> SUFFICES ASSUME disturbed' \subseteq {"slow"} PROVE FillsCurrent' /\ StaleIsCleared'
    BY DEF Coherent
  <2>1. \A g \in Handlers : ~Filling(g)
    BY <1>7 DEF Mutate, DisturbedIf
  <2>2. h \in Handlers /\ handlers'[h].pc = "clearMemory"
    BY <1>7, <1>t, HandlerFacts DEF Mutate, Goto
  <2>3. \A g \in Handlers \ {h} : handlers'[g] = handlers[g]
    BY <1>7, <1>t DEF Mutate, Goto
  <2> QED BY <2>1, <2>2, <2>3 DEF At, Filling, Invalidating, FillsCurrent, StaleIsCleared
<1>8. ASSUME NEW h \in Handlers, StartClear(h) PROVE Coherent'
  BY <1>8, <1>t, HandlerFacts
    DEF StartClear, At, Goto, Invalidating, Coherent, FillsCurrent, StaleIsCleared,
        StaleMemory, StaleRedis
<1>9. ASSUME NEW h \in Handlers, ClearMemory(h) PROVE Coherent'
  BY <1>9, <1>t, HandlerFacts
    DEF ClearMemory, Goto, Absent, Invalidating, Coherent, FillsCurrent, StaleIsCleared,
        StaleMemory, StaleRedis
<1>10. ASSUME NEW h \in Handlers, ScanRedis(h) PROVE Coherent'
  <2>1. CASE Goto(h, "delRedis")
    BY <1>10, <1>t, <2>1, HandlerFacts
      DEF ScanRedis, At, Goto, DisturbedIf, Invalidating, Coherent, FillsCurrent,
          StaleIsCleared, StaleMemory, StaleRedis
  <2>2. CASE Finish(h)
    BY <1>10, <1>t, <2>2
      DEF ScanRedis, At, Finish, Idle, DisturbedIf, Coherent, FillsCurrent,
          StaleIsCleared, StaleMemory, StaleRedis
  <2> QED BY <1>10, <2>1, <2>2 DEF ScanRedis
<1>11. ASSUME NEW h \in Handlers, DelRedis(h) PROVE Coherent'
  BY <1>11, <1>t, HandlerFacts
    DEF DelRedis, At, Finish, Idle, DisturbedIf, Coherent, FillsCurrent, StaleIsCleared,
        StaleMemory, StaleRedis
<1>12. CASE Disconnect
  BY <1>12
    DEF Disconnect, Coherent, FillsCurrent, StaleIsCleared, StaleMemory, StaleRedis, At,
        Invalidating
<1>13. CASE Restart
  BY <1>13
    DEF Restart, Coherent, FillsCurrent, StaleIsCleared, StaleMemory, StaleRedis, Idle,
        Absent, DisturbedIf
<1>14. CASE Tick
  BY <1>14, <1>t, AgedEntry, HandlerFacts
    DEF Tick, Coherent, FillsCurrent, StaleIsCleared, StaleMemory, StaleRedis, At,
        DisturbedIf, Invalidating
<1>15. CASE UNCHANGED vars
  BY <1>15
    DEF vars, Coherent, FillsCurrent, StaleIsCleared, StaleMemory, StaleRedis, At,
        Invalidating
<1> QED BY <1>1, <1>2, <1>3, <1>4, <1>5, <1>6, <1>7, <1>8, <1>9, <1>10, <1>11, <1>12, <1>13,
           <1>14, <1>15
  DEF Next, Produce, Warmup

-----------------------------------------------------------------------------
\* PromotionKeepsFreshness, for any number of requests that read, fill and
\* invalidate while Redis fails and the process restarts (get, promotion with the
\* PTTL of the entry).
THEOREM PromotionsFresh == Spec => []PromotionKeepsFreshness
<1>1. Init => PromiseKept
  BY DEF Init, PromiseKept, Absent, At, Idle
<1>2. PromiseKept => PromotionKeepsFreshness
  BY DEF PromiseKept, PromotionKeepsFreshness
<1> QED BY <1>1, <1>2, TypeCorrect, TypeInductive, PromiseInductive, PTL DEF Spec

\* CoherentUndisturbed: the cache agrees with the data once every request ended,
\* if no fill overlapped a mutation or its invalidation and no command of an
\* invalidation was lost (InvalidateCache, invalidateByPrefix).
THEOREM CoherentWhenQuiet == Spec => []CoherentUndisturbed
<1>1. Init => Coherent
  BY DEF Init, Coherent, FillsCurrent, StaleIsCleared, StaleMemory, StaleRedis, Absent, Idle
<1>2. TypeOK /\ Coherent => CoherentUndisturbed
  <2> SUFFICES ASSUME TypeOK, Coherent, disturbed \subseteq {"slow"},
                      \A h \in Handlers : At(h, "idle")
               PROVE  ~StaleMemory /\ ~StaleRedis
    BY DEF CoherentUndisturbed, StaleMemory, StaleRedis
  <2> QED BY DEF Coherent, StaleIsCleared, At, Invalidating
<1> QED BY <1>1, <1>2, TypeCorrect, TypeInductive, CoherentInductive, PTL DEF Spec

-----------------------------------------------------------------------------
(* The memory layer of the cache: what is left of the store.                 *)

KeysOnce(s) == \A i, j \in DOMAIN s : s[i].key = s[j].key => i = j

\* An entry behind another was used after it.
Recency(s, since) == \A i, j \in DOMAIN s : i < j => s[j].key \in since[s[i].key]

\* What the store and every part of it are.
Orderly(s, since) == s \in Seq(MemoryEntry) /\ KeysOnce(s) /\ Recency(s, since)

LEMMA AmongEmbeds ==
  ASSUME NEW s \in Seq(MemoryEntry), NEW good
  PROVE  /\ Among(s, good) \in Seq(MemoryEntry) /\ Len(Among(s, good)) <= Len(s)
         /\ \E f : Embeds(f, Among(s, good), s, {i \in DOMAIN s : s[i] \in good})
<1> DEFINE Filters(g) == g = [T \in SUBSET DOMAIN s |-> IF T = {} THEN <<>>
                                ELSE IF s[Max(T)] \in good
                                       THEN Append(g[T \ {Max(T)}], s[Max(T)])
                                       ELSE g[T \ {Max(T)}]]
           fold == CHOOSE g : Filters(g)
           H == {i \in DOMAIN s : s[i] \in good}
<1>1. Among(s, good) = fold[DOMAIN s]
  BY DEF Among, FoldLeft, MapThenFoldSet
<1>2. DOMAIN s = 1..Len(s) /\ Len(s) \in Nat /\ H \intersect DOMAIN s = H
  OBVIOUS
<1>3. \A T \in SUBSET DOMAIN s : T # {} => (Max(T) \in H <=> s[Max(T)] \in good)
  <2> SUFFICES ASSUME NEW T \in SUBSET DOMAIN s, T # {} PROVE Max(T) \in DOMAIN s
    OBVIOUS
  <2>1. IsFiniteSet(1..Len(s)) /\ T \subseteq 1..Len(s)
    BY <1>2, FS_Interval
  <2>2. IsFiniteSet(T) /\ T \subseteq Int
    BY <2>1, FS_Subset
  <2> QED BY <2>2, MaxOfSome
<1> HIDE DEF H
<1>4. \E g : Filters(g)
  <2>1. PICK g : DOMAIN g = SUBSET DOMAIN s /\ g = [T \in DOMAIN g |-> g[T]] /\ Filtering(g, s, H)
    BY FilterExists
  <2>2. \A T \in SUBSET DOMAIN s :
          g[T] = IF T = {} THEN <<>> ELSE IF s[Max(T)] \in good
                                            THEN Append(g[T \ {Max(T)}], s[Max(T)])
                                            ELSE g[T \ {Max(T)}]
    BY <1>3, <2>1 DEF Filtering
  <2>3. Filters(g)
    BY <2>1, <2>2
  <2> QED BY <2>3
<1>5. Filters(fold)
  <2> HIDE DEF Filters
  <2> QED BY <1>4
<1>6. Filtering(fold, s, H)
  <2> HIDE DEF fold
  <2> QED BY <1>3, <1>5 DEF Filtering
<1> HIDE DEF fold
<1>7. /\ fold[DOMAIN s] \in Seq(MemoryEntry) /\ Len(fold[DOMAIN s]) <= Len(s)
      /\ \E f : Embeds(f, fold[DOMAIN s], s, H \intersect DOMAIN s)
  BY <1>6, FilterEmbeds
<1> QED BY <1>1, <1>2, <1>7 DEF H

\* A part of the store is as the store is, and has the keys that were to stay.
LEMMA AmongKeeps ==
  ASSUME NEW s \in Seq(MemoryEntry), NEW good
  PROVE  /\ Among(s, good) \in Seq(MemoryEntry) /\ Len(Among(s, good)) <= Len(s)
         /\ KeysOf(Among(s, good)) = {s[i].key : i \in {i \in DOMAIN s : s[i] \in good}}
         /\ \A a \in DOMAIN Among(s, good) : Among(s, good)[a] \in good
         /\ KeysOnce(s) => KeysOnce(Among(s, good))
         /\ \A since : Recency(s, since) => Recency(Among(s, good), since)
<1> DEFINE r == Among(s, good)
           I == {i \in DOMAIN s : s[i] \in good}
<1>1. r \in Seq(MemoryEntry) /\ Len(r) <= Len(s)
  BY AmongEmbeds
<1>2. PICK f : Embeds(f, r, s, I)
  BY AmongEmbeds
<1> HIDE DEF r
<1>3. \A a \in DOMAIN r : f[a] \in I /\ f[a] \in DOMAIN s /\ r[a] = s[f[a]]
  BY <1>2 DEF Embeds
<1>4. \A i \in I : \E a \in DOMAIN r : f[a] = i
  BY <1>2 DEF Embeds
<1>5. \A a, b \in DOMAIN r : a < b => f[a] < f[b]
  BY <1>2 DEF Embeds
<1>6. KeysOf(r) = {s[i].key : i \in I}
  BY <1>3, <1>4 DEF KeysOf
<1>7. \A a \in DOMAIN r : r[a] \in good
  BY <1>3
<1>8. ASSUME KeysOnce(s) PROVE KeysOnce(r)
  <2> SUFFICES ASSUME NEW a \in DOMAIN r, NEW b \in DOMAIN r, r[a].key = r[b].key, a # b
               PROVE  FALSE
    BY DEF KeysOnce
  <2>1. f[a] = f[b]
    BY <1>3, <1>8 DEF KeysOnce
  <2>2. a < b \/ b < a
    BY <1>1
  <2>3. f[a] \in Nat /\ f[b] \in Nat
    BY <1>3
  <2> QED BY <1>5, <2>1, <2>2, <2>3
<1>9. ASSUME NEW since, Recency(s, since) PROVE Recency(r, since)
  BY <1>3, <1>5, <1>9 DEF Recency
<1> HIDE DEF I
<1> QED BY <1>1, <1>6, <1>7, <1>8, <1>9 DEF r, I

LEMMA KeysCounted ==
  ASSUME NEW s \in Seq(MemoryEntry), KeysOnce(s)
  PROVE  IsFiniteSet(KeysOf(s)) /\ Cardinality(KeysOf(s)) = Len(s)
<1> DEFINE h == [i \in 1..Len(s) |-> s[i].key]
<1>1. DOMAIN s = 1..Len(s) /\ Len(s) \in Nat
  OBVIOUS
<1>2. h \in Bijection(1..Len(s), KeysOf(s))
  <2>1. h \in [1..Len(s) -> KeysOf(s)]
    BY <1>1 DEF KeysOf
  <2>2. \A i, j \in 1..Len(s) : h[i] = h[j] => i = j
    BY <1>1 DEF KeysOnce
  <2>3. \A k \in KeysOf(s) : \E i \in 1..Len(s) : h[i] = k
    BY <1>1 DEF KeysOf
  <2> HIDE DEF h
  <2> QED BY <2>1, <2>2, <2>3 DEF Bijection, Injection, Surjection, IsInjective
<1>3. IsFiniteSet(1..Len(s)) /\ Cardinality(1..Len(s)) = Len(s)
  <2>1. Cardinality(1..Len(s)) = IF 1 > Len(s) THEN 0 ELSE Len(s) - 1 + 1
    BY <1>1, FS_Interval
  <2>2. IsFiniteSet(1..Len(s))
    BY <1>1, FS_Interval
  <2> QED BY <1>1, <2>1, <2>2
<1> HIDE DEF h
<1> QED BY <1>2, <1>3, FS_Bijection DEF ExistsBijection

LEMMA WithoutKeeps ==
  ASSUME NEW s, NEW since, Orderly(s, since), NEW keys
  PROVE  /\ Orderly(Without(s, keys), since) /\ Len(Without(s, keys)) <= Len(s)
         /\ KeysOf(Without(s, keys)) = KeysOf(s) \ keys
<1> DEFINE good == {e \in MemoryEntry : e.key \notin keys}
<1>1. \A i \in DOMAIN s : s[i] \in MemoryEntry
  BY DEF Orderly
<1>2. {s[i].key : i \in {i \in DOMAIN s : s[i] \in good}} = KeysOf(s) \ keys
  BY <1>1 DEF KeysOf
<1> HIDE DEF good
<1>3. s \in Seq(MemoryEntry)
  BY DEF Orderly
<1>4. Without(s, keys) = Among(s, good)
  BY DEF Without, good
<1>5. /\ Among(s, good) \in Seq(MemoryEntry) /\ Len(Among(s, good)) <= Len(s)
      /\ KeysOf(Among(s, good)) = {s[i].key : i \in {i \in DOMAIN s : s[i] \in good}}
  BY <1>3, AmongKeeps
<1>6. KeysOnce(Among(s, good)) /\ Recency(Among(s, good), since)
  BY <1>3, AmongKeeps DEF Orderly
<1> QED BY <1>2, <1>4, <1>5, <1>6 DEF Orderly

LEMMA UnexpiredKeeps ==
  ASSUME NEW s, NEW since, Orderly(s, since)
  PROVE  /\ Orderly(Unexpired(s), since) /\ Len(Unexpired(s)) <= Len(s)
         /\ KeysOf(Unexpired(s)) = Live(s)
<1> DEFINE good == {e \in MemoryEntry : e.left > 0}
<1>1. \A i \in DOMAIN s : s[i] \in MemoryEntry
  BY DEF Orderly
<1>2. {s[i].key : i \in {i \in DOMAIN s : s[i] \in good}} = Live(s)
  BY <1>1 DEF Live
<1> HIDE DEF good
<1>3. s \in Seq(MemoryEntry)
  BY DEF Orderly
<1>4. Unexpired(s) = Among(s, good)
  BY DEF Unexpired, good
<1>5. /\ Among(s, good) \in Seq(MemoryEntry) /\ Len(Among(s, good)) <= Len(s)
      /\ KeysOf(Among(s, good)) = {s[i].key : i \in {i \in DOMAIN s : s[i] \in good}}
  BY <1>3, AmongKeeps
<1>6. KeysOnce(Among(s, good)) /\ Recency(Among(s, good), since)
  BY <1>3, AmongKeeps DEF Orderly
<1> QED BY <1>2, <1>4, <1>5, <1>6 DEF Orderly

\* The loop of set drops none, or the first of MaxKeys.
LEMMA RoomMade ==
  ASSUME NEW s, NEW since, Orderly(s, since), Len(s) <= MaxKeys
  PROVE  /\ Orderly(WithRoom(s), since) /\ Len(WithRoom(s)) <= MaxKeys - 1
         /\ Len(s) < MaxKeys => WithRoom(s) = s
         /\ Len(s) = MaxKeys => KeysOf(WithRoom(s)) = {s[i].key : i \in 2..MaxKeys}
<1>1. MaxKeys \in Nat \ {0} /\ s \in Seq(MemoryEntry) /\ Len(s) \in Nat /\ DOMAIN s = 1..Len(s)
  BY MemoryLRUAssumption DEF Orderly
<1>2. CASE Len(s) < MaxKeys
  <2>1. WithRoom(s) = s
    BY <1>1, <1>2 DEF WithRoom
  <2>2. Len(s) <= MaxKeys - 1 /\ Len(s) # MaxKeys
    <3> DEFINE n == Len(s)
    <3>1. n \in Nat /\ MaxKeys \in Nat /\ n < MaxKeys
      BY <1>1, <1>2
    <3> HIDE DEF n
    <3>2. n <= MaxKeys - 1 /\ n # MaxKeys
      BY <3>1
    <3> QED BY <3>2 DEF n
  <2> QED BY <2>1, <2>2
<1>3. CASE Len(s) = MaxKeys
  <2> DEFINE r == SubSeq(s, 2, Len(s))
  <2>1. WithRoom(s) = r
    <3>1. Len(s) - MaxKeys + 2 = 2 /\ Len(s) >= MaxKeys
      BY <1>1, <1>3
    <3> QED BY <3>1 DEF WithRoom
  <2>2. /\ r \in Seq(MemoryEntry) /\ Len(r) = Len(s) - 1
        /\ \A i \in 1..(Len(s) - 1) : r[i] = s[i + 1]
    BY <1>1, <1>3
  <2> HIDE DEF r
  <2>3. DOMAIN r = 1..(MaxKeys - 1) /\ DOMAIN s = 1..MaxKeys /\ 2..MaxKeys \subseteq DOMAIN s
    BY <1>1, <1>3, <2>2
  <2>4. \A i \in DOMAIN r : i \in Int /\ i + 1 \in DOMAIN s /\ r[i] = s[i + 1]
    BY <1>1, <1>3, <2>2, <2>3
  <2>5. KeysOnce(r)
    BY <2>4 DEF Orderly, KeysOnce
  <2>6. Recency(r, since)
    <3> SUFFICES ASSUME NEW i \in DOMAIN r, NEW j \in DOMAIN r, i < j
                 PROVE  r[j].key \in since[r[i].key]
      BY DEF Recency
    <3>1. i + 1 < j + 1
      BY <2>4
    <3> QED BY <2>4, <3>1 DEF Orderly, Recency
  <2>7. KeysOf(r) = {s[i].key : i \in 2..MaxKeys}
    <3>1. \A i \in 2..MaxKeys : i - 1 \in DOMAIN r /\ r[i - 1] = s[i]
      BY <1>1, <1>3, <2>2, <2>3
    <3>2. \A i \in DOMAIN r : i + 1 \in 2..MaxKeys
      BY <1>1, <2>3
    <3>3. KeysOf(r) \subseteq {s[i].key : i \in 2..MaxKeys}
      BY <2>4, <3>2 DEF KeysOf
    <3>4. {s[i].key : i \in 2..MaxKeys} \subseteq KeysOf(r)
      BY <3>1 DEF KeysOf
    <3> QED BY <3>3, <3>4
  <2> QED BY <1>1, <1>3, <2>1, <2>2, <2>5, <2>6, <2>7 DEF Orderly
<1>4. Len(s) < MaxKeys \/ Len(s) = MaxKeys
  <2> DEFINE n == Len(s)
  <2>1. n \in Nat /\ MaxKeys \in Nat /\ n <= MaxKeys
    BY <1>1
  <2> HIDE DEF n
  <2>2. n < MaxKeys \/ n = MaxKeys
    BY <2>1
  <2> QED BY <2>2 DEF n
<1> QED BY <1>2, <1>3, <1>4

\* Entries may be replaced where they are, and more may have been used.
LEMMA StillStored ==
  ASSUME NEW s, NEW since, Orderly(s, since), NEW t \in Seq(MemoryEntry), DOMAIN t = DOMAIN s,
         \A i \in DOMAIN s : t[i].key = s[i].key,
         NEW later, \A k \in KeysOf(s) : since[k] \subseteq later[k]
  PROVE  Orderly(t, later) /\ KeysOf(t) = KeysOf(s)
<1>1. KeysOf(t) = KeysOf(s)
  BY DEF KeysOf
<1>2. KeysOnce(t)
  BY DEF Orderly, KeysOnce
<1>3. Recency(t, later)
  BY DEF Orderly, Recency, KeysOf
<1> QED BY <1>1, <1>2, <1>3 DEF Orderly

\* An entry put behind all others.
LEMMA AppendedStored ==
  ASSUME NEW s, NEW since, Orderly(s, since), NEW e \in MemoryEntry, e.key \notin KeysOf(s),
         since \in [Keys -> SUBSET Keys]
  PROVE  /\ Orderly(Append(s, e), Used(since, e.key, TRUE))
         /\ KeysOf(Append(s, e)) = KeysOf(s) \union {e.key}
<1> DEFINE t == Append(s, e)
           later == Used(since, e.key, TRUE)
           l == Len(s) + 1
<1>1. s \in Seq(MemoryEntry) /\ Len(s) \in Nat /\ DOMAIN s = 1..Len(s)
  BY DEF Orderly
<1>2. /\ t \in Seq(MemoryEntry) /\ DOMAIN t = 1..l /\ t[l] = e /\ \A i \in DOMAIN s : t[i] = s[i]
      /\ DOMAIN t = DOMAIN s \union {l} /\ l \notin DOMAIN s /\ \A i \in DOMAIN s : i < l
  BY <1>1
<1>3. \A i \in DOMAIN s : s[i].key # e.key /\ s[i].key \in Keys
  <2>1. \A i \in DOMAIN s : s[i] \in MemoryEntry
    BY <1>1
  <2>2. \A i \in DOMAIN s : s[i].key \in KeysOf(s)
    BY DEF KeysOf
  <2> QED BY <2>1, <2>2 DEF MemoryEntry
<1>4. \A k \in Keys : k # e.key => later[k] = since[k] \union {e.key}
  BY DEF Used
<1> HIDE DEF t, later, l
<1>5. KeysOnce(t)
  BY <1>2, <1>3 DEF Orderly, KeysOnce
<1>6. Recency(t, later)
  <2> SUFFICES ASSUME NEW i \in DOMAIN t, NEW j \in DOMAIN t, i < j
               PROVE  t[j].key \in later[t[i].key]
    BY DEF Recency
  <2>1. i \in DOMAIN s
    <3>1. j = l \/ j < l
      BY <1>2
    <3>2. i # l
      BY <1>1, <1>2, <3>1 DEF l
    <3> QED BY <1>2, <3>2
  <2>2. t[i] = s[i] /\ later[t[i].key] = since[s[i].key] \union {e.key}
    BY <1>2, <1>3, <1>4, <2>1
  <2>3. CASE j = l
    BY <1>2, <2>2, <2>3
  <2>4. CASE j \in DOMAIN s
    <3>1. s[j].key \in since[s[i].key]
      BY <2>1, <2>4 DEF Orderly, Recency
    <3> QED BY <1>2, <2>2, <2>4, <3>1
  <2> QED BY <1>2, <2>3, <2>4
<1>7. KeysOf(t) = KeysOf(s) \union {e.key}
  <2>1. \A i \in DOMAIN s : i \in DOMAIN t /\ t[i].key = s[i].key
    BY <1>2
  <2>2. \A i \in DOMAIN t : i = l \/ (i \in DOMAIN s /\ t[i].key = s[i].key)
    BY <1>2
  <2>3. l \in DOMAIN t /\ t[l].key = e.key
    BY <1>2
  <2> QED BY <2>1, <2>2, <2>3 DEF KeysOf
<1> QED BY <1>2, <1>5, <1>6, <1>7 DEF Orderly, t, later

-----------------------------------------------------------------------------
(* The steps                                                                 *)

\* The store is in the order of use, and what was used is finite.
Ordered ==
  /\ Recency(store, sinceRead)
  /\ \A k \in Keys : IsFiniteSet(sinceRead[k])

MemoryInv == MemoryTypeOK /\ Ordered

LEMMA MemoryStarts == MemoryInit => MemoryInv
<1> SUFFICES ASSUME MemoryInit PROVE MemoryInv
  OBVIOUS
<1>1. store = <<>> /\ DOMAIN store = {} /\ Len(store) = 0 /\ store \in Seq(MemoryEntry)
  BY DEF MemoryInit
<1>2. sinceRead \in [Keys -> SUBSET Keys] /\ \A k \in Keys : IsFiniteSet(sinceRead[k])
  BY FS_EmptySet DEF MemoryInit
<1>3. 0 <= MaxKeys
  BY MemoryLRUAssumption
<1>4. Recency(store, sinceRead)
  BY <1>1 DEF Recency
<1> QED BY <1>1, <1>2, <1>3, <1>4 DEF MemoryInv, MemoryTypeOK, Ordered

LEMMA MemoryStored ==
  MemoryInv => /\ Orderly(store, sinceRead) /\ Len(store) <= MaxKeys /\ Len(store) \in Nat
               /\ sinceRead \in [Keys -> SUBSET Keys]
BY DEF MemoryInv, MemoryTypeOK, Ordered, Orderly, KeysOnce

LEMMA MemoryHolds ==
  ASSUME NEW s, NEW since, Orderly(s, since), Len(s) <= MaxKeys,
         since \in [Keys -> SUBSET Keys], \A k \in Keys : IsFiniteSet(since[k]),
         store' = s, sinceRead' = since
  PROVE  MemoryInv'
<1>1. MemoryTypeOK'
  BY DEF MemoryTypeOK, Orderly, KeysOnce
<1>2. Ordered'
  BY DEF Ordered, Orderly, Recency
<1> QED BY <1>1, <1>2 DEF MemoryInv

LEMMA UsedTyped ==
  ASSUME MemoryInv, NEW k \in Keys, NEW resets \in BOOLEAN
  PROVE  /\ Used(sinceRead, k, resets) \in [Keys -> SUBSET Keys]
         /\ \A j \in Keys : IsFiniteSet(Used(sinceRead, k, resets)[j])
<1>1. /\ sinceRead \in [Keys -> SUBSET Keys]
      /\ \A j \in Keys : IsFiniteSet(sinceRead[j])
  BY DEF MemoryInv, MemoryTypeOK, Ordered
<1>2. Used(sinceRead, k, resets) \in [Keys -> SUBSET Keys]
  BY <1>1 DEF Used
<1>3. ASSUME NEW j \in Keys PROVE IsFiniteSet(Used(sinceRead, k, resets)[j])
  <2>1. IsFiniteSet(sinceRead[j] \union {k}) /\ IsFiniteSet({})
    BY <1>1, FS_EmptySet, FS_AddElement
  <2> QED BY <1>1, <2>1 DEF Used
<1> QED BY <1>2, <1>3

LEMMA GetKeeps ==
  ASSUME MemoryInv, NEW k \in Keys, Get(k)
  PROVE  MemoryInv'
<1>1. /\ Orderly(store, sinceRead) /\ Len(store) <= MaxKeys /\ Len(store) \in Nat
      /\ sinceRead \in [Keys -> SUBSET Keys] /\ store \in Seq(MemoryEntry) /\ KeysOnce(store)
  BY MemoryStored DEF Orderly
<1> DEFINE rest == Without(store, {k})
<1>2. /\ Orderly(rest, sinceRead) /\ Len(rest) <= Len(store) /\ KeysOf(rest) = KeysOf(store) \ {k}
  BY <1>1, WithoutKeeps
<1>3. rest \in Seq(MemoryEntry) /\ Len(rest) \in Nat /\ KeysOnce(rest)
  BY <1>2 DEF Orderly
<1> HIDE DEF rest
<1>4. MaxKeys \in Nat
  BY MemoryLRUAssumption
<1>5. CASE k \in Live(store)
  <2> DEFINE hit == Among(store, {e \in MemoryEntry : e.key = k})
             since == Used(sinceRead, k, TRUE)
  <2>1. store' = rest \o hit /\ sinceRead' = since
    BY <1>5 DEF Get, Touched, rest
  <2>2. PICK e \in MemoryEntry : e.key = k /\ hit = <<e>>
    <3> DEFINE good == {e \in MemoryEntry : e.key = k}
    <3>1. \A i \in DOMAIN store : store[i] \in MemoryEntry
      BY <1>1
    <3>2. {store[i].key : i \in {i \in DOMAIN store : store[i] \in good}} = {k}
      BY <1>5, <3>1 DEF Live
    <3> HIDE DEF good
    <3>3. /\ hit \in Seq(MemoryEntry) /\ KeysOf(hit) = {k} /\ KeysOnce(hit)
          /\ \A a \in DOMAIN hit : hit[a] \in good
      BY <1>1, <3>2, AmongKeeps DEF good
    <3> HIDE DEF hit
    <3>4. Len(hit) = 1
      <4>1. Cardinality({k}) = 1
        BY FS_Singleton
      <4> QED BY <3>3, <4>1, KeysCounted
    <3>5. 1 \in DOMAIN hit /\ hit = <<hit[1]>>
      BY <3>3, <3>4
    <3> QED BY <3>3, <3>5 DEF good
  <2> HIDE DEF hit
  <2>3. rest \o hit = Append(rest, e)
    BY <1>3, <2>2
  <2>4. Orderly(Append(rest, e), since) /\ KeysOf(Append(rest, e)) = KeysOf(rest) \union {k}
    BY <1>1, <1>2, <2>2, AppendedStored DEF since
  <2>5. Len(Append(rest, e)) <= MaxKeys
    <3> DEFINE t == Append(rest, e)
    <3>1. KeysOf(t) = KeysOf(store)
      <4>1. k \in KeysOf(store)
        BY DEF Get
      <4> QED BY <1>2, <2>4, <4>1
    <3>2. t \in Seq(MemoryEntry) /\ KeysOnce(t)
      BY <2>4 DEF Orderly
    <3> HIDE DEF t
    <3>3. Len(t) = Len(store)
      BY <1>1, <3>1, <3>2, KeysCounted
    <3> QED BY <1>1, <3>3 DEF t
  <2>6. since \in [Keys -> SUBSET Keys] /\ \A j \in Keys : IsFiniteSet(since[j])
    BY UsedTyped
  <2> HIDE DEF since
  <2> QED BY <2>1, <2>3, <2>4, <2>5, <2>6, MemoryHolds
<1>6. CASE k \notin Live(store)
  <2>1. store' = rest /\ sinceRead' = sinceRead
    BY <1>6 DEF Get, rest
  <2>2. Len(rest) <= MaxKeys
    BY <1>1, <1>2, <1>3, <1>4
  <2>3. \A j \in Keys : IsFiniteSet(sinceRead[j])
    BY DEF MemoryInv, Ordered
  <2> QED BY <1>1, <1>2, <2>1, <2>2, <2>3, MemoryHolds
<1> QED BY <1>5, <1>6

LEMMA DeleteKeeps ==
  ASSUME MemoryInv, NEW keys, Delete(keys)
  PROVE  MemoryInv'
<1>1. /\ Orderly(store, sinceRead) /\ Len(store) <= MaxKeys /\ Len(store) \in Nat
      /\ sinceRead \in [Keys -> SUBSET Keys] /\ MaxKeys \in Nat
  BY MemoryStored, MemoryLRUAssumption
<1> DEFINE rest == Without(store, keys)
<1>2. Orderly(rest, sinceRead) /\ Len(rest) <= Len(store)
  BY <1>1, WithoutKeeps
<1>3. store' = rest /\ sinceRead' = sinceRead
  BY DEF Delete
<1> HIDE DEF rest
<1>4. Len(rest) <= MaxKeys
  <2>1. Len(rest) \in Nat
    BY <1>2 DEF Orderly
  <2> QED BY <1>1, <1>2, <2>1
<1>5. \A j \in Keys : IsFiniteSet(sinceRead[j])
  BY DEF MemoryInv, Ordered
<1> QED BY <1>1, <1>2, <1>3, <1>4, <1>5, MemoryHolds

LEMMA TickKeeps ==
  ASSUME MemoryInv, MemoryTick
  PROVE  MemoryInv'
<1>1. /\ Orderly(store, sinceRead) /\ Len(store) <= MaxKeys /\ Len(store) \in Nat
      /\ sinceRead \in [Keys -> SUBSET Keys] /\ MaxKeys \in Nat /\ MaxTtl \in Nat
      /\ store \in Seq(MemoryEntry)
  BY MemoryStored, MemoryLRUAssumption DEF Orderly
<1> DEFINE older == [i \in DOMAIN store |->
                      [store[i] EXCEPT !.left = IF @ > 0 THEN @ - 1 ELSE 0]]
<1>2. store' = older /\ sinceRead' = sinceRead
  BY DEF MemoryTick
<1>3. ASSUME NEW i \in DOMAIN store
      PROVE  older[i] \in MemoryEntry /\ older[i].key = store[i].key
  <2>1. store[i] \in MemoryEntry
    BY <1>1
  <2>2. store[i].left \in 0..MaxTtl
    BY <2>1 DEF MemoryEntry
  <2>3. (IF store[i].left > 0 THEN store[i].left - 1 ELSE 0) \in 0..MaxTtl
    BY <1>1, <2>2
  <2> QED BY <2>1, <2>3 DEF MemoryEntry
<1>4. DOMAIN older = DOMAIN store
  OBVIOUS
<1>5. older \in Seq(MemoryEntry) /\ Len(older) = Len(store)
  <2>1. DOMAIN store = 1..Len(store)
    BY <1>1
  <2>2. older \in [1..Len(store) -> MemoryEntry]
    BY <1>3, <2>1
  <2> HIDE DEF older
  <2> QED BY <1>1, <2>2
<1> HIDE DEF older
<1>6. Orderly(older, sinceRead)
  BY <1>1, <1>3, <1>4, <1>5, StillStored
<1>7. \A j \in Keys : IsFiniteSet(sinceRead[j])
  BY DEF MemoryInv, Ordered
<1> QED BY <1>1, <1>2, <1>5, <1>6, <1>7, MemoryHolds

LEMMA SetKeeps ==
  ASSUME MemoryInv, NEW k \in Keys, NEW ttl \in 1..MaxTtl, Set(k, ttl)
  PROVE  MemoryInv' /\ KeysOf(WithRoom(Unexpired(store))) \subseteq KeysOf(store')
<1>1. /\ Orderly(store, sinceRead) /\ Len(store) <= MaxKeys /\ Len(store) \in Nat
      /\ sinceRead \in [Keys -> SUBSET Keys] /\ MaxKeys \in Nat \ {0} /\ MaxTtl \in Nat
  BY MemoryStored, MemoryLRUAssumption
<1> DEFINE good == Unexpired(store)
           room == WithRoom(good)
           e == [key |-> k, left |-> ttl]
<1>2. Orderly(good, sinceRead) /\ Len(good) <= Len(store)
  BY <1>1, UnexpiredKeeps
<1>3. Orderly(room, sinceRead) /\ Len(room) <= MaxKeys - 1
  <2>1. Len(good) \in Nat
    BY <1>2 DEF Orderly
  <2>2. Len(good) <= MaxKeys
    BY <1>1, <1>2, <2>1
  <2> HIDE DEF good
  <2> QED BY <1>2, <2>2, RoomMade
<1>4. /\ store' = Put(room, e)
      /\ sinceRead' = Used(sinceRead, k, k \notin KeysOf(room))
  BY DEF Set
<1>5. e \in MemoryEntry /\ e.key = k
  BY <1>1 DEF MemoryEntry
<1> HIDE DEF e, room
<1>6. room \in Seq(MemoryEntry) /\ Len(room) \in Nat /\ DOMAIN room = 1..Len(room)
  BY <1>3 DEF Orderly
<1>7. CASE k \in KeysOf(room)
  <2> DEFINE t == [i \in DOMAIN room |-> IF room[i].key = k THEN e ELSE room[i]]
             later == Used(sinceRead, k, FALSE)
  <2>1. store' = t /\ sinceRead' = later
    BY <1>4, <1>5, <1>7 DEF Put
  <2>2. \A i \in DOMAIN room : t[i] \in MemoryEntry /\ t[i].key = room[i].key
    BY <1>5, <1>6
  <2>3. t \in Seq(MemoryEntry) /\ DOMAIN t = DOMAIN room /\ Len(t) = Len(room)
    <3>1. t \in [1..Len(room) -> MemoryEntry]
      BY <1>6, <2>2
    <3> HIDE DEF t
    <3> QED BY <1>6, <3>1
  <2> HIDE DEF t
  <2>4. \A j \in KeysOf(room) : sinceRead[j] \subseteq later[j]
    <3>1. \A j \in KeysOf(room) : j \in Keys
      <4>1. \A i \in DOMAIN room : room[i] \in MemoryEntry
        BY <1>6
      <4> QED BY <4>1 DEF KeysOf, MemoryEntry
    <3> QED BY <1>1, <3>1 DEF Used
  <2>5. later \in [Keys -> SUBSET Keys] /\ \A j \in Keys : IsFiniteSet(later[j])
    BY UsedTyped
  <2> HIDE DEF later
  <2>6. Orderly(t, later) /\ KeysOf(t) = KeysOf(room)
    BY <1>3, <2>2, <2>3, <2>4, StillStored
  <2>7. Len(t) <= MaxKeys
    BY <1>1, <1>3, <1>6, <2>3
  <2>8. MemoryInv'
    BY <2>1, <2>5, <2>6, <2>7, MemoryHolds
  <2> QED BY <2>1, <2>6, <2>8 DEF room, good
<1>8. CASE k \notin KeysOf(room)
  <2> DEFINE t == Append(room, e)
             later == Used(sinceRead, k, TRUE)
  <2>1. store' = t /\ sinceRead' = later
    BY <1>4, <1>5, <1>8 DEF Put
  <2>2. Orderly(t, later) /\ KeysOf(t) = KeysOf(room) \union {k}
    BY <1>1, <1>3, <1>5, <1>8, AppendedStored
  <2>3. Len(t) <= MaxKeys
    BY <1>1, <1>3, <1>6
  <2>4. later \in [Keys -> SUBSET Keys] /\ \A j \in Keys : IsFiniteSet(later[j])
    BY UsedTyped
  <2> HIDE DEF t, later
  <2>5. MemoryInv'
    BY <2>1, <2>2, <2>3, <2>4, MemoryHolds
  <2> QED BY <2>1, <2>2, <2>5 DEF room, good
<1> QED BY <1>7, <1>8

\* Only the first of MaxKeys good entries is evicted, and all others were used after it.
LEMMA FirstEvicted ==
  ASSUME MemoryInv, NEW j \in Keys, NEW k \in Keys, Evicts(j, k)
  PROVE  /\ Cardinality(Live(store)) = MaxKeys /\ Cardinality(sinceRead[k]) >= MaxKeys - 1
         /\ k = Unexpired(store)[1].key
<1>1. /\ Orderly(store, sinceRead) /\ Len(store) <= MaxKeys /\ Len(store) \in Nat
      /\ sinceRead \in [Keys -> SUBSET Keys] /\ MaxKeys \in Nat \ {0}
  BY MemoryStored, MemoryLRUAssumption
<1> DEFINE good == Unexpired(store)
           room == WithRoom(good)
<1>2. Orderly(good, sinceRead) /\ Len(good) <= Len(store) /\ KeysOf(good) = Live(store)
  BY <1>1, UnexpiredKeeps
<1>3. k \in KeysOf(good) /\ k \notin KeysOf(room)
  <2>1. PICK ttl \in 1..MaxTtl : Set(j, ttl)
    BY DEF Evicts
  <2>2. KeysOf(room) \subseteq KeysOf(store')
    BY <2>1, SetKeeps
  <2> HIDE DEF room, good
  <2> QED BY <1>2, <2>2 DEF Evicts
<1> HIDE DEF good
<1>4. good \in Seq(MemoryEntry) /\ Len(good) \in Nat /\ DOMAIN good = 1..Len(good) /\ KeysOnce(good)
  BY <1>2 DEF Orderly
<1>5. Len(good) <= MaxKeys
  BY <1>1, <1>2, <1>4
<1>6. /\ Len(good) < MaxKeys => room = good
      /\ Len(good) = MaxKeys => KeysOf(room) = {good[i].key : i \in 2..MaxKeys}
  BY <1>2, <1>5, RoomMade
<1> HIDE DEF room
<1>7. Len(good) = MaxKeys
  <2>1. ~ (Len(good) < MaxKeys)
    BY <1>3, <1>6
  <2> DEFINE n == Len(good)
  <2>2. n \in Nat /\ MaxKeys \in Nat /\ n <= MaxKeys /\ ~ (n < MaxKeys)
    BY <1>1, <1>4, <1>5, <2>1
  <2> HIDE DEF n
  <2>3. n = MaxKeys
    BY <2>2
  <2> QED BY <2>3 DEF n
<1>8. 1 \in DOMAIN good /\ k = good[1].key
  <2>1. PICK i \in DOMAIN good : k = good[i].key
    BY <1>3 DEF KeysOf
  <2>2. i \notin 2..MaxKeys
    BY <1>3, <1>6, <1>7, <2>1
  <2>3. i = 1
    BY <1>1, <1>4, <1>7, <2>2
  <2> QED BY <2>1, <2>3
<1>9. IsFiniteSet(KeysOf(good)) /\ Cardinality(KeysOf(good)) = MaxKeys
  BY <1>4, <1>7, KeysCounted
<1>10. Cardinality(sinceRead[k]) >= MaxKeys - 1
  <2> DEFINE others == KeysOf(good) \ {k}
  <2>1. IsFiniteSet(others) /\ Cardinality(others) = MaxKeys - 1
    BY <1>3, <1>9, FS_RemoveElement
  <2>2. others \subseteq sinceRead[k]
    <3> SUFFICES ASSUME NEW i \in DOMAIN good, good[i].key # k PROVE good[i].key \in sinceRead[k]
      BY DEF KeysOf
    <3>1. 1 < i
      BY <1>4, <1>8
    <3> QED BY <1>2, <1>8, <3>1 DEF Orderly, Recency
  <2> HIDE DEF others
  <2>3. IsFiniteSet(sinceRead[k])
    BY DEF MemoryInv, Ordered
  <2>4. Cardinality(others) <= Cardinality(sinceRead[k]) /\ Cardinality(sinceRead[k]) \in Nat
    BY <2>2, <2>3, FS_Subset, FS_CardinalityType
  <2> QED BY <1>1, <2>1, <2>4
<1> QED BY <1>2, <1>8, <1>9, <1>10 DEF good

\* MemoryCacheBackend: for every capacity and every history of reads, writes,
\* overwrites, deletions and expiry, set evicts a good entry only from a store full of
\* good entries, no more than one, and only after MaxKeys - 1 other keys were used since
\* it was last read or inserted.
THEOREM EvictionsCorrect == MemorySpec => ReadsProtect
<1>1. MemoryInit => MemoryInv
  BY MemoryStarts
<1>2. MemoryInv /\ [MemoryNext]_memoryVars => MemoryInv'
  <2> SUFFICES ASSUME MemoryInv, [MemoryNext]_memoryVars PROVE MemoryInv'
    OBVIOUS
  <2>1. ASSUME NEW k \in Keys, Get(k) PROVE MemoryInv'
    BY <2>1, GetKeeps
  <2>2. ASSUME NEW k \in Keys, NEW ttl \in 1..MaxTtl, Set(k, ttl) PROVE MemoryInv'
    BY <2>2, SetKeeps
  <2>3. ASSUME NEW keys \in SUBSET Keys, Delete(keys) PROVE MemoryInv'
    BY <2>3, DeleteKeeps
  <2>4. CASE MemoryTick
    BY <2>4, TickKeeps
  <2>5. CASE UNCHANGED memoryVars
    BY <2>5 DEF memoryVars, MemoryInv, MemoryTypeOK, Ordered, Recency
  <2> QED BY <2>1, <2>2, <2>3, <2>4, <2>5 DEF MemoryNext
<1>3. MemoryInv /\ MemoryInv' =>
        /\ MemoryTypeOK'
        /\ \/ Live(store) \subseteq KeysOf(store')
           \/ \A j \in Keys :
                /\ \A k \in Keys : Evicts(j, k) =>
                     Cardinality(Live(store)) = MaxKeys /\ Cardinality(sinceRead[k]) >= MaxKeys - 1
                /\ Cardinality({k \in Keys : Evicts(j, k)}) <= 1
  <2> SUFFICES ASSUME MemoryInv, MemoryInv', NEW j \in Keys
               PROVE  /\ MemoryTypeOK'
                      /\ \A k \in Keys : Evicts(j, k) =>
                           /\ Cardinality(Live(store)) = MaxKeys
                           /\ Cardinality(sinceRead[k]) >= MaxKeys - 1
                      /\ Cardinality({k \in Keys : Evicts(j, k)}) <= 1
    BY DEF MemoryInv
  <2> DEFINE first == Unexpired(store)[1].key
             evicted == {k \in Keys : Evicts(j, k)}
  <2>1. evicted \subseteq {first}
    BY FirstEvicted
  <2> HIDE DEF first, evicted
  <2>2. Cardinality(evicted) <= 1
    <3>1. IsFiniteSet({first}) /\ Cardinality({first}) = 1
      BY FS_Singleton
    <3> QED BY <2>1, <3>1, FS_Subset
  <2> QED BY <2>2, FirstEvicted DEF MemoryInv, evicted
<1> QED BY <1>1, <1>2, <1>3, PTL DEF MemorySpec, ReadsProtect
===============================================================================
