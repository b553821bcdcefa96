------------------------------ MODULE MemoryLRU ------------------------------
(***************************************************************************)
(* The store of the memory layer of the cache                              *)
(* (src/src/cache/backends/memory-cache.ts): a Map bounded by maxKeys whose *)
(* order of insertion decides what is evicted.  The backend has no await    *)
(* inside an operation, so operations are atomic; what is hard is a history *)
(* of reads, writes, overwrites and expiry.  The values are left out        *)
(* (module CacheLayers follows one key's), expiresAt is the time an entry   *)
(* has left.                                                                *)
(***************************************************************************)
EXTENDS Integers, Sequences, FiniteSets, SequencesExt

CONSTANTS
  Keys,
  MaxKeys,   \* capacity of the store
  MaxTtl     \* bound on the ttl of entries

ASSUME MemoryLRUAssumption == MaxKeys \in Nat \ {0} /\ MaxTtl \in Nat \ {0}

VARIABLES
  store,      \* the Map: entries in order of insertion
  sinceRead   \* history: keys used since a key was last read or inserted

memoryVars == <<store, sinceRead>>

MemoryEntry == [key: Keys, left: 0..MaxTtl]
KeysOf(s) == {s[i].key : i \in DOMAIN s}
Live(s) == {s[i].key : i \in {i \in DOMAIN s : s[i].left > 0}}

\* The entries of s that are in good, as a fold: nothing can be proved about SelectSeq.
Among(s, good) ==
  FoldLeft(LAMBDA kept, e : IF e \in good THEN Append(kept, e) ELSE kept, <<>>, s)
Without(s, keys) == Among(s, {e \in MemoryEntry : e.key \notin keys})

MemoryInit ==
  /\ store = <<>>
  /\ sinceRead = [k \in Keys |-> {}]

\* The history after a use of k, which resets what was used since k.
Used(since, k, resets) ==
  [j \in Keys |-> IF j # k THEN since[j] \union {k} ELSE IF resets THEN {} ELSE since[j]]

\* Defect: a hit leaves the entry where it is.
TouchedNot(s, k) == s

\* A hit deletes the entry and inserts it again.
Touched(s, k) ==
  Without(s, {k}) \o Among(s, {e \in MemoryEntry : e.key = k})

\* get and getWithTtl
Get(k) ==
  /\ k \in KeysOf(store)
  /\ IF k \in Live(store)
       THEN /\ store' = Touched(store, k)
            /\ sinceRead' = Used(sinceRead, k, TRUE)
       ELSE /\ store' = Without(store, {k})
            /\ UNCHANGED sinceRead

\* evictExpired
Unexpired(s) == Among(s, {e \in MemoryEntry : e.left > 0})

\* The eviction loop, which runs for a key that is already there too.
WithRoom(s) ==
  IF Len(s) >= MaxKeys THEN SubSeq(s, Len(s) - MaxKeys + 2, Len(s)) ELSE s

\* Map.set: a key that is there keeps its place.
Put(s, entry) ==
  IF entry.key \in KeysOf(s)
    THEN [i \in DOMAIN s |-> IF s[i].key = entry.key THEN entry ELSE s[i]]
    ELSE Append(s, entry)

Set(k, ttl) ==
  LET room == WithRoom(Unexpired(store)) IN
  /\ store' = Put(room, [key |-> k, left |-> ttl])
  /\ sinceRead' = Used(sinceRead, k, k \notin KeysOf(room))

\* del, and invalidateByPrefix and clear, which delete a set of keys.
Delete(keys) ==
  /\ keys \intersect KeysOf(store) # {}
  /\ store' = Without(store, keys)
  /\ UNCHANGED sinceRead

\* Time passes; an expired entry stays until somebody meets it.
MemoryTick ==
  /\ Live(store) # {}
  /\ store' = [i \in DOMAIN store |->
       [store[i] EXCEPT !.left = IF @ > 0 THEN @ - 1 ELSE 0]]
  /\ UNCHANGED sinceRead

MemoryNext ==
  \/ \E k \in Keys : Get(k)
  \/ \E k \in Keys, ttl \in 1..MaxTtl : Set(k, ttl)
  \/ \E keys \in SUBSET Keys : Delete(keys)
  \/ MemoryTick

MemorySpec == MemoryInit /\ [][MemoryNext]_memoryVars

-----------------------------------------------------------------------------
(* Properties *)

\* The store holds at most MaxKeys entries, each key once.
MemoryTypeOK ==
  /\ store \in Seq(MemoryEntry)
  /\ Len(store) <= MaxKeys
  /\ \A i, j \in DOMAIN store : store[i].key = store[j].key => i = j
  /\ sinceRead \in [Keys -> SUBSET Keys]

Evicts(j, k) ==
  /\ k \in Live(store) \ KeysOf(store')
  /\ \E ttl \in 1..MaxTtl : Set(j, ttl)

\* A read, or the insertion, protects an entry that is still good: set evicts it
\* only from a store full of good entries, no other entry with it, and only after
\* MaxKeys - 1 others were used since ("The eviction loop in `set()`").  An
\* overwrite protects less than that: see TrueLRU of MCMemoryLRU.
ReadsProtect ==
  [][/\ MemoryTypeOK'
     /\ \/ Live(store) \subseteq KeysOf(store')
        \/ \A j \in Keys :
             /\ \A k \in Keys : Evicts(j, k) =>
                  Cardinality(Live(store)) = MaxKeys /\ Cardinality(sinceRead[k]) >= MaxKeys - 1
             /\ Cardinality({k \in Keys : Evicts(j, k)}) <= 1]_memoryVars
=============================================================================
