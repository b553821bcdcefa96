----------------------------- MODULE MCMemoryLRU -----------------------------
(***************************************************************************)
(* Instance of MemoryLRU for TLC, with the history that "true LRU eviction" *)
(* is about: a write is a use of its key, also of one that was there.       *)
(***************************************************************************)
EXTENDS MemoryLRU

VARIABLE sinceUsed  \* history: keys used since a key was last read or written

LRUVars == <<memoryVars, sinceUsed>>

LRUInit == MemoryInit /\ sinceUsed = [k \in Keys |-> {}]

LRUNext ==
  \/ \E k \in Keys :
       /\ Get(k)
       /\ sinceUsed' = IF k \in Live(store) THEN Used(sinceUsed, k, TRUE) ELSE sinceUsed
  \/ \E k \in Keys, ttl \in 1..MaxTtl :
       Set(k, ttl) /\ sinceUsed' = Used(sinceUsed, k, TRUE)
  \/ (MemoryTick \/ \E keys \in SUBSET Keys : Delete(keys)) /\ UNCHANGED sinceUsed

LRUSpec == LRUInit /\ [][LRUNext]_LRUVars

\* "The eviction loop in `set()` therefore removes the least-recently-used key
\* first": every good entry but the one set writes was used after the one it evicts.
TrueLRU ==
  [][\A j, k \in Keys :
       Evicts(j, k) => Live(store) \ {j, k} \subseteq sinceUsed[k]]_LRUVars
=============================================================================
