--------------------------- MODULE MCProcessStores ---------------------------
(***************************************************************************)
(* Instances of MemoryLRU, StakingPortfolio, RateLimiter, ChunkedUploads,   *)
(* CacheKeys and JobQueue for TLC: what the process keeps in memory, the    *)
(* responses of a client, and the jobs.  They share no state, so a history  *)
(* is about one of them.                                                    *)
(***************************************************************************)
EXTENDS MemoryLRU, StakingPortfolio, MCRateLimiter, ChunkedUploads, CacheKeys, JobQueue

CONSTANT astr

MCRates == astr :> 2

\* A date and a string that looks like it, values of two types that look alike,
\* and what JSON does not keep.
MCScalars ==
  {Null, Undefined, NaN, Scalar("number", "1"), Scalar("string", "1"),
   Scalar("Date", "noon"), Scalar("string", "noon"), Scalar("string", "Date")}
MCFieldNames == {"__type", "value"}
MCBodies ==
  {Null, Array(<<>>)} \union {Object("value" :> v) : v \in MCScalars}

-----------------------------------------------------------------------------
(* One store to a history *)

VARIABLE subject  \* the store that the history is about

storesVars ==
  <<memoryVars, stakingVars, limiterVars, uploadVars, responseVars, vars, subject>>

\* A provider or a body that differs from the first one is for its own store.
StoresInit ==
  /\ MemoryInit /\ StakingInit /\ LimiterInit /\ UploadsInit /\ ResponsesInit /\ Init
  /\ subject \in {"cache", "staking", "limiter", "uploads", "responses", "jobs"}
  /\ subject = "uploads" \/ provider = "local"
  /\ subject = "responses" \/ body = Null

StoresNext ==
  /\ \/ /\ subject = "cache" /\ MemoryNext
        /\ UNCHANGED <<stakingVars, limiterVars, uploadVars, responseVars, vars>>
     \/ /\ subject = "staking" /\ StakingNext
        /\ UNCHANGED <<memoryVars, limiterVars, uploadVars, responseVars, vars>>
     \/ /\ subject = "limiter" /\ LimiterNext
        /\ UNCHANGED <<memoryVars, stakingVars, uploadVars, responseVars, vars>>
     \/ /\ subject = "uploads" /\ UploadsNext
        /\ UNCHANGED <<memoryVars, stakingVars, limiterVars, responseVars, vars>>
     \/ /\ subject = "responses" /\ ResponsesNext
        /\ UNCHANGED <<memoryVars, stakingVars, limiterVars, uploadVars, vars>>
     \/ /\ subject = "jobs" /\ Next
        /\ UNCHANGED <<memoryVars, stakingVars, limiterVars, uploadVars, responseVars>>
  /\ UNCHANGED subject

\* The fairness of the jobs asks nothing of a history about another store.
StoresSpec == StoresInit /\ [][StoresNext]_storesVars /\ Fairness
=============================================================================
