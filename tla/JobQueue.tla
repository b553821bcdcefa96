------------------------------ MODULE JobQueue ------------------------------
(***************************************************************************)
(* The job queue (src/src/modules/queue/): QueueService puts jobs into one  *)
(* of three Bull queues by their priority, and a processor runs them.  Bull *)
(* keeps the jobs in Redis: it starts them one at a time for each processor,*)
(* starts a job again that failed or whose process stopped, and gives up a  *)
(* run that takes longer than the timeout of its job.  Giving up does not   *)
(* stop the run: JavaScript cannot, and its work is done later all the same.*)
(*                                                                          *)
(* The payload, the lengths of timeouts and delays, and the order in which  *)
(* waiting jobs are started are left out.                                   *)
(***************************************************************************)
EXTENDS Integers, FiniteSets

CONSTANTS
  Jobs,           \* the ids of jobs
  Retries,        \* values of maxRetries that clients ask for
  DefaultRetries, \* what stands in for a maxRetries that is missing or zero
  MaxStalled      \* how often Bull starts a job again whose process stopped

ASSUME JobQueueAssumption ==
  /\ Retries \subseteq Nat
  /\ DefaultRetries \in Nat \ {0}
  /\ MaxStalled \in Nat

VARIABLES
  jobs,       \* the jobs in the queues
  running,    \* the job that the processor of each queue is running
  lingering,  \* by job, the runs that were given up and still go on
  used,       \* history: the ids given out
  started,    \* history: by job, the runs that were started
  effects,    \* history: by job, how often its work was done
  disturbed   \* history: jobs with a run that was given up or cut off

vars == <<jobs, running, lingering, used, started, effects, disturbed>>

Priorities == {"HIGH", "MEDIUM", "LOW"}
Types == {"known", "unknown"}
BullStates == {"waiting", "delayed", "active", "completed", "failed"}
Ended == {"completed", "failed"}

Absent == [state |-> "absent"]
Job == [state: BullStates, priority: Priorities, type: Types,
        attempts: Nat \ {0}, attemptsMade: Nat, stalled: 0..MaxStalled]

Present(j) == jobs[j] # Absent

\* getQueueForPriority
Queue(priority) == CASE priority = "HIGH" -> "high-priority-queue"
                     [] priority = "LOW" -> "low-priority-queue"
                     [] OTHER -> "default-queue"

\* Defect: the processor names another queue.
ProcessedElsewhere == {"high-priority-queue"}

\* The queues whose processor is among the providers of the module.
Processed == {"default-queue"}

NoJob == "none"

ASSUME NoJobAssumption == NoJob \notin Jobs

Init ==
  /\ jobs = [j \in Jobs |-> Absent]
  /\ running = [q \in Processed |-> NoJob]
  /\ lingering = [j \in Jobs |-> 0]
  /\ used = {}
  /\ started = [j \in Jobs |-> 0]
  /\ effects = [j \in Jobs |-> 0]
  /\ disturbed = {}

Running(j) == \E q \in Processed : running[q] = j
QueueOf(j) == Queue(jobs[j].priority)

-----------------------------------------------------------------------------
(* QueueService *)

\* maxRetries || 3: zero counts as missing.
Attempts(maxRetries) == IF maxRetries = 0 THEN DefaultRetries ELSE maxRetries

Enqueue(j, priority, type, maxRetries, state) ==
  /\ j \notin used
  /\ used' = used \union {j}
  /\ jobs' = [jobs EXCEPT ![j] =
       [state |-> state, priority |-> priority, type |-> type,
        attempts |-> Attempts(maxRetries), attemptsMade |-> 0, stalled |-> 0]]
  /\ UNCHANGED <<running, lingering, started, effects, disturbed>>

AddJob(j, priority, type, maxRetries, delayed) ==
  Enqueue(j, priority, type, maxRetries, IF delayed THEN "delayed" ELSE "waiting")

\* The cron expression is stored with the job and read by nobody: the job is
\* started at once, like any other.
ScheduleJob(j, priority, type, maxRetries) ==
  Enqueue(j, priority, type, maxRetries, "waiting")

\* Defect: a job that is being run is removed, and its run goes on.
CancelJobRunning(j) ==
  /\ Present(j)
  /\ jobs' = [jobs EXCEPT ![j] = Absent]
  /\ running' = [q \in Processed |-> IF running[q] = j THEN NoJob ELSE running[q]]
  /\ lingering' = IF Running(j) THEN [lingering EXCEPT ![j] = @ + 1] ELSE lingering
  /\ UNCHANGED <<used, started, effects, disturbed>>

\* A job that is being run is locked: its removal throws.
CancelJob(j) ==
  /\ Present(j) /\ ~Running(j)
  /\ jobs' = [jobs EXCEPT ![j] = Absent]
  /\ UNCHANGED <<running, lingering, used, started, effects, disturbed>>

\* getJobStatus
JobStatus(j) ==
  IF ~Present(j) THEN "null"
  ELSE CASE jobs[j].state \in {"waiting", "delayed"} -> "pending"
         [] jobs[j].state = "active" -> "processing"
         [] OTHER -> jobs[j].state

-----------------------------------------------------------------------------
(* The processor, started by Bull *)

\* A delay or back-off has run out.
Promote(j) ==
  /\ Present(j) /\ jobs[j].state = "delayed" /\ QueueOf(j) \in Processed
  /\ jobs' = [jobs EXCEPT ![j].state = "waiting"]
  /\ UNCHANGED <<running, lingering, used, started, effects, disturbed>>

HandleJob(j) ==
  /\ Present(j) /\ jobs[j].state = "waiting"
  /\ QueueOf(j) \in Processed /\ running[QueueOf(j)] = NoJob
  /\ jobs' = [jobs EXCEPT ![j].state = "active"]
  /\ running' = [running EXCEPT ![QueueOf(j)] = j]
  /\ started' = [started EXCEPT ![j] = @ + 1]
  /\ UNCHANGED <<lingering, used, effects, disturbed>>

Release(j) == running' = [running EXCEPT ![QueueOf(j)] = NoJob]

\* The work of a known type is done; such a run does not throw.
ProcessJob(j) ==
  /\ Running(j) /\ jobs[j].type = "known"
  /\ jobs' = [jobs EXCEPT ![j].state = "completed"]
  /\ Release(j)
  /\ effects' = [effects EXCEPT ![j] = @ + 1]
  /\ UNCHANGED <<lingering, used, started, disturbed>>

\* Defect: one attempt more.
FailedOnceMore(job) ==
  [job EXCEPT !.attemptsMade = @ + 1,
              !.state = IF job.attemptsMade < job.attempts THEN "delayed" ELSE "failed"]

\* The job after a run that failed: it waits for its back-off, or has failed for
\* good, and stays in its queue.
Failed(job) ==
  [job EXCEPT !.attemptsMade = job.attemptsMade + 1,
              !.state = IF job.attemptsMade + 1 < job.attempts THEN "delayed" ELSE "failed"]

\* Defect: the error is logged and not thrown again.
ProcessUnknownJobSwallowed(j) ==
  /\ Running(j) /\ jobs[j].type = "unknown"
  /\ jobs' = [jobs EXCEPT ![j].state = "completed"]
  /\ Release(j)
  /\ UNCHANGED <<lingering, used, started, effects, disturbed>>

\* processJob throws "Unknown job type".
ProcessUnknownJob(j) ==
  /\ Running(j) /\ jobs[j].type = "unknown"
  /\ jobs' = [jobs EXCEPT ![j] = Failed(jobs[j])]
  /\ Release(j)
  /\ UNCHANGED <<lingering, used, started, effects, disturbed>>

\* The run takes longer than the timeout of the job.
TimeOut(j) ==
  /\ Running(j) /\ jobs[j].type = "known"
  /\ jobs' = [jobs EXCEPT ![j] = Failed(jobs[j])]
  /\ Release(j)
  /\ lingering' = [lingering EXCEPT ![j] = @ + 1]
  /\ disturbed' = disturbed \union {j}
  /\ UNCHANGED <<used, started, effects>>

\* A run that was given up does its work; nobody looks at its result.
LingeringEnds(j) ==
  /\ lingering[j] > 0
  /\ lingering' = [lingering EXCEPT ![j] = @ - 1]
  /\ effects' = [effects EXCEPT ![j] = @ + 1]
  /\ UNCHANGED <<jobs, running, used, started, disturbed>>

\* The process stops and starts again; the jobs it was running stay active.
Restart ==
  /\ running' = [q \in Processed |-> NoJob]
  /\ lingering' = [j \in Jobs |-> 0]
  /\ disturbed' = disturbed \union {j \in Jobs : Running(j) \/ lingering[j] > 0}
  /\ UNCHANGED <<jobs, used, started, effects>>

\* The job after a run that was cut off: it is started again, or has failed.
CutOff(job) ==
  IF job.stalled < MaxStalled
    THEN [job EXCEPT !.state = "waiting", !.stalled = job.stalled + 1]
    ELSE [job EXCEPT !.state = "failed"]

\* The lock of a job that nobody runs has expired.
Stalled(j) ==
  /\ Present(j) /\ jobs[j].state = "active" /\ ~Running(j)
  /\ jobs' = [jobs EXCEPT ![j] = CutOff(jobs[j])]
  /\ UNCHANGED <<running, lingering, used, started, effects, disturbed>>

Next ==
  \/ \E j \in Jobs, priority \in Priorities, type \in Types, maxRetries \in Retries :
       \/ \E delayed \in BOOLEAN : AddJob(j, priority, type, maxRetries, delayed)
       \/ ScheduleJob(j, priority, type, maxRetries)
  \/ \E j \in Jobs :
       \/ CancelJob(j) \/ Promote(j) \/ HandleJob(j) \/ ProcessJob(j)
       \/ ProcessUnknownJob(j) \/ TimeOut(j) \/ LingeringEnds(j) \/ Stalled(j)
  \/ Restart

Spec == Init /\ [][Next]_vars

\* Bull goes on with a job that can go on, and a run ends or is given up.
Fairness ==
  \A j \in Jobs :
    /\ WF_vars(Promote(j)) /\ WF_vars(HandleJob(j)) /\ WF_vars(Stalled(j))
    /\ WF_vars(ProcessJob(j) \/ ProcessUnknownJob(j) \/ TimeOut(j))

FairSpec == Spec /\ Fairness

-----------------------------------------------------------------------------
(* Properties *)

\* Jobs, runs and counts are what they may be, and only ids given out have jobs;
\* what a processor runs is an active job of its queue.
TypeOK ==
  /\ jobs \in [Jobs -> Job \union {Absent}]
  /\ running \in [Processed -> Jobs \union {NoJob}]
  /\ \A q \in Processed : running[q] # NoJob =>
       Present(running[q]) /\ jobs[running[q]].state = "active" /\ QueueOf(running[q]) = q
  /\ lingering \in [Jobs -> Nat]
  /\ used \subseteq Jobs /\ \A j \in Jobs : Present(j) => j \in used
  /\ started \in [Jobs -> Nat] /\ effects \in [Jobs -> Nat]
  /\ disturbed \subseteq Jobs

\* However runs are given up, cut off and started again, a job is run no more
\* often than its attempts and the restarts Bull allows it, and no run does its
\* work twice (addJob's attempts).
RunsBounded ==
  /\ TypeOK
  /\ \A j \in Jobs :
       /\ Present(j) => started[j] <= jobs[j].attempts + MaxStalled
       /\ effects[j] + lingering[j] + (IF Running(j) THEN 1 ELSE 0) <= started[j]

\* The status told to clients is that of the work, unless a run was given up or
\* cut off: a completed job was done once, and one that is pending, being
\* processed or failed was not done at all (getJobStatus).
StatusTellsEffects ==
  \A j \in Jobs \ disturbed :
    Present(j) => effects[j] = IF JobStatus(j) = "completed" THEN 1 ELSE 0

\* A cancelled job that no run was given up of is not worked on any more
\* (cancelJob).
CancelSticks ==
  [][\A j \in Jobs : j \in used /\ ~Present(j) =>
       /\ ~Present(j)' /\ started'[j] = started[j]
       /\ j \notin disturbed => effects'[j] = effects[j]]_vars

\* A job of medium priority ends, or is cancelled, however often its runs fail and
\* its process stops.
DefaultJobsEnd ==
  \A j \in Jobs :
    (Present(j) /\ QueueOf(j) = "default-queue")
      ~> (~Present(j) \/ JobStatus(j) \in Ended)
=============================================================================
