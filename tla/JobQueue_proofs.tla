--------------------------- MODULE JobQueue_proofs ---------------------------
(***************************************************************************)
(* Proofs about JobQueue, for any set of jobs, number of attempts and       *)
(* stalls allowed: its state stays well formed, and however runs fail, are  *)
(* given up, are cut off and started again, their number is bounded.        *)
(***************************************************************************)
EXTENDS JobQueue, TLAPS

\* The steps that change the state of one job, or none.
JobStep(j) ==
  \/ CancelJob(j) \/ Promote(j) \/ HandleJob(j) \/ ProcessJob(j)
  \/ ProcessUnknownJob(j) \/ TimeOut(j) \/ LingeringEnds(j) \/ Stalled(j)

EnqueueStep ==
  \E j \in Jobs, priority \in Priorities, type \in Types, maxRetries \in Retries,
     state \in {"waiting", "delayed"} : Enqueue(j, priority, type, maxRetries, state)

\* AddJob and ScheduleJob are one kind of step.
LEMMA StepCases ==
  ASSUME [Next]_vars
  PROVE  EnqueueStep \/ (\E j \in Jobs : JobStep(j)) \/ Restart \/ UNCHANGED vars
BY DEF Next, EnqueueStep, JobStep, AddJob, ScheduleJob

\* What Attempts makes of a maxRetries is a number of attempts (addJob).
LEMMA AttemptsPositive ==
  ASSUME NEW maxRetries \in Retries
  PROVE  Attempts(maxRetries) \in Nat \ {0}
BY JobQueueAssumption DEF Attempts

\* A failed run leaves a job that waits or has ended, with one attempt made more.
LEMMA FailedTyped ==
  ASSUME NEW job \in Job
  PROVE  /\ Failed(job) \in Job
         /\ Failed(job).priority = job.priority
         /\ Failed(job).attempts = job.attempts
         /\ Failed(job).stalled = job.stalled
         /\ Failed(job).attemptsMade = job.attemptsMade + 1
         /\ Failed(job).state \in {"delayed", "failed"}
         /\ Failed(job).state = "delayed" => job.attemptsMade + 1 < job.attempts
<1>1. /\ job.state \in BullStates /\ job.priority \in Priorities /\ job.type \in Types
      /\ job.attempts \in Nat \ {0} /\ job.attemptsMade \in Nat /\ job.stalled \in 0..MaxStalled
      /\ job = [state |-> job.state, priority |-> job.priority, type |-> job.type,
                attempts |-> job.attempts, attemptsMade |-> job.attemptsMade,
                stalled |-> job.stalled]
  BY DEF Job
<1> DEFINE state == IF job.attemptsMade + 1 < job.attempts THEN "delayed" ELSE "failed"
<1>2. state \in BullStates /\ state \in {"delayed", "failed"}
      /\ (state = "delayed" => job.attemptsMade + 1 < job.attempts)
  BY DEF BullStates
<1>3. Failed(job) = [job EXCEPT !.attemptsMade = job.attemptsMade + 1, !.state = state]
  BY DEF Failed
<1> HIDE DEF state
<1>4. Failed(job) =
        [state |-> state, priority |-> job.priority, type |-> job.type,
         attempts |-> job.attempts, attemptsMade |-> job.attemptsMade + 1,
         stalled |-> job.stalled]
  BY <1>1, <1>3
<1> QED BY <1>1, <1>2, <1>4 DEF Job

\* A run that was cut off leaves a job that waits, with one restart less, or failed.
LEMMA CutOffTyped ==
  ASSUME NEW job \in Job
  PROVE  /\ CutOff(job) \in Job
         /\ CutOff(job).priority = job.priority
         /\ CutOff(job).attempts = job.attempts
         /\ CutOff(job).attemptsMade = job.attemptsMade
         /\ \/ CutOff(job).state = "waiting" /\ CutOff(job).stalled = job.stalled + 1
            \/ CutOff(job).state = "failed" /\ CutOff(job).stalled = job.stalled
<1>1. /\ job.state \in BullStates /\ job.priority \in Priorities /\ job.type \in Types
      /\ job.attempts \in Nat \ {0} /\ job.attemptsMade \in Nat /\ job.stalled \in 0..MaxStalled
      /\ job = [state |-> job.state, priority |-> job.priority, type |-> job.type,
                attempts |-> job.attempts, attemptsMade |-> job.attemptsMade,
                stalled |-> job.stalled]
  BY DEF Job
<1>2. CASE job.stalled < MaxStalled
  <2>1. CutOff(job) =
          [state |-> "waiting", priority |-> job.priority, type |-> job.type,
           attempts |-> job.attempts, attemptsMade |-> job.attemptsMade,
           stalled |-> job.stalled + 1]
    BY <1>1, <1>2 DEF CutOff
  <2>2. job.stalled + 1 \in 0..MaxStalled
    BY <1>1, <1>2, JobQueueAssumption
  <2> QED BY <1>1, <2>1, <2>2 DEF Job, BullStates
<1>3. CASE ~(job.stalled < MaxStalled)
  <2>1. CutOff(job) =
          [state |-> "failed", priority |-> job.priority, type |-> job.type,
           attempts |-> job.attempts, attemptsMade |-> job.attemptsMade,
           stalled |-> job.stalled]
    BY <1>1, <1>3 DEF CutOff
  <2> QED BY <1>1, <2>1 DEF Job, BullStates
<1> QED BY <1>2, <1>3

\* A job that is being run is present, and only its own queue runs it.
LEMMA RunningFacts ==
  ASSUME TypeOK, NEW j \in Jobs, Running(j)
  PROVE  /\ jobs[j] \in Job /\ Present(j) /\ jobs[j].state = "active"
         /\ QueueOf(j) \in Processed /\ running[QueueOf(j)] = j
         /\ \A q \in Processed : running[q] = j => q = QueueOf(j)
<1>1. PICK q \in Processed : running[q] = j
  BY DEF Running
<1>2. j # NoJob
  BY NoJobAssumption
<1>3. Present(j) /\ jobs[j].state = "active" /\ QueueOf(j) = q
  BY <1>1, <1>2 DEF TypeOK
<1>4. jobs[j] \in Job
  BY <1>3 DEF TypeOK, Present
<1>5. \A p \in Processed : running[p] = j => p = QueueOf(j)
  BY <1>2 DEF TypeOK
<1> QED BY <1>1, <1>3, <1>4, <1>5

LEMMA TypeInductive == TypeOK /\ [Next]_vars => TypeOK'
<1> SUFFICES ASSUME TypeOK, [Next]_vars PROVE TypeOK'
  OBVIOUS
<1> USE JobQueueAssumption, NoJobAssumption
<1>1. CASE EnqueueStep
  <2>1. PICK j \in Jobs, priority \in Priorities, type \in Types, maxRetries \in Retries,
             state \in {"waiting", "delayed"} : Enqueue(j, priority, type, maxRetries, state)
    BY <1>1 DEF EnqueueStep
  <2> DEFINE new == [state |-> state, priority |-> priority, type |-> type,
                     attempts |-> Attempts(maxRetries), attemptsMade |-> 0, stalled |-> 0]
  <2>2. new \in Job /\ new # Absent
    BY AttemptsPositive DEF Job, BullStates, Absent
  <2>3. jobs' = [jobs EXCEPT ![j] = new]
    BY <2>1 DEF Enqueue
  <2>4. ~Running(j)
    BY <2>1 DEF Enqueue, TypeOK, Running, Present
  <2> QED BY <2>1, <2>2, <2>3, <2>4 DEF TypeOK, Enqueue, Present, QueueOf, Running
<1>2. ASSUME NEW j \in Jobs, JobStep(j) PROVE TypeOK'
  <2>1. CASE CancelJob(j)
    BY <2>1 DEF TypeOK, CancelJob, Present, Running, QueueOf, Absent
  <2>2. CASE Promote(j)
    BY <2>2 DEF TypeOK, Promote, Present, QueueOf, Job, Absent, BullStates
  <2>3. CASE HandleJob(j)
    BY <2>3 DEF TypeOK, HandleJob, Present, QueueOf, Job, Absent, BullStates
  <2>4. CASE ProcessJob(j)
    BY <2>4, RunningFacts DEF TypeOK, ProcessJob, Release, Present, QueueOf, Job, Absent, BullStates
  <2>5. CASE ProcessUnknownJob(j)
    BY <2>5, RunningFacts, FailedTyped
       DEF TypeOK, ProcessUnknownJob, Release, Present, QueueOf, Absent
  <2>6. CASE TimeOut(j)
    BY <2>6, RunningFacts, FailedTyped DEF TypeOK, TimeOut, Release, Present, QueueOf, Absent
  <2>7. CASE LingeringEnds(j)
    BY <2>7 DEF TypeOK, LingeringEnds, Present, QueueOf
  <2>8. CASE Stalled(j)
    <3>1. jobs[j] \in Job
      BY <2>8 DEF TypeOK, Stalled, Present
    <3>2. CutOff(jobs[j]) \in Job
      BY <3>1, CutOffTyped
    <3> QED BY <2>8, <3>2 DEF TypeOK, Stalled, Present, Running, QueueOf
  <2> QED BY <1>2, <2>1, <2>2, <2>3, <2>4, <2>5, <2>6, <2>7, <2>8 DEF JobStep
<1>3. CASE Restart
  BY <1>3 DEF TypeOK, Restart, Present, QueueOf
<1>4. CASE UNCHANGED vars
  BY <1>4 DEF TypeOK, vars, Present, QueueOf
<1> QED BY <1>1, <1>2, <1>3, <1>4, StepCases

\* The state of the queues and their jobs is well formed, and what a processor
\* runs is an active job of its queue (QueueService, JobProcessor, Bull).
THEOREM TypeCorrect == Spec => []TypeOK
<1>1. Init => TypeOK
  BY NoJobAssumption DEF Init, TypeOK, Present
<1> QED BY <1>1, TypeInductive, PTL DEF Spec

-----------------------------------------------------------------------------
(* The bound on runs *)

\* What n, the number of runs started of a job, has to do with its counts: a job
\* that waits has ended each run by a failure or a restart, an active one has one
\* run besides, and both have an attempt left.
CountsAgree(job, n) ==
  /\ job.state \in {"waiting", "delayed"} => n = job.attemptsMade + job.stalled
  /\ job.state = "active" => n = job.attemptsMade + job.stalled + 1
  /\ job.state \in {"waiting", "delayed", "active"} => job.attemptsMade < job.attempts
  /\ n <= job.attempts + MaxStalled

\* The runs that have done their work, and those that may still do it.
Works(j) == effects[j] + lingering[j] + (IF Running(j) THEN 1 ELSE 0)

\* RunsBounded says nothing of how far a job that waits has come, which bounds the
\* runs it has left, nor that an id not given out has no runs.
Counted(j) ==
  /\ Present(j) => CountsAgree(jobs[j], started[j])
  /\ Works(j) <= started[j]
  /\ j \notin used => started[j] = 0

RunsInv == TypeOK /\ \A j \in Jobs : Counted(j)

\* A step that leaves a job and its counts alone keeps its counts in order.
LEMMA CountedKept ==
  ASSUME NEW j \in Jobs, Counted(j),
         jobs'[j] = jobs[j], started'[j] = started[j], effects'[j] = effects[j],
         lingering'[j] = lingering[j], Running(j)' = Running(j), j \in used' <=> j \in used
  PROVE  Counted(j)'
BY DEF Counted, Works, CountsAgree, Present

\* A step of one job leaves the counts of the others in order.
LEMMA OthersCounted ==
  ASSUME TypeOK, NEW j \in Jobs, JobStep(j), NEW k \in Jobs, k # j, Counted(k)
  PROVE  Counted(k)'
<1>1. /\ jobs'[k] = jobs[k] /\ started'[k] = started[k] /\ effects'[k] = effects[k]
      /\ lingering'[k] = lingering[k] /\ used' = used
  BY DEF TypeOK, JobStep, CancelJob, Promote, HandleJob, ProcessJob, ProcessUnknownJob,
         TimeOut, LingeringEnds, Stalled
<1>2. Running(k)' = Running(k)
  <2>1. CASE HandleJob(j)
    BY <2>1, NoJobAssumption DEF HandleJob, Running, TypeOK
  <2>2. CASE ProcessJob(j) \/ ProcessUnknownJob(j) \/ TimeOut(j)
    BY <2>2, RunningFacts, NoJobAssumption
    DEF ProcessJob, ProcessUnknownJob, TimeOut, Release, Running, TypeOK
  <2>3. CASE CancelJob(j) \/ Promote(j) \/ LingeringEnds(j) \/ Stalled(j)
    BY <2>3 DEF CancelJob, Promote, LingeringEnds, Stalled, Running
  <2> QED BY <2>1, <2>2, <2>3 DEF JobStep
<1> QED BY <1>1, <1>2, CountedKept

LEMMA RunsInductive == RunsInv /\ [Next]_vars => RunsInv'
<1> SUFFICES ASSUME RunsInv, [Next]_vars PROVE RunsInv'
  OBVIOUS
<1> USE JobQueueAssumption, NoJobAssumption
<1>1. TypeOK /\ TypeOK' /\ \A k \in Jobs : Counted(k)
  BY TypeInductive DEF RunsInv
<1>2. CASE EnqueueStep
  <2>1. PICK j \in Jobs, priority \in Priorities, type \in Types, maxRetries \in Retries,
             state \in {"waiting", "delayed"} : Enqueue(j, priority, type, maxRetries, state)
    BY <1>2 DEF EnqueueStep
  <2>2. ASSUME NEW k \in Jobs, k # j PROVE Counted(k)'
    <3>1. /\ jobs'[k] = jobs[k] /\ started'[k] = started[k] /\ effects'[k] = effects[k]
          /\ lingering'[k] = lingering[k] /\ (k \in used' <=> k \in used)
          /\ Running(k)' = Running(k)
      BY <1>1, <2>1, <2>2 DEF Enqueue, TypeOK, Running
    <3> QED BY <1>1, <3>1, CountedKept
  <2>3. Counted(j)'
    <3>1. started[j] = 0 /\ Works(j) <= started[j]
      BY <1>1, <2>1 DEF Enqueue, Counted
    <3>2. jobs'[j] = [state |-> state, priority |-> priority, type |-> type,
                      attempts |-> Attempts(maxRetries), attemptsMade |-> 0, stalled |-> 0]
      BY <1>1, <2>1 DEF Enqueue, TypeOK
    <3>3. CountsAgree(jobs'[j], 0)
      BY <3>2, AttemptsPositive DEF CountsAgree
    <3>4. Works(j)' = Works(j) /\ started'[j] = started[j] /\ j \in used'
      BY <1>1, <2>1 DEF Enqueue, Works, Running
    <3> QED BY <3>1, <3>3, <3>4 DEF Counted
  <2> QED BY <1>1, <2>2, <2>3 DEF RunsInv
<1>3. ASSUME NEW j \in Jobs, JobStep(j) PROVE RunsInv'
  <2>1. \A k \in Jobs : k # j => Counted(k)'
    BY <1>1, <1>3, OthersCounted
  <2>2. Counted(j)'
    <3>1. /\ effects[j] \in Nat /\ lingering[j] \in Nat /\ started[j] \in Nat
          /\ Works(j) <= started[j]
          /\ Present(j) => jobs[j] \in Job /\ j \in used /\ CountsAgree(jobs[j], started[j])
      BY <1>1 DEF TypeOK, Counted, Present
    <3>2. CASE CancelJob(j)
      <4>1. ~Present(j)' /\ Works(j)' = Works(j) /\ started' = started /\ used' = used
        BY <1>1, <3>2 DEF CancelJob, Works, Running, Present, TypeOK
      <4> QED BY <1>1, <4>1 DEF Counted
    <3>3. CASE Promote(j)
      <4>1. CountsAgree(jobs'[j], started[j])
        BY <1>1, <3>1, <3>3 DEF Promote, CountsAgree, TypeOK, Job
      <4>2. Works(j)' = Works(j) /\ started' = started /\ used' = used
        BY <3>3 DEF Promote, Works, Running
      <4> QED BY <1>1, <4>1, <4>2 DEF Counted
    <3>4. CASE HandleJob(j)
      <4>1. started'[j] = started[j] + 1
        BY <1>1, <3>4 DEF HandleJob, TypeOK
      <4>2. CountsAgree(jobs'[j], started'[j])
        <5>1. jobs'[j] = [jobs[j] EXCEPT !.state = "active"]
          BY <1>1, <3>4 DEF HandleJob, TypeOK
        <5> QED BY <3>1, <3>4, <4>1, <5>1 DEF HandleJob, CountsAgree, Job
      <4>3. effects' = effects /\ lingering' = lingering /\ ~Running(j)
        BY <1>1, <3>4 DEF HandleJob, TypeOK, Running
      <4>4. Works(j)' <= started'[j]
        BY <3>1, <4>1, <4>3 DEF Works
      <4> QED BY <3>1, <3>4, <4>2, <4>4 DEF Counted, HandleJob
    <3>5. CASE ProcessJob(j)
      <4>1. Running(j) /\ ~Running(j)'
        BY <1>1, <3>5, RunningFacts DEF ProcessJob, Release, Running, TypeOK
      <4>2. /\ jobs'[j] = [jobs[j] EXCEPT !.state = "completed"]
            /\ effects'[j] = effects[j] + 1
            /\ lingering' = lingering /\ started' = started /\ used' = used
        BY <1>1, <3>5 DEF ProcessJob, TypeOK
      <4>3. Works(j)' <= started'[j]
        BY <3>1, <4>1, <4>2 DEF Works
      <4>4. CountsAgree(jobs'[j], started'[j])
        BY <1>1, <3>1, <4>1, <4>2, RunningFacts DEF CountsAgree, Job
      <4> QED BY <1>1, <3>1, <4>1, <4>2, <4>3, <4>4, RunningFacts DEF Counted
    <3>6. CASE ProcessUnknownJob(j)
      <4>1. Running(j) /\ ~Running(j)'
        BY <1>1, <3>6, RunningFacts DEF ProcessUnknownJob, Release, Running, TypeOK
      <4>2. /\ jobs'[j] = Failed(jobs[j]) /\ effects' = effects
            /\ lingering' = lingering /\ started' = started /\ used' = used
        BY <1>1, <3>6 DEF ProcessUnknownJob, TypeOK
      <4>3. Works(j)' <= started'[j]
        BY <3>1, <4>1, <4>2 DEF Works
      <4>4. CountsAgree(jobs'[j], started'[j])
        BY <1>1, <3>1, <4>1, <4>2, RunningFacts, FailedTyped DEF CountsAgree, Job
      <4> QED BY <1>1, <3>1, <4>1, <4>2, <4>3, <4>4, RunningFacts DEF Counted
    <3>7. CASE TimeOut(j)
      <4>1. Running(j) /\ ~Running(j)'
        BY <1>1, <3>7, RunningFacts DEF TimeOut, Release, Running, TypeOK
      <4>2. /\ jobs'[j] = Failed(jobs[j]) /\ effects' = effects
            /\ lingering'[j] = lingering[j] + 1 /\ started' = started /\ used' = used
        BY <1>1, <3>7 DEF TimeOut, TypeOK
      <4>3. Works(j)' <= started'[j]
        BY <3>1, <4>1, <4>2 DEF Works
      <4>4. CountsAgree(jobs'[j], started'[j])
        BY <1>1, <3>1, <4>1, <4>2, RunningFacts, FailedTyped DEF CountsAgree, Job
      <4> QED BY <1>1, <3>1, <4>1, <4>2, <4>3, <4>4, RunningFacts DEF Counted
    <3>8. CASE LingeringEnds(j)
      <4>1. /\ effects'[j] = effects[j] + 1 /\ lingering'[j] = lingering[j] - 1
            /\ jobs' = jobs /\ started' = started /\ used' = used /\ running' = running
        BY <1>1, <3>8 DEF LingeringEnds, TypeOK
      <4>2. Works(j)' = Works(j)
        BY <3>1, <4>1 DEF Works, Running
      <4> QED BY <1>1, <4>1, <4>2 DEF Counted, Present
    <3>9. CASE Stalled(j)
      <4>1. jobs'[j] = CutOff(jobs[j]) /\ jobs[j].state = "active" /\ Present(j)
        BY <1>1, <3>9 DEF Stalled, TypeOK
      <4>2. Works(j)' = Works(j) /\ started' = started /\ used' = used
        BY <3>9 DEF Stalled, Works, Running
      <4>3. CountsAgree(jobs'[j], started[j])
        BY <3>1, <4>1, CutOffTyped DEF CountsAgree, Job
      <4> QED BY <1>1, <4>1, <4>2, <4>3 DEF Counted
    <3> QED BY <1>3, <3>2, <3>3, <3>4, <3>5, <3>6, <3>7, <3>8, <3>9 DEF JobStep
  <2> QED BY <1>1, <2>1, <2>2 DEF RunsInv
<1>4. CASE Restart
  <2>1. ASSUME NEW k \in Jobs PROVE Counted(k)'
    <3>1. /\ jobs' = jobs /\ started' = started /\ effects' = effects /\ used' = used
          /\ lingering'[k] = 0 /\ ~Running(k)'
      BY <1>4 DEF Restart, Running
    <3>2. Works(k)' <= Works(k)
      BY <1>1, <3>1 DEF Works, TypeOK
    <3>3. Works(k)' \in Nat /\ Works(k) \in Nat /\ started[k] \in Nat
      BY <1>1, <3>1 DEF Works, TypeOK
    <3> QED BY <1>1, <3>1, <3>2, <3>3 DEF Counted, Present
  <2> QED BY <1>1, <2>1 DEF RunsInv
<1>5. CASE UNCHANGED vars
  BY <1>1, <1>5 DEF RunsInv, vars, Counted, Works, Running, Present
<1> QED BY <1>2, <1>3, <1>4, <1>5, StepCases

\* A job is run no more often than its attempts and the restarts Bull allows it, and
\* no run does its work twice, for any number of jobs, attempts and restarts
\* (addJob's attempts and timeout; Bull's stalled jobs).
THEOREM RunsCorrect == Spec => []RunsBounded
<1>1. Init => RunsInv
  <2> SUFFICES ASSUME Init PROVE RunsInv
    OBVIOUS
  <2>1. TypeOK
    BY NoJobAssumption DEF Init, TypeOK, Present
  <2>2. \A j \in Jobs : Counted(j)
    BY NoJobAssumption DEF Init, Counted, Works, Running, Present
  <2> QED BY <2>1, <2>2 DEF RunsInv
<1>2. RunsInv => RunsBounded
  BY DEF RunsInv, RunsBounded, Counted, CountsAgree, Works
<1> QED BY <1>1, <1>2, RunsInductive, PTL DEF Spec

-----------------------------------------------------------------------------
(* What is told of a job, and what was done *)

\* Only a job that is disturbed has runs that were given up, so that the others
\* are worked on by their processor alone, which ends the job with its work.
Told(j) ==
  j \notin disturbed =>
    /\ lingering[j] = 0
    /\ Present(j) => effects[j] = IF jobs[j].state = "completed" THEN 1 ELSE 0

ToldInv == RunsInv /\ \A j \in Jobs : Told(j)

LEMMA ToldKept ==
  ASSUME NEW j \in Jobs, Told(j), disturbed \subseteq disturbed',
         jobs'[j] = jobs[j], effects'[j] = effects[j], lingering'[j] = lingering[j]
  PROVE  Told(j)'
BY DEF Told, Present

LEMMA ToldInductive == ToldInv /\ [Next]_vars => ToldInv'
<1> SUFFICES ASSUME ToldInv, [Next]_vars PROVE ToldInv'
  OBVIOUS
<1>1. RunsInv' /\ TypeOK /\ \A k \in Jobs : Told(k) /\ Counted(k)
  BY RunsInductive DEF ToldInv, RunsInv
<1>2. CASE EnqueueStep
  <2>1. PICK j \in Jobs, priority \in Priorities, type \in Types, maxRetries \in Retries,
             state \in {"waiting", "delayed"} : Enqueue(j, priority, type, maxRetries, state)
    BY <1>2 DEF EnqueueStep
  <2>2. \A k \in Jobs : k # j => Told(k)'
    BY <1>1, <2>1, ToldKept DEF Enqueue, TypeOK
  <2>3. Told(j)'
    <3>1. effects[j] \in Nat /\ lingering[j] \in Nat /\ started[j] = 0 /\ Works(j) <= started[j]
      BY <1>1, <2>1 DEF Enqueue, Counted, TypeOK
    <3>2. effects[j] = 0 /\ lingering[j] = 0
      BY <3>1 DEF Works
    <3>3. jobs'[j] = [state |-> state, priority |-> priority, type |-> type,
                      attempts |-> Attempts(maxRetries), attemptsMade |-> 0, stalled |-> 0]
          /\ UNCHANGED <<effects, lingering>>
      BY <1>1, <2>1 DEF Enqueue, TypeOK
    <3> QED BY <3>2, <3>3 DEF Told
  <2> QED BY <1>1, <2>2, <2>3 DEF ToldInv
<1>3. ASSUME NEW j \in Jobs, JobStep(j) PROVE ToldInv'
  <2>1. \A k \in Jobs : k # j => Told(k)'
    <3>1. ASSUME NEW k \in Jobs, k # j
          PROVE  /\ jobs'[k] = jobs[k] /\ effects'[k] = effects[k]
                 /\ lingering'[k] = lingering[k] /\ disturbed \subseteq disturbed'
      BY <1>1, <1>3, <3>1
      DEF TypeOK, JobStep, CancelJob, Promote, HandleJob, ProcessJob, ProcessUnknownJob,
          TimeOut, LingeringEnds, Stalled
    <3> QED BY <1>1, <3>1, ToldKept
  <2>2. Told(j)'
    <3>1. /\ effects[j] \in Nat /\ lingering[j] \in Nat
          /\ Present(j) => jobs[j] \in Job
      BY <1>1 DEF TypeOK, Present
    <3>2. ASSUME NEW state, jobs[j].state # "completed", state # "completed", Present(j),
                 jobs'[j].state = state, UNCHANGED <<effects, lingering, disturbed>>
          PROVE  Told(j)'
      BY <1>1, <3>2 DEF Told
    <3>3. CASE CancelJob(j)
      BY <1>1, <3>3 DEF CancelJob, Told, Present, TypeOK
    <3>4. CASE Promote(j)
      <4>1. jobs'[j].state = "waiting"
        BY <1>1, <3>1, <3>4 DEF Promote, TypeOK, Job
      <4> QED BY <3>2, <3>4, <4>1 DEF Promote
    <3>5. CASE HandleJob(j)
      <4>1. jobs'[j].state = "active"
        BY <1>1, <3>1, <3>5 DEF HandleJob, TypeOK, Job
      <4> QED BY <3>2, <3>5, <4>1 DEF HandleJob
    <3>6. CASE ProcessJob(j)
      <4>1. Present(j) /\ jobs[j].state = "active" /\ jobs[j] \in Job
        BY <1>1, <3>6, RunningFacts DEF ProcessJob
      <4>2. jobs'[j].state = "completed" /\ effects'[j] = effects[j] + 1
            /\ UNCHANGED <<lingering, disturbed>>
        BY <1>1, <3>6, <4>1 DEF ProcessJob, TypeOK, Job
      <4> QED BY <1>1, <4>1, <4>2 DEF Told
    <3>7. CASE ProcessUnknownJob(j)
      <4>1. Present(j) /\ jobs[j].state = "active" /\ jobs[j] \in Job
        BY <1>1, <3>7, RunningFacts DEF ProcessUnknownJob
      <4>2. jobs'[j] = Failed(jobs[j])
        BY <1>1, <3>7 DEF ProcessUnknownJob, TypeOK
      <4>3. jobs'[j].state # "completed"
        BY <4>1, <4>2, FailedTyped
      <4> QED BY <3>2, <3>7, <4>1, <4>3 DEF ProcessUnknownJob
    <3>8. CASE TimeOut(j)
      BY <3>8 DEF TimeOut, Told
    <3>9. CASE LingeringEnds(j)
      <4>1. j \in disturbed
        BY <1>1, <3>1, <3>9 DEF LingeringEnds, Told
      <4> QED BY <3>9, <4>1 DEF LingeringEnds, Told
    <3>10. CASE Stalled(j)
      <4>1. Present(j) /\ jobs[j].state = "active" /\ jobs[j] \in Job
        BY <3>1, <3>10 DEF Stalled
      <4>2. jobs'[j] = CutOff(jobs[j])
        BY <1>1, <3>10 DEF Stalled, TypeOK
      <4>3. jobs'[j].state # "completed"
        BY <4>1, <4>2, CutOffTyped
      <4> QED BY <3>2, <3>10, <4>1, <4>3 DEF Stalled
    <3> QED BY <1>3, <3>3, <3>4, <3>5, <3>6, <3>7, <3>8, <3>9, <3>10 DEF JobStep
  <2> QED BY <1>1, <2>1, <2>2 DEF ToldInv
<1>4. CASE Restart
  BY <1>1, <1>4 DEF ToldInv, Restart, Told, Present
<1>5. CASE UNCHANGED vars
  BY <1>1, <1>5 DEF ToldInv, vars, Told, Present
<1> QED BY <1>2, <1>3, <1>4, <1>5, StepCases

LEMMA ToldInvariant == Spec => []ToldInv
<1>1. Init => ToldInv
  <2> SUFFICES ASSUME Init PROVE ToldInv
    OBVIOUS
  <2>1. RunsInv
    <3>1. TypeOK
      BY NoJobAssumption DEF Init, TypeOK, Present
    <3>2. \A j \in Jobs : Counted(j)
      BY NoJobAssumption DEF Init, Counted, Works, Running, Present
    <3> QED BY <3>1, <3>2 DEF RunsInv
  <2>2. \A j \in Jobs : Told(j)
    BY DEF Init, Told, Present
  <2> QED BY <2>1, <2>2 DEF ToldInv
<1> QED BY <1>1, ToldInductive, PTL DEF Spec

\* The status told to clients is that of the work, of a job no run of which was
\* given up or cut off (getJobStatus).
THEOREM StatusCorrect == Spec => []StatusTellsEffects
<1>1. ToldInv => StatusTellsEffects
  <2> SUFFICES ASSUME ToldInv, NEW j \in Jobs \ disturbed, Present(j)
               PROVE  effects[j] = IF JobStatus(j) = "completed" THEN 1 ELSE 0
    BY DEF StatusTellsEffects
  <2>1. effects[j] = IF jobs[j].state = "completed" THEN 1 ELSE 0
    BY DEF ToldInv, Told
  <2>2. JobStatus(j) = "completed" <=> jobs[j].state = "completed"
    BY DEF JobStatus
  <2> QED BY <2>1, <2>2
<1> QED BY <1>1, ToldInvariant, PTL

\* A cancelled job is not started again, and unless a run of it was given up, no
\* work is done for it any more (cancelJob).
THEOREM CancelledStaysOut == Spec => CancelSticks
<1>1. ASSUME ToldInv, [Next]_vars, NEW j \in Jobs, j \in used, ~Present(j)
      PROVE  /\ ~Present(j)' /\ started'[j] = started[j]
             /\ j \notin disturbed => effects'[j] = effects[j]
  <2>1. TypeOK /\ Told(j) /\ ~Running(j)
    <3>1. TypeOK /\ Told(j)
      BY <1>1 DEF ToldInv, RunsInv
    <3> QED BY <1>1, <3>1, RunningFacts
  <2>2. CASE EnqueueStep
    BY <1>1, <2>1, <2>2 DEF EnqueueStep, Enqueue, TypeOK, Present
  <2>3. ASSUME NEW k \in Jobs, JobStep(k), k # j
        PROVE  jobs'[j] = jobs[j] /\ started'[j] = started[j] /\ effects'[j] = effects[j]
    BY <2>1, <2>3
    DEF TypeOK, JobStep, CancelJob, Promote, HandleJob, ProcessJob, ProcessUnknownJob,
        TimeOut, LingeringEnds, Stalled
  <2>4. CASE JobStep(j)
    <3>1. LingeringEnds(j)
      BY <1>1, <2>1, <2>4
      DEF JobStep, CancelJob, Promote, HandleJob, ProcessJob, ProcessUnknownJob, TimeOut, Stalled
    <3>2. j \in disturbed
      BY <2>1, <3>1 DEF LingeringEnds, Told
    <3> QED BY <1>1, <3>1, <3>2 DEF LingeringEnds, Present
  <2>5. CASE Restart \/ UNCHANGED vars
    BY <1>1, <2>5 DEF Restart, vars, Present
  <2> QED BY <1>1, <2>2, <2>3, <2>4, <2>5, StepCases DEF Present
<1>2. ToldInv /\ [Next]_vars =>
        [\A j \in Jobs : j \in used /\ ~Present(j) =>
           /\ ~Present(j)' /\ started'[j] = started[j]
           /\ j \notin disturbed => effects'[j] = effects[j]]_vars
  BY <1>1
<1> QED BY <1>2, ToldInvariant, PTL DEF Spec, CancelSticks
=============================================================================
