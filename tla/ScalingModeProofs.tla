-------------------------- MODULE ScalingModeProofs --------------------------
(***************************************************************************)
(* In scaling mode two workers have the same execution only if a lock ran  *)
(* out under a live worker, and an error that the main process reports     *)
(* late replaces a success only then, or when the start failed after the   *)
(* job was queued: for any number of executions, workers, stalls, faults.  *)
(***************************************************************************)
EXTENDS ScalingMode, TLAPS

\* A worker processes only a job that it has locked, that a stop took from it, or whose
\* lock ran out under it.
WorkIsLocked ==
    \A w \in Workers, e \in Executions \ expired :
        work[w][e] # "idle" =>
            \/ jobState[e] = "active" /\ holder[e] = w
            \/ jobState[e] = "canceled"

\* Two workers process the same execution only if its lock ran out under a live worker.
OneWorker ==
    \A v \in Workers, w \in Workers, e \in Executions :
        work[v][e] # "idle" /\ work[w][e] # "idle" => v = w \/ e \in expired

\* A job that stalled too often does not return to the queue.
StallsAreBounded ==
    \A e \in Executions : jobState[e] # "stalled" => stalls[e] <= maxStalledCount

\* While a worker runs an execution, nobody has saved a success of it, unless a second
\* worker did: each processing starts with setRunning.
UnderWay ==
    \A w \in Workers, e \in Executions \ expired :
        work[w][e] \in {"starting", "running", "aborted"} => row[e] # "success"

\* Before its job is added an execution cannot have succeeded, and while the main
\* process handles a failed job the job has left the queue and no worker has it, unless
\* one lost the lock and went on.  Of a start that failed nothing is known: the job may
\* be in the queue.
MainKnows ==
    \A e \in Executions :
        /\ pc[e] \in {"idle", "created", "adding"} =>
              jobState[e] = None /\ row[e] # "success" /\ e \notin expired
        /\ pc[e] = "failing" => jobState[e] \in {"failed", "stalled"}
        /\ pc[e] = "saving" =>
              /\ jobState[e] \in {"failed", "stalled"}
              /\ e \in expired \/ row[e] # "success"

\* The inductive invariant.
ScalingInv ==
    /\ ScalingTypeOK
    /\ WorkIsLocked /\ OneWorker /\ StallsAreBounded
    /\ UnderWay /\ MainKnows

-----------------------------------------------------------------------------
\* It holds when the processes have started.
LEMMA InitInv == ScalingInit => ScalingInv
  BY ScalingAssumption
     DEF ScalingInit, ScalingInv, ScalingTypeOK, WorkIsLocked, OneWorker, StallsAreBounded,
         UnderWay, MainKnows, Statuses, JobStates, NoRecovery, None

\* A job that leaves the queue loses its lock.
LEMMA Unlock ==
  ASSUME ScalingTypeOK, NEW e \in Executions, NEW how \in JobStates \ {"active"},
         jobState' = [jobState EXCEPT ![e] = how], holder' = [holder EXCEPT ![e] = None]
  PROVE  /\ jobState' \in [Executions -> JobStates]
         /\ holder' \in [Executions -> Workers \cup {None}]
         /\ \A f \in Executions : jobState'[f] = "active" <=> holder'[f] # None
  BY DEF ScalingTypeOK

\* Steps of the main process with an execution.
LEMMA MainInv ==
  ASSUME ScalingInv, NEW e \in Executions, Create(e) \/ MainStep(e)
  PROVE  ScalingInv'
<1> USE ScalingAssumption
    DEF ScalingInv, ScalingTypeOK, WorkIsLocked, OneWorker, StallsAreBounded, UnderWay,
        MainKnows, Statuses, JobStates, rowVars, queueVars, mainVars, stopVars, workerVars,
        NoRecovery, None
<1>1. CASE Create(e)
  BY <1>1 DEF Create, goto
<1>2. CASE Register(e)
  BY <1>2 DEF Register, goto
<1>3. CASE CheckFails(e)
  BY <1>3 DEF CheckFails, goto, dropEntry
<1>4. CASE AddJob(e)
  BY <1>4 DEF AddJob, goto
<1>5. CASE AddJobFails(e)
  BY <1>5 DEF AddJobFails, goto
<1>6. CASE BeforeHookFails(e)
  BY <1>6 DEF BeforeHookFails, goto, fault
<1>7. CASE AttachWorkflowExecution(e)
  BY <1>7 DEF AttachWorkflowExecution, goto
<1>8. CASE JobFinished(e)
  BY <1>8 DEF JobFinished, goto, dropEntry
<1>9. CASE JobFailed(e)
  BY <1>9 DEF JobFailed, goto
<1>10. CASE processError(e)
  <2>1. CASE pc[e] = "failing"
    BY <1>10, <2>1 DEF processError, goto, dropEntry
  <2>2. CASE pc[e] = "startFailed" /\ row[e] = "success"
    BY <1>10, <2>2 DEF processError, goto
  <2>3. CASE pc[e] = "startFailed" /\ row[e] # "success"
    BY <1>10, <2>3 DEF processError, goto, dropEntry
  <2> QED  BY <1>10, <2>1, <2>2, <2>3 DEF processError, goto
<1>11. CASE SaveError(e)
  <2>1. PICK to \in {"done", "thrown"} : pc' = [pc EXCEPT ![e] = to]
    BY <1>11 DEF SaveError, goto
  <2>2. ScalingTypeOK'
    BY <1>11, <2>1 DEF SaveError
  <2>3. WorkIsLocked' /\ OneWorker' /\ StallsAreBounded'
    BY <1>11 DEF SaveError
  <2>4. UnderWay'
    BY <1>11 DEF SaveError
  <2>5. MainKnows'
    BY <1>11, <2>1 DEF SaveError
  <2> QED  BY <2>2, <2>3, <2>4, <2>5
<1> QED  BY <1>1, <1>2, <1>3, <1>4, <1>5, <1>6, <1>7, <1>8, <1>9, <1>10, <1>11 DEF MainStep

\* Steps of a stop, of the stalled check, and a lock that runs out.
LEMMA StopInv ==
  ASSUME ScalingInv, NEW e \in Executions,
         StopRead(e) \/ StopStep(e) \/ StalledCheck(e) \/ LockExpires(e)
  PROVE  ScalingInv'
<1> USE ScalingAssumption
    DEF ScalingInv, ScalingTypeOK, WorkIsLocked, OneWorker, StallsAreBounded, UnderWay,
        MainKnows, Statuses, JobStates, rowVars, queueVars, mainVars, stopVars, workerVars,
        NoRecovery, None
<1>1. CASE StopRead(e)
  BY <1>1 DEF StopRead
<1>2. CASE StopExecution(e)
  BY <1>2 DEF StopExecution, dropEntry
<1>3. CASE StopDuringRun(e)
  BY <1>3 DEF StopDuringRun
<1>4. CASE StopJob(e)
  BY <1>4 DEF StopJob, gotoCancel
<1>5. CASE StopJobAbort(e)
  BY <1>5 DEF StopJobAbort, gotoCancel
<1>6. CASE StopJobFail(e)
  <2>1. CASE jobState[e] = "active"
    <3>1. /\ jobState' = [jobState EXCEPT ![e] = "canceled"]
          /\ holder' = [holder EXCEPT ![e] = None]
      BY <1>6, <2>1 DEF StopJobFail
    <3>2. ScalingTypeOK'
      BY <1>6, <2>1, <3>1, Unlock DEF StopJobFail, gotoCancel
    <3>3. WorkIsLocked' /\ OneWorker' /\ StallsAreBounded' /\ UnderWay' /\ MainKnows'
      BY <1>6, <2>1, <3>1 DEF StopJobFail, gotoCancel
    <3> QED  BY <3>2, <3>3
  <2>2. CASE ~(jobState[e] = "active")
    BY <1>6, <2>2 DEF StopJobFail, gotoCancel
  <2> QED  BY <2>1, <2>2
<1>7. CASE StopJobRemove(e)
  BY <1>7 DEF StopJobRemove, gotoCancel
<1>8. CASE StalledCheck(e)
  BY <1>8 DEF StalledCheck, stalled
<1>9. CASE LockExpires(e)
  BY <1>9 DEF LockExpires, stalled, fault
<1> QED  BY <1>1, <1>2, <1>3, <1>4, <1>5, <1>6, <1>7, <1>8, <1>9 DEF StopStep

\* Steps of a worker with a job.
LEMMA WorkInv ==
  ASSUME ScalingInv, NEW w \in Workers, NEW e \in Executions,
         Pickup(w, e) \/ ProcessJob(w, e) \/ AbortJob(w, e)
  PROVE  ScalingInv'
<1> USE ScalingAssumption
    DEF ScalingInv, ScalingTypeOK, WorkIsLocked, OneWorker, StallsAreBounded, UnderWay,
        MainKnows, Statuses, JobStates, rowVars, queueVars, mainVars, stopVars, workerVars,
        NoRecovery, None
<1>1. CASE Pickup(w, e)
  BY <1>1 DEF Pickup, gotoWork
<1>2. CASE FindExecution(w, e)
  BY <1>2 DEF FindExecution, gotoWork
<1>3. CASE SetRunning(w, e)
  BY <1>3 DEF SetRunning, gotoWork
<1>4. CASE StartEngine(w, e)
  BY <1>4 DEF StartEngine, gotoWork
<1>5. CASE ReportJobProcessingError(w, e)
  <2>1. CASE jobState[e] = "active" /\ holder[e] = w
    <3>1. /\ jobState' = [jobState EXCEPT ![e] = "failed"]
          /\ holder' = [holder EXCEPT ![e] = None]
      BY <1>5, <2>1 DEF ReportJobProcessingError, leaveQueue
    <3>2. ScalingTypeOK'
      BY <1>5, <2>1, <3>1, Unlock DEF ReportJobProcessingError, leaveQueue
    <3>3. WorkIsLocked' /\ OneWorker' /\ StallsAreBounded' /\ UnderWay' /\ MainKnows'
      BY <1>5, <2>1, <3>1 DEF ReportJobProcessingError, leaveQueue
    <3> QED  BY <3>2, <3>3
  <2>2. CASE ~(jobState[e] = "active" /\ holder[e] = w)
    BY <1>5, <2>2 DEF ReportJobProcessingError, leaveQueue
  <2> QED  BY <2>1, <2>2
<1>6. CASE SaveResult(w, e)
  <2>1. PICK status \in {"success", "error"} : row' = [row EXCEPT ![e] = status]
    BY <1>6 DEF SaveResult
  <2>2. /\ work[w][e] = "running" /\ work' = [work EXCEPT ![w][e] = "processed"]
        /\ UNCHANGED <<jobState, holder, stalls, pc, expired>>
    BY <1>6 DEF SaveResult, gotoWork
  <2>3. ScalingTypeOK'
    BY <1>6, <2>1, <2>2 DEF SaveResult
  <2>4. WorkIsLocked' /\ OneWorker' /\ StallsAreBounded'
    BY <2>2
  <2>5. UnderWay'
    BY <2>1, <2>2
  <2>6. MainKnows'
    BY <2>1, <2>2
  <2> QED  BY <2>3, <2>4, <2>5, <2>6
<1>7. CASE SaveCanceled(w, e)
  BY <1>7 DEF SaveCanceled, gotoWork
<1>8. CASE JobProcessed(w, e)
  <2>1. CASE jobState[e] = "active" /\ holder[e] = w
    <3>1. /\ jobState' = [jobState EXCEPT ![e] = "completed"]
          /\ holder' = [holder EXCEPT ![e] = None]
      BY <1>8, <2>1 DEF JobProcessed, leaveQueue
    <3>2. ScalingTypeOK'
      BY <1>8, <2>1, <3>1, Unlock DEF JobProcessed, gotoWork, leaveQueue
    <3>3. WorkIsLocked' /\ OneWorker' /\ StallsAreBounded' /\ UnderWay' /\ MainKnows'
      BY <1>8, <2>1, <3>1 DEF JobProcessed, gotoWork, leaveQueue
    <3> QED  BY <3>2, <3>3
  <2>2. CASE ~(jobState[e] = "active" /\ holder[e] = w)
    BY <1>8, <2>2 DEF JobProcessed, gotoWork, leaveQueue
  <2> QED  BY <2>1, <2>2
<1>9. CASE AbortJob(w, e)
  BY <1>9 DEF AbortJob
<1> QED  BY <1>1, <1>2, <1>3, <1>4, <1>5, <1>6, <1>7, <1>8, <1>9 DEF ProcessJob

\* Crashes, shutdown and restart of a worker.
LEMMA WorkerInv ==
  ASSUME ScalingInv, NEW w \in Workers,
         WorkerCrash(w) \/ StopWorker(w) \/ WorkerExit(w) \/ WorkerStart(w)
  PROVE  ScalingInv'
<1> USE ScalingAssumption
    DEF ScalingInv, ScalingTypeOK, WorkIsLocked, OneWorker, StallsAreBounded, UnderWay,
        MainKnows, Statuses, JobStates, rowVars, queueVars, mainVars, stopVars, workerVars,
        NoRecovery, None
<1>1. CASE WorkerCrash(w)
  BY <1>1 DEF WorkerCrash, fault, workerEnds
<1>2. CASE StopWorker(w)
  BY <1>2 DEF StopWorker, fault
<1>3. CASE WorkerExit(w)
  BY <1>3 DEF WorkerExit, workerEnds
<1>4. CASE WorkerStart(w)
  BY <1>4 DEF WorkerStart
<1> QED  BY <1>1, <1>2, <1>3, <1>4

\* Crash and restart of the main process, and its recovery of executions.
LEMMA RecoveryInv ==
  ASSUME ScalingInv, MainCrash \/ MainStart \/ RecoverStored \/ RecoverQueued \/ MarkAsCrashed
  PROVE  ScalingInv'
<1> USE ScalingAssumption
    DEF ScalingInv, ScalingTypeOK, WorkIsLocked, OneWorker, StallsAreBounded, UnderWay,
        MainKnows, Statuses, JobStates, rowVars, queueVars, mainVars, stopVars, workerVars,
        NoRecovery, None
<1>1. CASE MainCrash
  <2>1. /\ pc' \in [Executions -> {"idle", "created", "adding", "added", "awaiting", "failing",
                                   "saving", "done", "startFailed", "startSaving", "thrown",
                                   "lost"}]
        /\ stopPc' \in [Executions -> {"idle", "stopping", "writing", "done"}]
    BY <1>1 DEF MainCrash
  <2>2. ScalingTypeOK'
    <3>1. /\ row' \in [Executions -> Statuses]
          /\ jobState' \in [Executions -> JobStates]
          /\ holder' \in [Executions -> Workers \cup {None}]
          /\ \A e \in Executions : jobState'[e] = "active" <=> holder'[e] # None
          /\ stalls' \in [Executions -> 0..(maxStalledCount + 1)]
      BY <1>1 DEF MainCrash
    <3>2. mainUp' \in BOOLEAN
      BY <1>1 DEF MainCrash
    <3>3. /\ attached' \subseteq activeExecutions' /\ activeExecutions' \subseteq Executions
          /\ cancelPc' \in [Executions -> {"idle", "check", "abort", "fail", "remove"}]
          /\ recovery' \in [pc: {"idle", "stored", "mark"}, ids: SUBSET Executions]
      BY <1>1 DEF MainCrash
    <3>4. faults' \in 0..MaxFaults
      BY <1>1 DEF MainCrash, fault
    <3> QED  BY <1>1, <2>1, <3>1, <3>2, <3>3, <3>4 DEF MainCrash
  <2>3. WorkIsLocked' /\ OneWorker' /\ StallsAreBounded' /\ UnderWay' /\ MainKnows'
    BY <1>1 DEF MainCrash
  <2> QED  BY <2>2, <2>3
<1>2. CASE MainStart
  BY <1>2 DEF MainStart
<1>3. CASE RecoverStored
  BY <1>3 DEF RecoverStored
<1>4. CASE RecoverQueued
  BY <1>4 DEF RecoverQueued
<1>5. CASE MarkAsCrashed
  BY <1>5 DEF MarkAsCrashed
<1> QED  BY <1>1, <1>2, <1>3, <1>4, <1>5

\* Every step keeps the invariant.
LEMMA NextInv == ScalingInv /\ [ScalingNext]_vars => ScalingInv'
<1> SUFFICES ASSUME ScalingInv, [ScalingNext]_vars
             PROVE  ScalingInv'
  OBVIOUS
<1>1. CASE UNCHANGED vars
  BY <1>1 DEF ScalingInv, ScalingTypeOK, WorkIsLocked, OneWorker, StallsAreBounded, UnderWay,
              MainKnows, vars, rowVars, queueVars, mainVars, stopVars, workerVars
<1>2. CASE ScalingNext
  BY <1>2, MainInv, StopInv, WorkInv, WorkerInv, RecoveryInv DEF ScalingNext
<1> QED  BY <1>1, <1>2

\* The inductive invariant holds in every state of scaling mode, for any number of
\* executions and workers, any concurrency, stalled count and number of faults.
THEOREM ScalingInvariant == ScalingSpec => []ScalingInv
  BY InitInv, NextInv, PTL DEF ScalingSpec

\* A job is locked exactly while it is active, Bull's count of stalls is bounded, and an
\* execution is attached only while it has an entry.
THEOREM ScalingTypeHolds == ScalingSpec => []ScalingTypeOK
<1>1. ScalingInv => ScalingTypeOK
  BY DEF ScalingInv
<1> QED  BY <1>1, ScalingInvariant, PTL

\* An execution is processed by two workers at once only if its lock ran out under a
\* live worker: not after another stall, a stop, a start that failed or the loss of a
\* worker.
THEOREM OneWorkerHolds == ScalingSpec => []OneWorker
<1>1. ScalingInv => OneWorker
  BY DEF ScalingInv
<1> QED  BY <1>1, ScalingInvariant, PTL

-----------------------------------------------------------------------------
\* An error that the main process or a worker writes meets a success only in the two
\* cases: the steps that write one are those of CheckFails, SaveError and SaveResult.
LEMMA ErrorNotOverSuccess ==
  ASSUME ScalingInv, [ScalingNext]_vars, NEW e \in Executions, row[e] = "success",
         e \notin expired, pc[e] # "startSaving"
  PROVE  row'[e] # "error"
<1> USE DEF ScalingInv, ScalingTypeOK, WorkIsLocked, OneWorker, UnderWay, MainKnows, rowVars
<1>1. CASE UNCHANGED vars
  BY <1>1 DEF vars
<1>2. ASSUME NEW f \in Executions,
             \/ Create(f) \/ MainStep(f) \/ StopRead(f) \/ StopStep(f)
             \/ StalledCheck(f) \/ LockExpires(f)
      PROVE  row'[e] # "error"
  <2>1. CASE CheckFails(f) \/ SaveError(f)
    BY <2>1 DEF CheckFails, SaveError, goto
  <2>2. CASE Create(f) \/ StopDuringRun(f)
    BY <2>2 DEF Create, StopDuringRun
  <2>3. CASE UNCHANGED row
    BY <2>3
  <2> QED  BY <1>2, <2>1, <2>2, <2>3
           DEF MainStep, Register, AddJob, AddJobFails, BeforeHookFails,
               AttachWorkflowExecution, JobFinished, JobFailed, processError, StopRead,
               StopStep, StopExecution, StopJob, StopJobAbort, StopJobFail, StopJobRemove,
               StalledCheck, LockExpires, stalled
<1>3. ASSUME NEW w \in Workers, NEW f \in Executions,
             Pickup(w, f) \/ ProcessJob(w, f) \/ AbortJob(w, f)
      PROVE  row'[e] # "error"
  <2>1. CASE SaveResult(w, f)
    BY <2>1 DEF SaveResult, gotoWork
  <2>2. CASE SetRunning(w, f) \/ SaveCanceled(w, f)
    BY <2>2 DEF SetRunning, SaveCanceled
  <2>3. CASE UNCHANGED row
    BY <2>3
  <2> QED  BY <1>3, <2>1, <2>2, <2>3
           DEF Pickup, ProcessJob, FindExecution, StartEngine, ReportJobProcessingError,
               JobProcessed, AbortJob
<1>4. CASE \E w \in Workers : WorkerCrash(w) \/ StopWorker(w) \/ WorkerExit(w) \/ WorkerStart(w)
  BY <1>4 DEF WorkerCrash, StopWorker, WorkerExit, WorkerStart
<1>5. CASE MainCrash \/ MainStart \/ RecoverStored \/ RecoverQueued \/ MarkAsCrashed
  BY <1>5 DEF MainCrash, MainStart, RecoverStored, RecoverQueued, MarkAsCrashed
<1> QED  BY <1>1, <1>2, <1>3, <1>4, <1>5 DEF ScalingNext

\* A success stands although the job of the execution is reported as failed or stalled
\* ("false positive, execution was successful", WorkflowRunner.processError), unless a
\* worker lost the lock and went on, or the start failed after the job was queued.
THEOREM SuccessStandsHolds == ScalingSpec => SuccessStands
<1>1. ScalingInv /\ [ScalingNext]_vars
        => [\A e \in Executions : row[e] = "success" /\ row'[e] = "error"
                                     => e \in expired \/ pc[e] = "startSaving"]_vars
  BY ErrorNotOverSuccess
<1> QED  BY <1>1, ScalingInvariant, PTL DEF ScalingSpec, SuccessStands


-----------------------------------------------------------------------------
(* Every step of scaling mode is a step of JobLease, or leaves it alone.   *)

\* The lease of an execution changes only with its job and with who works on it.
LEMMA LeaseUnchanged ==
  ASSUME UNCHANGED <<jobState, stalls, expired>>,
         \A w \in Workers, e \in Executions : work'[w][e] = "idle" <=> work[w][e] = "idle"
  PROVE  UNCHANGED Lease!leaseVars
<1>1. \A e \in Executions :
         {w \in Workers : work'[w][e] # "idle"} = {w \in Workers : work[w][e] # "idle"}
  OBVIOUS
<1> QED  BY <1>1 DEF Lease!leaseVars, busyWorkers, timesTaken, mayBeTaken

\* A stop that closes a job, or a stall too many, closes the lease; a stalled job that
\* goes back to the queue is one take, counted as a stall from now on.
LEMMA CloseStep ==
  ASSUME ScalingInv, NEW e \in Executions,
         StopJobFail(e) \/ StopJobRemove(e) \/ StalledCheck(e)
  PROVE  Lease!Close(e) \/ UNCHANGED Lease!leaseVars
<1> USE DEF ScalingInv, ScalingTypeOK, JobStates, workerVars, None
<1>1. busyWorkers' = busyWorkers
  BY DEF StopJobFail, StopJobRemove, StalledCheck, stalled, busyWorkers
<1>2. timesTaken' = timesTaken
  BY ScalingAssumption DEF StopJobFail, StopJobRemove, StalledCheck, stalled, timesTaken
<1>3. mayBeTaken' = mayBeTaken \/ (e \in mayBeTaken /\ mayBeTaken' = mayBeTaken \ {e})
  BY DEF StopJobFail, StopJobRemove, StalledCheck, stalled, mayBeTaken
<1>4. expired' = expired
  BY DEF StopJobFail, StopJobRemove, StalledCheck
<1> QED  BY <1>1, <1>2, <1>3, <1>4 DEF Lease!Close, Lease!leaseVars

\* A lock that runs out under a live worker is a lease that expires.
LEMMA ExpireStep ==
  ASSUME ScalingInv, NEW e \in Executions, LockExpires(e)
  PROVE  Lease!Expire(e)
<1> USE DEF ScalingInv, ScalingTypeOK, JobStates, workerVars, None
<1>1. busyWorkers' = busyWorkers
  BY DEF LockExpires, stalled, busyWorkers
<1>2. timesTaken' = timesTaken
  BY ScalingAssumption DEF LockExpires, stalled, timesTaken
<1>3. e \in mayBeTaken /\ mayBeTaken' \in {mayBeTaken, mayBeTaken \ {e}}
  BY DEF LockExpires, stalled, mayBeTaken
<1>4. busyWorkers[e] # {}
  <2>1. holder[e] \in Workers /\ work[holder[e]][e] # "idle"
    BY DEF LockExpires, stalled
  <2> QED  BY <2>1 DEF busyWorkers
<1> QED  BY <1>1, <1>2, <1>3, <1>4 DEF Lease!Expire, LockExpires

\* A worker that gets a job takes the lease, which is not used up and which nobody has
\* unless it expired.
LEMMA TakeStep ==
  ASSUME ScalingInv, NEW w \in Workers, NEW e \in Executions, Pickup(w, e)
  PROVE  Lease!Take(e, w)
<1> USE DEF ScalingInv, ScalingTypeOK
<1>1. busyWorkers[e] = {} \/ e \in expired
  BY DEF Pickup, WorkIsLocked, busyWorkers
<1>2. busyWorkers' = [busyWorkers EXCEPT ![e] = @ \cup {w}]
  <2>1. \A f \in Executions : f # e => busyWorkers'[f] = busyWorkers[f]
    BY DEF Pickup, gotoWork, busyWorkers
  <2>2. busyWorkers'[e] = busyWorkers[e] \cup {w}
    BY DEF Pickup, gotoWork, busyWorkers
  <2> QED  BY <2>1, <2>2 DEF busyWorkers
<1>3. e \in mayBeTaken /\ mayBeTaken' = mayBeTaken
  BY DEF Pickup, mayBeTaken
<1>4. timesTaken[e] < maxStalledCount + 1
  BY ScalingAssumption DEF Pickup, StallsAreBounded, timesTaken
<1>5. timesTaken' = [timesTaken EXCEPT ![e] = @ + 1]
  <2>1. \A f \in Executions : f # e => timesTaken'[f] = timesTaken[f]
    BY DEF Pickup, timesTaken
  <2>2. timesTaken'[e] = timesTaken[e] + 1
    BY ScalingAssumption DEF Pickup, timesTaken
  <2> QED  BY <2>1, <2>2 DEF timesTaken
<1>6. expired' = expired
  BY DEF Pickup
<1> QED  BY <1>1, <1>2, <1>3, <1>4, <1>5, <1>6 DEF Lease!Take

\* A worker that is through with a job gives the lease up, and closes it if a stop has
\* not and the lease is still its own.
LEMMA FinishStep ==
  ASSUME ScalingInv, NEW w \in Workers, NEW e \in Executions,
         ReportJobProcessingError(w, e) \/ JobProcessed(w, e)
  PROVE  Lease!Finish(e, w)
<1> USE DEF ScalingInv, ScalingTypeOK
<1>1. /\ work[w][e] # "idle"
      /\ work' = [work EXCEPT ![w][e] = "idle"]
      /\ leaveQueue(w, e, "failed") \/ leaveQueue(w, e, "completed")
  BY DEF ReportJobProcessingError, JobProcessed, gotoWork
<1>2. (jobState[e] = "active" /\ holder[e] = w) \/ jobState[e] = "canceled" \/ e \in expired
  BY <1>1 DEF WorkIsLocked
<1>3. busyWorkers' = [busyWorkers EXCEPT ![e] = @ \ {w}]
  <2>1. \A f \in Executions : f # e => busyWorkers'[f] = busyWorkers[f]
    BY <1>1 DEF busyWorkers
  <2>2. busyWorkers'[e] = busyWorkers[e] \ {w}
    BY <1>1 DEF busyWorkers
  <2> QED  BY <2>1, <2>2 DEF busyWorkers
<1>4. timesTaken' = timesTaken
  BY <1>1 DEF leaveQueue, queueVars, timesTaken
<1>5. mayBeTaken' = mayBeTaken \ {e} \/ (e \in expired /\ mayBeTaken' = mayBeTaken)
  BY <1>1, <1>2 DEF leaveQueue, queueVars, mayBeTaken, None
<1>6. w \in busyWorkers[e]
  BY <1>1 DEF busyWorkers
<1>7. expired' = expired
  BY DEF ReportJobProcessingError, JobProcessed
<1> QED  BY <1>3, <1>4, <1>5, <1>6, <1>7 DEF Lease!Finish

\* A worker that dies, or exits, loses everything it was processing.
LEMMA LoseStep ==
  ASSUME ScalingInv, NEW w \in Workers, WorkerCrash(w) \/ WorkerExit(w)
  PROVE  Lease!Lose(w)
<1> USE DEF ScalingInv, ScalingTypeOK, workerEnds, queueVars
<1>1. busyWorkers' = [e \in Executions |-> busyWorkers[e] \ {w}]
  <2>1. \A e \in Executions : busyWorkers'[e] = busyWorkers[e] \ {w}
    BY DEF WorkerCrash, WorkerExit, busyWorkers
  <2> QED  BY <2>1 DEF busyWorkers
<1>2. timesTaken' = timesTaken /\ mayBeTaken' = mayBeTaken
  BY DEF WorkerCrash, WorkerExit, timesTaken, mayBeTaken
<1>3. expired' = expired
  BY DEF WorkerCrash, WorkerExit
<1> QED  BY <1>1, <1>2, <1>3 DEF Lease!Lose

\* The other steps leave job and workers alone, or are steps inside processJob.
LEMMA OtherSteps ==
  ASSUME ScalingInv, [ScalingNext]_vars,
         ~\E e \in Executions :
            \/ StopJobFail(e) \/ StopJobRemove(e) \/ StalledCheck(e) \/ LockExpires(e)
            \/ \E w \in Workers :
                  Pickup(w, e) \/ ReportJobProcessingError(w, e) \/ JobProcessed(w, e),
         ~\E w \in Workers : WorkerCrash(w) \/ WorkerExit(w)
  PROVE  UNCHANGED Lease!leaseVars
<1> USE DEF ScalingInv, ScalingTypeOK, queueVars, workerVars
<1>1. CASE UNCHANGED <<jobState, stalls, work, expired>>
  BY <1>1, LeaseUnchanged
<1>2. ASSUME NEW e \in Executions, AddJob(e)
      PROVE  UNCHANGED Lease!leaseVars
  <2>1. jobState[e] = None /\ jobState' = [jobState EXCEPT ![e] = "waiting"]
    BY <1>2 DEF AddJob, goto, MainKnows
  <2>2. busyWorkers' = busyWorkers
    BY <1>2 DEF AddJob, busyWorkers
  <2>3. timesTaken' = timesTaken
    BY <1>2, <2>1 DEF AddJob, timesTaken, None
  <2>4. mayBeTaken' = mayBeTaken
    BY <2>1 DEF mayBeTaken
  <2> QED  BY <1>2, <2>2, <2>3, <2>4 DEF Lease!leaseVars, AddJob
<1>3. ASSUME NEW w \in Workers, NEW e \in Executions,
             \/ FindExecution(w, e) \/ SetRunning(w, e) \/ StartEngine(w, e)
             \/ SaveResult(w, e) \/ SaveCanceled(w, e) \/ AbortJob(w, e)
      PROVE  UNCHANGED Lease!leaseVars
  <2>1. UNCHANGED <<jobState, stalls, expired>>
    BY <1>3
       DEF FindExecution, SetRunning, StartEngine, SaveResult, SaveCanceled, AbortJob
  <2>2. CASE AbortJob(w, e)
    BY <2>1, <2>2, LeaseUnchanged DEF AbortJob
  <2>3. CASE ~AbortJob(w, e)
    <3>1. PICK to : /\ work' = [work EXCEPT ![w][e] = to]
                    /\ to # "idle" /\ work[w][e] # "idle"
      BY <1>3, <2>3
         DEF FindExecution, SetRunning, StartEngine, SaveResult, SaveCanceled, gotoWork
    <3> QED  BY <2>1, <3>1, LeaseUnchanged
  <2> QED  BY <2>2, <2>3
<1>4. \/ UNCHANGED <<jobState, stalls, work, expired>>
      \/ \E e \in Executions : AddJob(e)
      \/ \E w \in Workers, e \in Executions :
            \/ FindExecution(w, e) \/ SetRunning(w, e) \/ StartEngine(w, e)
            \/ SaveResult(w, e) \/ SaveCanceled(w, e) \/ AbortJob(w, e)
  <2>1. CASE UNCHANGED vars
    BY <2>1 DEF vars
  <2>2. ASSUME NEW e \in Executions,
               \/ Create(e) \/ MainStep(e) \/ StopRead(e) \/ StopStep(e)
               \/ StalledCheck(e) \/ LockExpires(e)
        PROVE  UNCHANGED <<jobState, stalls, work, expired>> \/ AddJob(e)
    BY <2>2
       DEF Create, MainStep, Register, CheckFails, AddJobFails, BeforeHookFails,
           AttachWorkflowExecution,
           JobFinished, JobFailed, processError, SaveError, StopRead, StopStep, StopExecution,
           StopDuringRun, StopJob, StopJobAbort
  <2>3. CASE \E w \in Workers : StopWorker(w) \/ WorkerStart(w)
    BY <2>3 DEF StopWorker, WorkerStart
  <2>4. CASE MainCrash \/ MainStart \/ RecoverStored \/ RecoverQueued \/ MarkAsCrashed
    BY <2>4 DEF MainCrash, MainStart, RecoverStored, RecoverQueued, MarkAsCrashed
  <2> QED  BY <2>1, <2>2, <2>3, <2>4 DEF ScalingNext, ProcessJob
<1> QED  BY <1>1, <1>2, <1>3, <1>4

\* Scaling mode implements JobLease: an execution is taken at most maxStalledCount + 1
\* times, never again once its job is closed, and by a second worker only when the first
\* is through with it, lost, or was left behind by its lock.
THEOREM ScalingImplementsJobLease == ScalingSpec => ImplementsJobLease
<1>1. ScalingInit => Lease!LeaseInit
  <2> SUFFICES ASSUME ScalingInit PROVE Lease!LeaseInit
    OBVIOUS
  <2>1. busyWorkers = [e \in Executions |-> {}]
    <3>1. \A e \in Executions : {w \in Workers : work[w][e] # "idle"} = {}
      BY DEF ScalingInit
    <3> QED  BY <3>1 DEF busyWorkers
  <2>2. timesTaken = [e \in Executions |-> 0]
    BY DEF ScalingInit, timesTaken, None
  <2>3. mayBeTaken = Executions
    BY DEF ScalingInit, mayBeTaken
  <2> QED  BY <2>1, <2>2, <2>3 DEF Lease!LeaseInit, ScalingInit
<1>2. ScalingInv /\ [ScalingNext]_vars => [Lease!LeaseNext]_(Lease!leaseVars)
  BY CloseStep, ExpireStep, TakeStep, FinishStep, LoseStep, OtherSteps DEF Lease!LeaseNext
<1> QED  BY <1>1, <1>2, ScalingInvariant, PTL DEF ScalingSpec, ImplementsJobLease, Lease!LeaseSpec
=============================================================================
