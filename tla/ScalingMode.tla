----------------------------- MODULE ScalingMode -----------------------------
(***************************************************************************)
(* Scaling mode: a main process that puts executions into a Bull queue     *)
(* (WorkflowRunner.enqueueExecution), workers that process the jobs        *)
(* (ScalingService.setupWorker, JobProcessor), stopping an execution, and  *)
(* the recovery of executions that are no longer in the queue              *)
(* (ScalingService.recoverFromQueue).                                      *)
(*                                                                         *)
(* Bull itself is external: a job is waiting, active under a lock that the *)
(* worker renews, or gone (jobs are removed when they complete or fail).   *)
(* A lock runs out when its worker died, and also when a live worker fails *)
(* to renew it; the stalled check puts the job back, maxStalledCount       *)
(* times.  Every await of the code is a point where other handlers run, so *)
(* the code between two awaits is one action.                              *)
(***************************************************************************)
EXTENDS Naturals, FiniteSets

CONSTANTS
    Executions,
    Workers,
    concurrency,       \* jobs a worker processes at a time
    maxStalledCount,   \* Bull setting: how often a stalled job is processed again
    Stoppable,         \* executions that somebody stops
    MaxFaults          \* how many crashes, shutdowns, lost locks and failing hooks happen

None == "none"

ASSUME ScalingAssumption ==
    /\ None \notin Workers
    /\ concurrency \in Nat \ {0}
    /\ maxStalledCount \in Nat
    /\ Stoppable \subseteq Executions
    /\ MaxFaults \in Nat

VARIABLES
    row,              \* row[e]: the status in the database
    jobState,         \* jobState[e]: where the job of e is, or how it left the queue
    holder,           \* holder[e]: the worker that locked the job
    stalls,           \* stalls[e]: Bull's count of stalls
    mainUp,           \* whether the main process runs
    pc,               \* pc[e]: where WorkflowRunner.run is with e
    activeExecutions, \* entries of ActiveExecutions
    attached,         \* those with a workflowExecution attached
    stopPc,           \* stopPc[e]: where ExecutionService.stop is with e
    cancelPc,         \* cancelPc[e]: where the onCancel handler is with e
    workerState,      \* workerState[w]: up, stopping or down
    work,             \* work[w][e]: where JobProcessor.processJob is with e
    abortJob,         \* abort-job messages on their way: <<w, e>>
    recovery,         \* recoverFromQueue between its awaits
    expired,          \* history: executions whose lock ran out under a live worker
    faults            \* crashes, shutdowns, lost locks and failing hooks so far

rowVars    == <<row>>
queueVars  == <<jobState, holder, stalls>>
mainVars   == <<mainUp, pc, activeExecutions, attached>>
stopVars   == <<stopPc, cancelPc>>
workerVars == <<workerState, work, abortJob>>
vars == <<row, queueVars, mainVars, stopVars, workerVars, recovery, expired, faults>>

Statuses   == {None, "new", "running", "success", "error", "canceled", "crashed"}
InProgress == {"new", "running"}
Final      == {"success", "error", "canceled", "crashed"}

JobStates  == {None, "waiting", "active", "completed", "failed", "canceled", "stalled", "removed"}

\* The jobs findJobsByStatus(['active', 'waiting']) returns.
inQueue(e) == jobState[e] \in {"waiting", "active"}

\* runningJobs of a worker: set once the engine was started, deleted when it ended.
runningJobs(w) == {e \in Executions : work[w][e] = "running"}

NoRecovery == [pc |-> "idle", ids |-> {}]

ScalingInit ==
    /\ row = [e \in Executions |-> None]
    /\ jobState = [e \in Executions |-> None]
    /\ holder = [e \in Executions |-> None]
    /\ stalls = [e \in Executions |-> 0]
    /\ mainUp = TRUE
    /\ pc = [e \in Executions |-> "idle"]
    /\ activeExecutions = {}
    /\ attached = {}
    /\ stopPc = [e \in Executions |-> "idle"]
    /\ cancelPc = [e \in Executions |-> "idle"]
    /\ workerState = [w \in Workers |-> "up"]
    /\ work = [w \in Workers |-> [e \in Executions |-> "idle"]]
    /\ abortJob = {}
    /\ recovery = NoRecovery
    /\ expired = {}
    /\ faults = 0

-----------------------------------------------------------------------------
(* The main process: ActiveExecutions.add, run and enqueueExecution.       *)

fault == faults < MaxFaults /\ faults' = faults + 1

goto(e, from, to) == pc[e] = from /\ pc' = [pc EXCEPT ![e] = to]

\* finalizeExecution and the rejection of postExecutePromise both settle the
\* promise, whose .finally deletes the entry.
dropEntry(e) ==
    /\ activeExecutions' = activeExecutions \ {e}
    /\ attached' = attached \ {e}

\* createNewExecution.
Create(e) ==
    /\ mainUp
    /\ goto(e, "idle", "created")
    /\ row' = [row EXCEPT ![e] = "new"]
    /\ UNCHANGED <<queueVars, mainUp, activeExecutions, attached, stopVars, workerVars,
                   recovery, expired, faults>>

\* In queue mode nothing is throttled and the row stays new.
Register(e) ==
    /\ goto(e, "created", "adding")
    /\ activeExecutions' = activeExecutions \cup {e}
    /\ UNCHANGED <<rowVars, queueVars, mainUp, attached, stopVars, workerVars,
                   recovery, expired, faults>>

\* credentialsPermissionChecker.check throws: the failed execution is saved.
CheckFails(e) ==
    /\ goto(e, "adding", "done")
    /\ row' = [row EXCEPT ![e] = "error"]
    /\ dropEntry(e)
    /\ UNCHANGED <<queueVars, mainUp, stopVars, workerVars, recovery, expired, faults>>

\* scalingService.addJob.
AddJob(e) ==
    /\ goto(e, "adding", "added")
    /\ jobState' = [jobState EXCEPT ![e] = "waiting"]
    /\ UNCHANGED <<rowVars, holder, stalls, mainUp, activeExecutions, attached, stopVars,
                   workerVars, recovery, expired, faults>>

\* The queue cannot be reached: the error goes to processError.
AddJobFails(e) ==
    /\ goto(e, "adding", "startFailed")
    /\ UNCHANGED <<rowVars, queueVars, mainUp, activeExecutions, attached, stopVars,
                   workerVars, recovery, expired, faults>>

\* The workflowExecuteBefore hook throws, which an external hook does to refuse an
\* execution: the error goes to processError, and the job stays in the queue.
BeforeHookFails(e) ==
    /\ goto(e, "added", "startFailed")
    /\ fault
    /\ UNCHANGED <<rowVars, queueVars, mainUp, activeExecutions, attached, stopVars,
                   workerVars, recovery, expired>>

\* The promise that awaits job.finished() is created, and attached if the entry
\* is still there; otherwise attachWorkflowExecution throws.
AttachWorkflowExecution(e) ==
    /\ goto(e, "added", "awaiting")
    /\ attached' = attached \cup (activeExecutions \cap {e})
    /\ UNCHANGED <<rowVars, queueVars, mainUp, activeExecutions, stopVars, workerVars,
                   recovery, expired, faults>>

\* Mutant: nobody finalizes the entry when the job completed.
JobFinished_KeepEntry(e) ==
    /\ jobState[e] \in {"completed", "canceled"}
    /\ goto(e, "awaiting", "done")
    /\ UNCHANGED <<rowVars, queueVars, mainUp, activeExecutions, attached, stopVars,
                   workerVars, recovery, expired, faults>>

\* job.finished() settles and the entry is finalized with what the row says.  The
\* failure of a canceled job is one that processError ignores.
JobFinished(e) ==
    /\ jobState[e] \in {"completed", "canceled"}
    /\ goto(e, "awaiting", "done")
    /\ dropEntry(e)
    /\ UNCHANGED <<rowVars, queueVars, mainUp, stopVars, workerVars, recovery, expired, faults>>

\* Mutant: a job that failed is put into the queue again.
JobFailed_Requeue(e) ==
    /\ jobState[e] \in {"failed", "stalled"}
    /\ goto(e, "awaiting", "added")
    /\ jobState' = [jobState EXCEPT ![e] = "waiting"]
    /\ UNCHANGED <<rowVars, holder, stalls, mainUp, activeExecutions, attached, stopVars,
                   workerVars, recovery, expired, faults>>

\* job.finished() rejects: the worker failed, or the job stalled too often.
JobFailed(e) ==
    /\ jobState[e] \in {"failed", "stalled"}
    /\ goto(e, "awaiting", "failing")
    /\ UNCHANGED <<rowVars, queueVars, mainUp, activeExecutions, attached, stopVars,
                   workerVars, recovery, expired, faults>>

\* Mutant: processError without its sanity check.
processError_NoSanityCheck(e) ==
    /\ goto(e, "failing", "saving") \/ goto(e, "startFailed", "startSaving")
    /\ dropEntry(e)
    /\ UNCHANGED <<rowVars, queueVars, mainUp, stopVars, workerVars, recovery, expired, faults>>

\* processError in queue mode: "false positive, execution was successful".  After a
\* start that failed enqueueExecution throws, so nobody finalizes the entry of an
\* execution that succeeded all the same.
processError(e) ==
    /\ \/ /\ goto(e, "failing", IF row[e] = "success" THEN "done" ELSE "saving")
          /\ dropEntry(e)
       \/ /\ goto(e, "startFailed", IF row[e] = "success" THEN "thrown" ELSE "startSaving")
          /\ IF row[e] = "success" THEN UNCHANGED <<activeExecutions, attached>>
                                   ELSE dropEntry(e)
    /\ UNCHANGED <<rowVars, queueVars, mainUp, stopVars, workerVars, recovery, expired, faults>>

\* The workflowExecuteAfter hook of processError.
SaveError(e) ==
    /\ goto(e, "saving", "done") \/ goto(e, "startSaving", "thrown")
    /\ row' = [row EXCEPT ![e] = "error"]
    /\ UNCHANGED <<queueVars, mainUp, activeExecutions, attached, stopVars, workerVars,
                   recovery, expired, faults>>

-----------------------------------------------------------------------------
(* ExecutionService.stop in scaling mode, and ScalingService.stopJob.      *)

\* assertStoppable on the row that was read.
StopRead(e) ==
    /\ mainUp /\ e \in Stoppable
    /\ stopPc[e] = "idle"
    /\ row[e] \in InProgress
    /\ stopPc' = [stopPc EXCEPT ![e] = "stopping"]
    /\ UNCHANGED <<rowVars, queueVars, mainVars, cancelPc, workerVars,
                   recovery, expired, faults>>

\* activeExecutions.stopExecution: cancels the promise if it is attached.
StopExecution(e) ==
    /\ stopPc[e] = "stopping"
    /\ stopPc' = [stopPc EXCEPT ![e] = "writing"]
    /\ cancelPc' = [cancelPc EXCEPT ![e] = IF e \in attached THEN "check" ELSE @]
    /\ dropEntry(e)
    /\ UNCHANGED <<rowVars, queueVars, mainUp, pc, workerVars, recovery, expired, faults>>

\* stopDuringRun.
StopDuringRun(e) ==
    /\ stopPc[e] = "writing"
    /\ stopPc' = [stopPc EXCEPT ![e] = "done"]
    /\ row' = [row EXCEPT ![e] = "canceled"]
    /\ UNCHANGED <<queueVars, mainVars, cancelPc, workerVars, recovery, expired, faults>>

gotoCancel(e, from, to) == cancelPc[e] = from /\ cancelPc' = [cancelPc EXCEPT ![e] = to]

\* job.isActive().
StopJob(e) ==
    /\ gotoCancel(e, "check", IF jobState[e] = "active" THEN "abort" ELSE "remove")
    /\ UNCHANGED <<rowVars, queueVars, mainVars, stopPc, workerVars, recovery, expired, faults>>

\* job.progress({ kind: 'abort-job' }) goes to every worker that listens.
StopJobAbort(e) ==
    /\ gotoCancel(e, "abort", "fail")
    /\ abortJob' = abortJob \cup {<<w, e>> : w \in {v \in Workers : workerState[v] # "down"}}
    /\ UNCHANGED <<rowVars, queueVars, mainVars, stopPc, workerState, work,
                   recovery, expired, faults>>

\* Mutant: the lock stays when a stop fails the job.
StopJobFail_KeepLock(e) ==
    /\ gotoCancel(e, "fail", "idle")
    /\ jobState' = [jobState EXCEPT ![e] = IF @ = "active" THEN "canceled" ELSE @]
    /\ UNCHANGED <<rowVars, holder, stalls, mainVars, stopPc, workerVars,
                   recovery, expired, faults>>

\* discard and moveToFailed, which throws if the job is not active any more.
StopJobFail(e) ==
    /\ gotoCancel(e, "fail", "idle")
    /\ IF jobState[e] = "active"
         THEN /\ jobState' = [jobState EXCEPT ![e] = "canceled"]
              /\ holder' = [holder EXCEPT ![e] = None]
         ELSE UNCHANGED <<jobState, holder>>
    /\ UNCHANGED <<rowVars, stalls, mainVars, stopPc, workerVars, recovery, expired, faults>>

\* job.remove(), which throws if a worker has locked the job meanwhile.
StopJobRemove(e) ==
    /\ gotoCancel(e, "remove", "idle")
    /\ jobState' = [jobState EXCEPT ![e] = IF @ = "waiting" THEN "removed" ELSE @]
    /\ UNCHANGED <<rowVars, holder, stalls, mainVars, stopPc, workerVars,
                   recovery, expired, faults>>

-----------------------------------------------------------------------------
(* Workers: Bull's process loop and JobProcessor.processJob.               *)

gotoWork(w, e, from, to) == work[w][e] = from /\ work' = [work EXCEPT ![w][e] = to]

\* Bull hands the job to a worker that has not paused and has a free place.
Pickup(w, e) ==
    /\ workerState[w] = "up"
    /\ jobState[e] = "waiting"
    /\ Cardinality({f \in Executions : work[w][f] # "idle"}) < concurrency
    /\ gotoWork(w, e, "idle", "picked")
    /\ jobState' = [jobState EXCEPT ![e] = "active"]
    /\ holder' = [holder EXCEPT ![e] = w]
    /\ UNCHANGED <<rowVars, stalls, mainVars, stopVars, workerState, abortJob,
                   recovery, expired, faults>>

\* Mutant: an execution that already runs is not processed again either.
FindExecution_RefuseRunning(w, e) ==
    /\ gotoWork(w, e, "picked", IF row[e] \in {"crashed", "running"} THEN "processed" ELSE "found")
    /\ UNCHANGED <<rowVars, queueVars, mainVars, stopVars, workerState, abortJob,
                   recovery, expired, faults>>

\* findSingleExecution: a crashed execution is not processed.
FindExecution(w, e) ==
    /\ gotoWork(w, e, "picked", IF row[e] = "crashed" THEN "processed" ELSE "found")
    /\ UNCHANGED <<rowVars, queueVars, mainVars, stopVars, workerState, abortJob,
                   recovery, expired, faults>>

SetRunning(w, e) ==
    /\ gotoWork(w, e, "found", "starting")
    /\ row' = [row EXCEPT ![e] = "running"]
    /\ UNCHANGED <<queueVars, mainVars, stopVars, workerState, abortJob,
                   recovery, expired, faults>>

\* processRunExecutionData, and the entry in runningJobs.
StartEngine(w, e) ==
    /\ gotoWork(w, e, "starting", "running")
    /\ UNCHANGED <<rowVars, queueVars, mainVars, stopVars, workerState, abortJob,
                   recovery, expired, faults>>

\* Bull's moveToCompleted and moveToFailed need the lock.
leaveQueue(w, e, how) ==
    IF jobState[e] = "active" /\ holder[e] = w
      THEN /\ jobState' = [jobState EXCEPT ![e] = how]
           /\ holder' = [holder EXCEPT ![e] = None]
           /\ UNCHANGED stalls
      ELSE UNCHANGED queueVars

\* processJob throws before the engine starts (the workflow is gone, a read fails):
\* reportJobProcessingError sends job-failed and rethrows.
ReportJobProcessingError(w, e) ==
    /\ work[w][e] \in {"picked", "starting"}
    /\ work' = [work EXCEPT ![w][e] = "idle"]
    /\ leaveQueue(w, e, "failed")
    /\ UNCHANGED <<rowVars, mainVars, stopVars, workerState, abortJob,
                   recovery, expired, faults>>

\* The engine ends and its hook saves the result; runningJobs loses the entry.
SaveResult(w, e) ==
    /\ gotoWork(w, e, "running", "processed")
    /\ \E status \in {"success", "error"} : row' = [row EXCEPT ![e] = status]
    /\ UNCHANGED <<queueVars, mainVars, stopVars, workerState, abortJob,
                   recovery, expired, faults>>

\* JobProcessor.stopJob: only an engine in runningJobs can be canceled.
AbortJob(w, e) ==
    /\ <<w, e>> \in abortJob
    /\ abortJob' = abortJob \ {<<w, e>>}
    /\ work' = [work EXCEPT ![w][e] = IF @ = "running" THEN "aborted" ELSE @]
    /\ UNCHANGED <<rowVars, queueVars, mainVars, stopVars, workerState,
                   recovery, expired, faults>>

\* The onCancel handler of the engine saves what it has.
SaveCanceled(w, e) ==
    /\ gotoWork(w, e, "aborted", "processed")
    /\ row' = [row EXCEPT ![e] = "canceled"]
    /\ UNCHANGED <<queueVars, mainVars, stopVars, workerState, abortJob,
                   recovery, expired, faults>>

\* processJob sends job-finished and returns, and Bull completes the job.
JobProcessed(w, e) ==
    /\ gotoWork(w, e, "processed", "idle")
    /\ leaveQueue(w, e, "completed")
    /\ UNCHANGED <<rowVars, mainVars, stopVars, workerState, abortJob,
                   recovery, expired, faults>>

\* Bull's stalled check, run by any worker: a job whose lock was not renewed is
\* processed again, or fails when that happened too often.
stalled(e) ==
    /\ \E w \in Workers : workerState[w] # "down"
    /\ jobState[e] = "active"
    /\ stalls' = [stalls EXCEPT ![e] = @ + 1]
    /\ holder' = [holder EXCEPT ![e] = None]
    /\ jobState' = [jobState EXCEPT ![e] =
                      IF stalls'[e] > maxStalledCount THEN "stalled" ELSE "waiting"]
    /\ UNCHANGED <<rowVars, mainVars, stopVars, workerVars, recovery>>

\* The worker that had the lock is gone, or no longer processes the job.
StalledCheck(e) ==
    /\ stalled(e)
    /\ work[holder[e]][e] = "idle"
    /\ UNCHANGED <<expired, faults>>

\* The worker that had the lock is too busy to renew it, and goes on with the job.
LockExpires(e) ==
    /\ stalled(e)
    /\ work[holder[e]][e] # "idle"
    /\ expired' = expired \cup {e}
    /\ fault

-----------------------------------------------------------------------------
(* Crashes, restarts and the shutdown of a worker.                         *)

\* What the worker was doing is lost; its jobs stay locked until the lock runs out.
workerEnds(w) ==
    /\ workerState' = [workerState EXCEPT ![w] = "down"]
    /\ work' = [work EXCEPT ![w] = [e \in Executions |-> "idle"]]
    /\ abortJob' = {m \in abortJob : m[1] # w}

WorkerCrash(w) ==
    /\ workerState[w] # "down"
    /\ fault
    /\ workerEnds(w)
    /\ UNCHANGED <<rowVars, queueVars, mainVars, stopVars, recovery, expired>>

\* stopWorker: pause, then wait until no job is in runningJobs.
StopWorker(w) ==
    /\ workerState[w] = "up"
    /\ fault
    /\ workerState' = [workerState EXCEPT ![w] = "stopping"]
    /\ UNCHANGED <<rowVars, queueVars, mainVars, stopVars, work, abortJob, recovery, expired>>

WorkerExit(w) ==
    /\ workerState[w] = "stopping"
    /\ runningJobs(w) = {}
    /\ workerEnds(w)
    /\ UNCHANGED <<rowVars, queueVars, mainVars, stopVars, recovery, expired, faults>>

WorkerStart(w) ==
    /\ workerState[w] = "down"
    /\ workerState' = [workerState EXCEPT ![w] = "up"]
    /\ UNCHANGED <<rowVars, queueVars, mainVars, stopVars, work, abortJob,
                   recovery, expired, faults>>

\* Everything the main process was doing is lost, a stop under way included.
MainCrash ==
    /\ mainUp
    /\ fault
    /\ mainUp' = FALSE
    /\ pc' = [e \in Executions |->
                IF pc[e] \in {"idle", "done", "thrown"} /\ stopPc[e] \in {"idle", "done"}
                  THEN pc[e] ELSE "lost"]
    /\ activeExecutions' = {} /\ attached' = {}
    /\ stopPc' = [e \in Executions |-> IF stopPc[e] = "idle" THEN "idle" ELSE "done"]
    /\ cancelPc' = [e \in Executions |-> "idle"]
    /\ recovery' = NoRecovery
    /\ UNCHANGED <<rowVars, queueVars, workerVars, expired>>

\* In queue mode nothing is resumed at startup.
MainStart ==
    /\ ~mainUp
    /\ mainUp' = TRUE
    /\ UNCHANGED <<rowVars, queueVars, pc, activeExecutions, attached, stopVars, workerVars,
                   recovery, expired, faults>>

-----------------------------------------------------------------------------
(* ScalingService.recoverFromQueue, on its timer.                          *)

\* getInProgressExecutionIds.
RecoverStored ==
    /\ mainUp /\ recovery.pc = "idle"
    /\ LET storedIds == {e \in Executions : row[e] \in InProgress}
       IN  storedIds # {} /\ recovery' = [pc |-> "stored", ids |-> storedIds]
    /\ UNCHANGED <<rowVars, queueVars, mainVars, stopVars, workerVars, expired, faults>>

\* findJobsByStatus; an empty queue ends the check, as do no dangling ids.  The queue
\* may hold jobs of executions that are not modelled.
RecoverQueued ==
    /\ recovery.pc = "stored"
    /\ \E otherJobs \in BOOLEAN :
          LET queuedIds   == {e \in Executions : inQueue(e)}
              danglingIds == recovery.ids \ queuedIds
          IN  recovery' = IF (queuedIds = {} /\ ~otherJobs) \/ danglingIds = {}
                            THEN NoRecovery
                            ELSE [pc |-> "mark", ids |-> danglingIds]
    /\ UNCHANGED <<rowVars, queueVars, mainVars, stopVars, workerVars, expired, faults>>

\* markAsCrashed writes whatever the rows say by now.
MarkAsCrashed ==
    /\ recovery.pc = "mark"
    /\ row' = [e \in Executions |-> IF e \in recovery.ids THEN "crashed" ELSE row[e]]
    /\ recovery' = NoRecovery
    /\ UNCHANGED <<queueVars, mainVars, stopVars, workerVars, expired, faults>>

-----------------------------------------------------------------------------
MainStep(e) ==
    \/ Register(e) \/ CheckFails(e) \/ AddJob(e) \/ AddJobFails(e)
    \/ BeforeHookFails(e) \/ AttachWorkflowExecution(e) \/ JobFinished(e) \/ JobFailed(e)
    \/ processError(e) \/ SaveError(e)

StopStep(e) ==
    \/ StopExecution(e) \/ StopDuringRun(e)
    \/ StopJob(e) \/ StopJobAbort(e) \/ StopJobFail(e) \/ StopJobRemove(e)

ProcessJob(w, e) ==
    \/ FindExecution(w, e) \/ SetRunning(w, e) \/ StartEngine(w, e)
    \/ ReportJobProcessingError(w, e) \/ SaveResult(w, e) \/ SaveCanceled(w, e)
    \/ JobProcessed(w, e)

ScalingNext ==
    \/ \E e \in Executions :
          \/ Create(e) \/ MainStep(e) \/ StopRead(e) \/ StopStep(e)
          \/ StalledCheck(e) \/ LockExpires(e)
    \/ \E w \in Workers, e \in Executions : Pickup(w, e) \/ ProcessJob(w, e) \/ AbortJob(w, e)
    \/ \E w \in Workers : WorkerCrash(w) \/ StopWorker(w) \/ WorkerExit(w) \/ WorkerStart(w)
    \/ MainCrash \/ MainStart
    \/ RecoverStored \/ RecoverQueued \/ MarkAsCrashed

ScalingSpec == ScalingInit /\ [][ScalingNext]_vars

\* Awaited promises settle, engines end, processes are started again, Bull hands
\* out jobs and checks for stalled ones.  Nothing is assumed of requests to create
\* or to stop, of abort messages, of faults, or of recovery.
ScalingFairness ==
    /\ \A e \in Executions :
          /\ WF_vars(MainStep(e)) /\ WF_vars(StopStep(e))
          /\ WF_vars(StalledCheck(e))
          /\ WF_vars(\E w \in Workers : Pickup(w, e))
          /\ \A w \in Workers : WF_vars(ProcessJob(w, e))
    /\ \A w \in Workers : WF_vars(WorkerExit(w) \/ WorkerStart(w))
    /\ WF_vars(MainStart)

FairScalingSpec == ScalingSpec /\ ScalingFairness

-----------------------------------------------------------------------------
(* Properties                                                              *)

\* Types: a job is locked exactly while it is active, and an execution is attached
\* only while it has an entry (ActiveExecutions, the job's lock in Redis).
ScalingTypeOK ==
    /\ row \in [Executions -> Statuses]
    /\ jobState \in [Executions -> JobStates]
    /\ holder \in [Executions -> Workers \cup {None}]
    /\ \A e \in Executions : jobState[e] = "active" <=> holder[e] # None
    /\ stalls \in [Executions -> 0..(maxStalledCount + 1)]
    /\ mainUp \in BOOLEAN
    /\ pc \in [Executions -> {"idle", "created", "adding", "added", "awaiting", "failing",
                              "saving", "done", "startFailed", "startSaving", "thrown",
                              "lost"}]
    /\ attached \subseteq activeExecutions /\ activeExecutions \subseteq Executions
    /\ stopPc \in [Executions -> {"idle", "stopping", "writing", "done"}]
    /\ cancelPc \in [Executions -> {"idle", "check", "abort", "fail", "remove"}]
    /\ workerState \in [Workers -> {"up", "stopping", "down"}]
    /\ work \in [Workers -> [Executions -> {"idle", "picked", "found", "starting", "running",
                                            "aborted", "processed"}]]
    /\ abortJob \subseteq Workers \X Executions
    /\ recovery \in [pc: {"idle", "stored", "mark"}, ids: SUBSET Executions]
    /\ expired \subseteq Executions
    /\ faults \in 0..MaxFaults

\* An execution that may be left in progress, since nobody is bound to write its end:
\* it is out of the queue, and its main process died while it handled it or gave it up
\* when its start failed, or a stop took the job while a worker was picking it up, or
\* a worker that had lost the lock started it after its end was written.
Abandoned(e) ==
    /\ ~inQueue(e)
    /\ \/ pc[e] \in {"lost", "thrown"}
       \/ jobState[e] \in {"canceled", "removed"}
       \/ e \in expired

\* "false positive, execution was successful" (processError): when a job is reported
\* as failed or stalled although its execution succeeded, the success stands.  The
\* check and the save are two steps, so that takes more than the check: nobody saves a
\* success in between.  Somebody does in two cases, which are all there are: a worker
\* lost the lock of the job and went on, or the start failed after the job was queued.
SuccessStands ==
    [][\A e \in Executions :
          row[e] = "success" /\ row'[e] = "error" => e \in expired \/ pc[e] = "startSaving"]_vars

\* What processError is written for: "by Bull even though it executed successfully"
\* (workflow-runner.ts:94).  No error ever replaces a success.
SuccessNeverReplaced ==
    [][\A e \in Executions : row[e] = "success" => row'[e] # "error"]_vars

\* What the queue promises of an execution is read off the workers, Bull's count and the job.
busyWorkers == [e \in Executions |-> {w \in Workers : work[w][e] # "idle"}]

timesTaken ==
    [e \in Executions |->
        stalls[e] + IF jobState[e] \in {"active", "completed", "failed", "canceled"}
                      THEN 1 ELSE 0]

mayBeTaken == {e \in Executions : jobState[e] \in {None, "waiting", "active"}}

Lease == INSTANCE JobLease WITH
    MaxTakes <- maxStalledCount + 1,
    busy  <- busyWorkers,
    takes <- timesTaken,
    open  <- mayBeTaken,
    split <- expired

\* The code keeps the promise of the queue: an execution is taken at most once more
\* than maxStalledCount, never again once its job completed, failed, stalled too often
\* or was stopped, and a second worker gets it only when the first is through with it
\* or lost its lock: not by a stop, a shutdown, a crash or the main process's handling
\* of a failure (setupWorker, stopJob, enqueueExecution on top of Bull's locks).
ImplementsJobLease == Lease!LeaseSpec

\* Every execution ends, however workers crash or shut down (processJob, Bull's
\* retry of a stalled job, enqueueExecution's handling of a failed one).
ExecutionEnds ==
    \A e \in Executions :
        row[e] \in InProgress ~>
            row[e] \in Final \/ Abandoned(e)

\* Whoever waits for an execution in the main process is answered: its entry in
\* ActiveExecutions is removed in the end (shutdown waits for that too).  The exception
\* is a start that failed while a worker had already saved a success: enqueueExecution
\* throws and the entry stays.
EntryIsReleased ==
    \A e \in Executions :
        e \in activeExecutions ~> e \notin activeExecutions \/ pc[e] = "thrown"

=============================================================================
