-------------------------- MODULE ExecutionLifecycle --------------------------
(***************************************************************************)
(* Executions in regular mode, from creation to the final save: one main   *)
(* process with its ConcurrencyControlService, ActiveExecutions,           *)
(* WorkflowRunner, WaitTracker and ExecutionService.stop, and the          *)
(* execution rows of the database, which survive the process.              *)
(*                                                                         *)
(* Every await is a point where other steps may come in between, so a      *)
(* method is one action per stretch of code between two awaits.  A call    *)
(* <<e, n>> is the n-th WorkflowRunner.run for execution e; pc[c] is how   *)
(* far it has come:                                                        *)
(*   created     about to call throttle()                                  *)
(*   throttling  waits for throttle()'s promise (slot[c] tells its fate)   *)
(*   stored      the row says running, the entry is not registered yet     *)
(*   registered  in activeExecutions, waits for the permission check       *)
(*   failed      permission denied and saved, about to finalize            *)
(*   starting    the row says running again, the engine is not started     *)
(*   running     the engine (WorkflowExecute) executes nodes               *)
(*   saving      the engine ended, its workflowExecuteAfter hook saves     *)
(*   saved       saved, about to run the runner's .then                    *)
(*   done        nothing left to do                                        *)
(***************************************************************************)
EXTENDS ExecutionRecovery

CONSTANTS
    Responders,    \* executions started by a webhook that waits for a response
    Waiters,       \* executions whose workflow has one node that waits
    Stoppable,     \* executions a user may stop or whose workflow has a timeout
    resumeBy,      \* subset of {"timer", "webhook"}: what resumes a wait here
    quietStartup,  \* no request arrives before runEnqueuedExecutions
    ends,          \* subset of {"crash", "shutdown", "force"}: how the process may
                   \* end; "force": the timeout of a graceful shutdown runs out
    MaxBoots       \* how often the process is started; it ends once less

ASSUME LifecycleAssumption ==
    /\ Responders \subseteq Executions
    /\ Waiters \subseteq Executions
    /\ Stoppable \subseteq Executions
    /\ resumeBy \subseteq {"timer", "webhook"}
    /\ ends \subseteq {"crash", "shutdown", "force"}
    /\ quietStartup \in BOOLEAN
    /\ MaxBoots \in Nat \ {0}

VARIABLES
    boots,      \* how often it was started
    active,     \* active[e]: ActiveExecutions.activeExecutions[e]
    pc,         \* pc[c]: progress of the call, see above
    outcome,    \* outcome[c]: what the engine of the call came to
    cancelled,  \* cancelled[c]: the engine's abort signal
    cancelSave, \* cancelSave[c]: the hook of onCancel has not saved yet
    armed,      \* armed[c]: runMainProcess set the timer for workflowTimeout
    timer,      \* timer[e]: WaitTracker.waitingExecutions[e]
    stopper     \* stopper[e]: progress of ExecutionService.stop(e)

processVars == <<phase, boots, recoveryInProgress, recovery>>
callVars    == <<pc, outcome, cancelled, cancelSave, armed>>
vars == <<concurrencyVars, processVars, eventLog, callVars, row, active, timer, stopper>>

None == [owner |-> <<>>]

\* IExecutingWorkflowData; settled: postExecutePromise is settled.
Entries == [owner: Calls, status: {"running", "waiting"},
            engine: Calls \cup {<<>>}, response: BOOLEAN, settled: BOOLEAN]

CallStates == {"idle", "created", "throttling", "stored", "registered", "failed",
               "starting", "running", "saving", "saved", "done"}

Init ==
    /\ ConcurrencyInit
    /\ RecoveryInit
    /\ boots = 1
    /\ active = [e \in Executions |-> None]
    /\ pc = [c \in Calls |-> "idle"]
    /\ outcome = [c \in Calls |-> "none"]
    /\ cancelled = [c \in Calls |-> FALSE]
    /\ cancelSave = [c \in Calls |-> FALSE]
    /\ armed = [c \in Calls |-> FALSE]
    /\ timer = [e \in Executions |-> FALSE]
    /\ stopper = [e \in Executions |-> "none"]

alive == phase # "down"

\* The index of the next call for execution e is free.
fresh(c) ==
    /\ pc[c] = "idle"
    /\ c[2] > 1 => pc[<<c[1], c[2] - 1>>] # "idle"

\* Requests of users and webhooks are served.
served ==
    phase = "up" \/ (~quietStartup /\ phase \notin {"stopping", "down"})

hasEntry(e) == active[e] # None

-----------------------------------------------------------------------------
(* ActiveExecutions                                                        *)

\* Mutant: the entry outlives its promise.
settle_KeepEntry(e) ==
    IF active[e].settled
      THEN UNCHANGED <<concurrencyVars, active>>
      ELSE /\ release(active[e].owner)
           /\ active' = [active EXCEPT ![e].settled = TRUE]

\* Mutant: an execution that goes to wait keeps its capacity.
settle_WaitingHolds(e) ==
    IF active[e].settled \/ active[e].status = "waiting"
      THEN /\ active' = [active EXCEPT ![e].settled = TRUE]
           /\ UNCHANGED concurrencyVars
      ELSE /\ release(active[e].owner)
           /\ active' = [active EXCEPT ![e] = None]

\* postExecutePromise of execution e's entry settles: the .finally that add()
\* attached releases the capacity of the call that made the entry and removes
\* the entry unless the execution waits.
settle(e) ==
    IF active[e].settled
      THEN UNCHANGED <<concurrencyVars, active>>
      ELSE /\ release(active[e].owner)
           /\ active' = [active EXCEPT ![e] =
                            IF @.status = "waiting" THEN [@ EXCEPT !.settled = TRUE]
                                                    ELSE None]

finalizeExecution(e) ==
    IF hasEntry(e) THEN settle(e) ELSE UNCHANGED <<concurrencyVars, active>>

\* PCancelable.cancel(): until the run's promise is resolved, it aborts the
\* engine and starts the workflowExecuteAfter hook, whose event is out at once,
\* without awaiting it.
cancelEngines(C) ==
    LET S == {c \in C : pc[c] \in {"running", "saving", "saved"} /\ ~cancelled[c]}
    IN  /\ cancelled' = [c \in Calls |-> cancelled[c] \/ c \in S]
        /\ cancelSave' = [c \in Calls |-> cancelSave[c] \/ c \in S]
        /\ eventLog' = logged({executionId(c) : c \in S}, "ended")

\* Mutant: the entry is removed without rejecting its promise.
stopExecution_NoReject(e) ==
    IF ~hasEntry(e)
      THEN UNCHANGED <<concurrencyVars, active, cancelled, cancelSave, eventLog>>
      ELSE /\ active' = [active EXCEPT ![e] = None]
           /\ cancelEngines({active[e].engine} \ {<<>>})
           /\ UNCHANGED concurrencyVars

stopExecution(e) ==
    IF ~hasEntry(e)
      THEN UNCHANGED <<concurrencyVars, active, cancelled, cancelSave, eventLog>>
      ELSE IF active[e].status = "waiting"
             THEN /\ active' = [active EXCEPT ![e] = None]
                  /\ UNCHANGED <<concurrencyVars, cancelled, cancelSave, eventLog>>
             ELSE /\ cancelEngines({active[e].engine} \ {<<>>})
                  /\ settle(e)

-----------------------------------------------------------------------------
(* Starting and resuming                                                   *)

\* createNewExecution inserted the row; add() goes on in a later step.
Create(e) ==
    /\ served
    /\ fresh(<<e, 1>>)
    /\ row' = [row EXCEPT ![e].status = "new"]
    /\ pc' = [pc EXCEPT ![<<e, 1>>] = "created"]
    /\ UNCHANGED <<concurrencyVars, processVars, eventLog, outcome, armed, cancelled, cancelSave,
                   active, timer, stopper>>

\* WaitTracker.getWaitingExecutions arms a timer for a row it finds.
getWaitingExecutions(e) ==
    /\ "timer" \in resumeBy
    /\ phase \notin {"stopping", "down"}
    /\ row[e].waitTill /\ row[e].status # "crashed"
    /\ ~timer[e]
    /\ timer' = [timer EXCEPT ![e] = TRUE]
    /\ UNCHANGED <<concurrencyVars, processVars, eventLog, callVars, row, active, stopper>>

\* The timer fires: WaitTracker.startExecution reads the row and runs the
\* execution again unless it finished.
startExecution(c) ==
    LET e == executionId(c)
    IN  /\ alive
        /\ timer[e]
        /\ fresh(c)
        /\ timer' = [timer EXCEPT ![e] = FALSE]
        /\ pc' = IF row[e].status = "success" THEN pc
                                              ELSE [pc EXCEPT ![c] = "created"]
        /\ UNCHANGED <<concurrencyVars, processVars, eventLog, outcome, armed, cancelled, cancelSave,
                       row, active, stopper>>

\* WaitingWebhooks.executeWebhook: the row is neither running nor finished,
\* holds no error, and its last node waits.
executeWebhook(c) ==
    LET r == row[executionId(c)]
    IN  /\ "webhook" \in resumeBy
        /\ served
        /\ r.status \notin {"none", "running", "success"} /\ ~r.error /\ r.waitTill
        /\ fresh(c)
        /\ pc' = [pc EXCEPT ![c] = "created"]
        /\ UNCHANGED <<concurrencyVars, processVars, eventLog, outcome, armed, cancelled, cancelSave,
                       row, active, timer, stopper>>

\* Mutant: the enqueued executions are not picked up.
runEnqueuedExecutions_None ==
    /\ phase = "starting"
    /\ phase' = "up"
    /\ UNCHANGED <<concurrencyVars, callVars, boots, busVars, row, active,
                   timer, stopper>>

\* Start.runEnqueuedExecutions: every row that is still new is run again.
runEnqueuedExecutions ==
    LET enqueued == {e \in Executions : row[e].status = "new"}
        next == {c \in Calls : executionId(c) \in enqueued /\ fresh(c)}
    IN  /\ phase = "starting"
        /\ \A e \in enqueued : \E c \in next : executionId(c) = e
        /\ phase' = "up"
        /\ pc' = [c \in Calls |-> IF c \in next THEN "created" ELSE pc[c]]
        /\ eventLog' = logged(enqueued, "ended")
        /\ UNCHANGED <<concurrencyVars, boots, recoveryInProgress, recovery,
                       outcome, armed, cancelled, cancelSave, row, active, timer, stopper>>

-----------------------------------------------------------------------------
(* One call: ActiveExecutions.add, WorkflowRunner.run and runMainProcess   *)

AddThrottle(c) ==
    /\ pc[c] = "created"
    /\ throttle(c)
    /\ eventLog' = IF slot'[c] = "queued" THEN logged({executionId(c)}, "ended")
                                          ELSE eventLog
    /\ pc' = [pc EXCEPT ![c] = "throttling"]
    /\ UNCHANGED <<processVars, outcome, armed, cancelled, cancelSave, row, active,
                   timer, stopper>>

\* throttle()'s promise resolved: the row of a new execution is set running,
\* that of an existing one is updated.
AddStore(c) ==
    LET e == executionId(c)
    IN  /\ pc[c] = "throttling"
        /\ slot[c] \in {"held", "through"}
        /\ row' = [row EXCEPT ![e] = IF c[2] = 1 THEN setRunning(@) ELSE resumeRow(@)]
        /\ pc' = [pc EXCEPT ![c] = "stored"]
        /\ UNCHANGED <<concurrencyVars, processVars, eventLog, outcome, armed, cancelled, cancelSave,
                       active, timer, stopper>>

\* Mutant: the entry of a new execution keeps the status it was created with.
AddRegister_New(c) ==
    LET e == executionId(c)
    IN  /\ pc[c] = "stored"
        /\ active' = [active EXCEPT ![e] =
                         [owner |-> c, status |-> "new", engine |-> <<>>,
                          response |-> hasEntry(e) /\ active[e].response,
                          settled |-> FALSE]]
        /\ pc' = [pc EXCEPT ![c] = "registered"]
        /\ UNCHANGED <<concurrencyVars, processVars, eventLog, outcome, armed, cancelled, cancelSave,
                       row, timer, stopper>>

\* The entry replaces whatever entry the execution had; only the response
\* promise is carried over.
AddRegister(c) ==
    LET e == executionId(c)
    IN  /\ pc[c] = "stored"
        /\ active' = [active EXCEPT ![e] =
                         [owner |-> c, status |-> "running", engine |-> <<>>,
                          response |-> hasEntry(e) /\ active[e].response,
                          settled |-> FALSE]]
        /\ pc' = [pc EXCEPT ![c] = "registered"]
        /\ UNCHANGED <<concurrencyVars, processVars, eventLog, outcome, armed, cancelled, cancelSave,
                       row, timer, stopper>>

\* Mutant: the failed run is not saved.
CheckFails_NoSave(c) ==
    /\ pc[c] = "registered"
    /\ pc' = [pc EXCEPT ![c] = "failed"]
    /\ UNCHANGED <<concurrencyVars, processVars, eventLog, outcome, armed, cancelled, cancelSave,
                   row, active, timer, stopper>>

\* Mutant: the failed run gives its capacity back itself.
CheckFails_Release(c) ==
    /\ pc[c] = "registered"
    /\ release(c)
    /\ row' = [row EXCEPT ![executionId(c)] = saveRow(@, "error")]
    /\ eventLog' = logged({executionId(c)}, "ended")
    /\ pc' = [pc EXCEPT ![c] = "failed"]
    /\ UNCHANGED <<processVars, outcome, armed, cancelled, cancelSave, active, timer,
                   stopper>>

\* credentialsPermissionChecker.check throws: the failed run is saved ...
CheckFails(c) ==
    /\ pc[c] = "registered"
    /\ row' = [row EXCEPT ![executionId(c)] = saveRow(@, "error")]
    /\ eventLog' = logged({executionId(c)}, "ended")
    /\ pc' = [pc EXCEPT ![c] = "failed"]
    /\ UNCHANGED <<concurrencyVars, processVars, outcome, armed, cancelled, cancelSave,
                   active, timer, stopper>>

\* ... and the execution finalized.
FailedFinalize(c) ==
    /\ pc[c] = "failed"
    /\ finalizeExecution(executionId(c))
    /\ pc' = [pc EXCEPT ![c] = "done"]
    /\ UNCHANGED <<processVars, eventLog, outcome, armed, cancelled, cancelSave, row, timer, stopper>>

\* The check passed: attachResponsePromise, which throws if the entry is gone,
\* and runMainProcess up to setRunning.
CheckPasses(c) ==
    LET e == executionId(c)
        attaches == c[2] = 1 /\ e \in Responders
    IN  /\ pc[c] = "registered"
        /\ IF attaches /\ ~hasEntry(e)
             THEN /\ pc' = [pc EXCEPT ![c] = "done"]
                  /\ UNCHANGED <<row, active>>
             ELSE /\ pc' = [pc EXCEPT ![c] = "starting"]
                  /\ row' = [row EXCEPT ![e] = setRunning(@)]
                  /\ active' = IF attaches THEN [active EXCEPT ![e].response = TRUE]
                                           ELSE active
        /\ UNCHANGED <<concurrencyVars, processVars, eventLog, outcome, armed, cancelled, cancelSave,
                       timer, stopper>>

\* The engine is started and then attached to the entry; if the entry is gone
\* attachWorkflowExecution throws, and nobody holds the engine any more.  Only an
\* engine that is not a restart runs the workflowExecuteBefore hook.
StartEngine(c) ==
    LET e == executionId(c)
    IN  /\ pc[c] = "starting"
        /\ pc' = [pc EXCEPT ![c] = "running"]
        /\ active' = IF hasEntry(e) THEN [active EXCEPT ![e].engine = c] ELSE active
        /\ armed' = [armed EXCEPT ![c] = hasEntry(e) /\ e \in Stoppable]
        /\ eventLog' = IF c[2] = 1 THEN logged({e}, "started") ELSE eventLog
        /\ UNCHANGED <<concurrencyVars, processVars, outcome, cancelled, cancelSave,
                       row, timer, stopper>>

\* The engine executes a node: the first one is what the log learns of.
nodeExecuteBefore(c) ==
    /\ pc[c] = "running" /\ outcome[c] = "none" /\ ~cancelled[c]
    /\ eventLog' = logged({executionId(c)}, "nodes")
    /\ UNCHANGED <<concurrencyVars, processVars, callVars, row, active, timer, stopper>>

\* A node puts the execution to wait; setStatus throws if the entry is gone,
\* which makes the node, and with it the run, fail.
putExecutionToWait(c) ==
    LET e == executionId(c)
    IN  /\ e \in Waiters /\ c[2] < MaxRuns
        /\ \A n \in 1..MaxRuns : outcome[<<e, n>>] # "waiting"
        /\ pc[c] = "running" /\ outcome[c] = "none" /\ ~cancelled[c]
        /\ IF hasEntry(e)
             THEN /\ active' = [active EXCEPT ![e].status = "waiting"]
                  /\ outcome' = [outcome EXCEPT ![c] = "waiting"]
             ELSE /\ outcome' = [outcome EXCEPT ![c] = "error"]
                  /\ UNCHANGED active
        /\ eventLog' = logged({e}, "nodes")
        /\ UNCHANGED <<concurrencyVars, processVars, pc, armed, cancelled, cancelSave, row,
                       timer, stopper>>

\* The engine leaves its loop.  A cancelled engine does not run the hook again.
EngineEnds(c) ==
    /\ pc[c] = "running"
    /\ \E result \in {"success", "error"} :
          outcome' = [outcome EXCEPT ![c] = IF @ = "none" THEN result ELSE @]
    /\ pc' = [pc EXCEPT ![c] = IF cancelled[c] THEN "saved" ELSE "saving"]
    /\ UNCHANGED <<concurrencyVars, processVars, eventLog, armed, cancelled, cancelSave, row,
                   active, timer, stopper>>

\* The workflowExecuteAfter hooks; the end of a run that waits is not logged.
SaveResult(c) ==
    /\ pc[c] = "saving"
    /\ row' = [row EXCEPT ![executionId(c)] = saveRow(@, outcome[c])]
    /\ eventLog' = IF outcome[c] = "waiting" THEN eventLog
                                             ELSE logged({executionId(c)}, "ended")
    /\ pc' = [pc EXCEPT ![c] = "saved"]
    /\ UNCHANGED <<concurrencyVars, processVars, outcome, armed, cancelled, cancelSave,
                   active, timer, stopper>>

\* The .then of the run: getStatus throws if the entry is gone, and
\* processError returns; otherwise the execution is finalized.
Finalize(c) ==
    /\ pc[c] = "saved"
    /\ finalizeExecution(executionId(c))
    /\ pc' = [pc EXCEPT ![c] = "done"]
    /\ armed' = [armed EXCEPT ![c] = FALSE]
    /\ UNCHANGED <<processVars, eventLog, outcome, cancelled, cancelSave, row, timer, stopper>>

\* The save that onCancel started and nobody awaits.
CancelSave(c) ==
    /\ cancelSave[c]
    /\ row' = [row EXCEPT ![executionId(c)] = saveRow(@, "canceled")]
    /\ cancelSave' = [cancelSave EXCEPT ![c] = FALSE]
    /\ UNCHANGED <<concurrencyVars, processVars, eventLog, pc, outcome, armed, cancelled, active,
                   timer, stopper>>

-----------------------------------------------------------------------------
(* ExecutionService.stop                                                   *)

\* The row is read and found stoppable.
StopRead(e) ==
    /\ served
    /\ e \in Stoppable /\ stopper[e] = "none"
    /\ row[e].status \in {"new", "waiting", "running"}
    /\ stopper' = [stopper EXCEPT ![e] = "read"]
    /\ UNCHANGED <<concurrencyVars, processVars, eventLog, callVars, row, active, timer>>

\* stopInRegularMode up to its write.
StopAct(e) ==
    /\ stopper[e] = "read"
    /\ \/ /\ remove(e)
          /\ stopper' = [stopper EXCEPT ![e] = "before"]
          /\ UNCHANGED <<active, cancelled, cancelSave, eventLog, timer>>
       \/ /\ ~has(e)
          /\ stopExecution(e)
          /\ timer' = [timer EXCEPT ![e] = FALSE]
          /\ stopper' = [stopper EXCEPT ![e] = "during"]
    /\ UNCHANGED <<processVars, pc, outcome, armed, row>>

StopWrite(e) ==
    /\ stopper[e] \in {"before", "during"}
    /\ row' = [row EXCEPT ![e] = IF stopper[e] = "before" THEN stopBeforeRun(@)
                                                          ELSE stopDuringRun(@)]
    /\ stopper' = [stopper EXCEPT ![e] = "done"]
    /\ UNCHANGED <<concurrencyVars, processVars, eventLog, callVars, active, timer>>

\* The timer of runMainProcess: workflowTimeout is over, and whatever entry the
\* execution has by now is stopped.
ExecutionTimeout(c) ==
    LET e == executionId(c)
    IN  /\ armed[c]
        /\ stopExecution(e)
        /\ armed' = [armed EXCEPT ![c] = FALSE]
        /\ UNCHANGED <<processVars, pc, outcome, row, timer, stopper>>

-----------------------------------------------------------------------------
(* The process                                                             *)

\* Start.stopProcess: WaitTracker.stopTracking and ActiveExecutions.shutdown
\* up to the loop that waits.  removeAll(toCancel) returns at once because the
\* service was just disabled.
shutdown ==
    LET ids == {e \in Executions : hasEntry(e)}
        stops == {e \in ids : active[e].response}
        rejected == {e \in stops : active[e].status # "waiting"}
        gone == stops \cup {e \in ids : active[e].status = "waiting"}
    IN  /\ "shutdown" \in ends
        /\ phase = "up" /\ boots < MaxBoots
        /\ phase' = "stopping"
        /\ isEnabled' = FALSE
        /\ cancelEngines({active[e].engine : e \in rejected} \ {<<>>})
        /\ slot' = [c \in Calls |->
                       IF \E e \in rejected : active[e].owner = c THEN "released"
                                                                  ELSE slot[c]]
        /\ active' = [e \in Executions |-> IF e \in gone THEN None ELSE active[e]]
        /\ timer' = [e \in Executions |-> FALSE]
        /\ UNCHANGED <<boots, recoveryInProgress, recovery, capacity, queue, pc, outcome,
                       armed, row, stopper>>

\* Whatever the process held in memory is lost.  (outcome stays: a workflow that
\* came past its node that waits does not wait again.)
memoryLost ==
    /\ phase' = "down"
    /\ isEnabled' = (queues # {})
    /\ capacity' = [t \in queues |-> limits[t]]
    /\ queue' = [t \in queues |-> <<>>]
    /\ slot' = [c \in Calls |-> IF slot[c] = "idle" THEN "idle" ELSE "removed"]
    /\ active' = [e \in Executions |-> None]
    /\ pc' = [c \in Calls |-> IF pc[c] = "idle" THEN "idle" ELSE "done"]
    /\ cancelled' = [c \in Calls |-> FALSE]
    /\ cancelSave' = [c \in Calls |-> FALSE]
    /\ armed' = [c \in Calls |-> FALSE]
    /\ timer' = [e \in Executions |-> FALSE]
    /\ stopper' = [e \in Executions |-> IF stopper[e] = "none" THEN "none" ELSE "done"]
    /\ recovery' = NoRecovery
    /\ UNCHANGED <<boots, outcome, row, eventLog, recoveryInProgress>>

\* shutdown()'s loop ends when no active execution is left.
Exit ==
    /\ phase = "stopping"
    /\ \A e \in Executions : ~hasEntry(e)
    /\ memoryLost

\* The timer of onTerminationSignal: "kill after timeout no matter what".
forceShutdown ==
    /\ "force" \in ends
    /\ phase = "stopping"
    /\ memoryLost

Crash ==
    /\ "crash" \in ends
    /\ alive /\ boots < MaxBoots
    /\ memoryLost

Restart ==
    /\ phase = "down" /\ boots < MaxBoots
    /\ phase' = "booting"
    /\ boots' = boots + 1
    /\ UNCHANGED <<concurrencyVars, busVars, callVars, row, active, timer, stopper>>

\* One step of MessageEventBus.initialize.
Recover ==
    /\ RecoveryStep
    /\ UNCHANGED <<concurrencyVars, boots, callVars, active, timer, stopper>>

-----------------------------------------------------------------------------
\* What the call does next of its own accord.
CallStep(c) ==
    \/ AddThrottle(c) \/ AddStore(c) \/ AddRegister(c)
    \/ CheckPasses(c) \/ FailedFinalize(c)
    \/ StartEngine(c) \/ EngineEnds(c) \/ SaveResult(c) \/ Finalize(c)

LifecycleNext ==
    \/ \E e \in Executions :
          \/ Create(e) \/ getWaitingExecutions(e)
          \/ StopRead(e) \/ StopAct(e) \/ StopWrite(e)
    \/ \E c \in Calls :
          \/ startExecution(c) \/ executeWebhook(c)
          \/ CallStep(c) \/ CheckFails(c)
          \/ nodeExecuteBefore(c) \/ putExecutionToWait(c)
          \/ CancelSave(c) \/ ExecutionTimeout(c)
    \/ Recover \/ runEnqueuedExecutions \/ shutdown \/ Exit \/ forceShutdown
    \/ Crash \/ Restart

LifecycleSpec == Init /\ [][LifecycleNext]_vars

\* Awaited promises settle, node executions end, timers fire, the process is
\* started again and its startup goes through.  Nothing is assumed of users,
\* webhooks, crashes or shutdown.
LifecycleFairness ==
    /\ \A c \in Calls : /\ WF_vars(CallStep(c))
                         /\ WF_vars(startExecution(c))
                         /\ WF_vars(CancelSave(c))
    /\ \A e \in Executions : /\ WF_vars(getWaitingExecutions(e))
                              /\ WF_vars(StopAct(e) \/ StopWrite(e))
    /\ WF_vars(Recover) /\ WF_vars(runEnqueuedExecutions) /\ WF_vars(Exit)
    /\ WF_vars(forceShutdown) /\ WF_vars(Restart)

FairLifecycleSpec == LifecycleSpec /\ LifecycleFairness

-----------------------------------------------------------------------------
(* Properties                                                              *)

\* Types: an active execution is running or waiting, never new, and a row has
\* one of the statuses of ExecutionStatusList.
LifecycleTypeOK ==
    /\ TypeOK
    /\ phase \in {"booting", "recovering", "marking", "starting", "up", "stopping", "down"}
    /\ boots \in 1..MaxBoots
    /\ row \in [Executions -> Rows]
    /\ eventLog \in [current: [Executions -> Mentions], previous: [Executions -> Mentions]]
    /\ recoveryInProgress \in BOOLEAN
    /\ recovery \in [left: SUBSET Executions, messages: [Executions -> Mentions],
                     amended: {<<>>} \cup (Executions \X Rows \X {"update", "hooks"})]
    /\ active \in [Executions -> Entries \cup {None}]
    /\ pc \in [Calls -> CallStates]
    /\ outcome \in [Calls -> {"none", "waiting", "success", "error"}]
    /\ cancelled \in [Calls -> BOOLEAN]
    /\ cancelSave \in [Calls -> BOOLEAN]
    /\ armed \in [Calls -> BOOLEAN]
    /\ timer \in [Executions -> BOOLEAN]
    /\ stopper \in [Executions -> {"none", "read", "before", "during", "done"}]

callsOf(e) == {c \in Calls : executionId(c) = e}

\* Capacity is never lost: a call that holds capacity is either on its way to
\* registering an entry or owns the entry whose promise will release it
\* ("Automatically remove execution once the postExecutePromise settles").
NoCapacityLeak ==
    \A c \in Calls :
        slot[c] = "held" =>
            \/ pc[c] \in {"throttling", "stored"}
            \/ LET entry == active[executionId(c)]
               IN  entry # None /\ entry.owner = c /\ ~entry.settled

\* A row says running only while something is left in this process that will
\* write a later status: a call under way, a pending save or a pending stop, or
\* the recovery pass of the next start.
RunningIsLive ==
    \A e \in Executions :
        row[e].status = "running" =>
            \/ phase \in {"down", "booting", "recovering", "marking"}
            \/ stopper[e] \in {"before", "during"}
            \/ \E c \in callsOf(e) :
                  \/ pc[c] \in {"stored", "registered", "starting", "running", "saving"}
                  \/ cancelSave[c]

\* No execution is worked on by two engines at once.
OneEngine ==
    \A e \in Executions :
        Cardinality({c \in callsOf(e) : pc[c] = "running"}) <= 1

\* A throttled or interrupted execution whose row is still new is run in the
\* end, across crashes, shutdowns and restarts (runEnqueuedExecutions).
EnqueuedIsRun ==
    \A e \in Executions : row[e].status = "new" ~> row[e].status # "new"

\* The bound MaxRuns is reached: the model has no further call for execution e.
usedUp(e) == ~\E c \in callsOf(e) : fresh(c)

\* A waiting execution is resumed, by its timer at the latest, and no restart
\* and no recovery pass in between makes it a crashed one.
WaitingIsResumed ==
    \A e \in Executions :
        row[e].status = "waiting" ~>
            row[e].status \notin {"waiting", "crashed"} \/ usedUp(e)

\* Whatever happens to executions, the callers of ConcurrencyControlService keep
\* to its protocol: every call is throttled once and released at most once, after
\* it was let through.  (Until the process ends: then the service starts anew.)
ImplementsConcurrencyControl == Spec

\* shutdown() waits for active executions, and ends of its own accord ("Remove
\* waiting and new executions to not block shutdown"), without being forced.
ShutdownCompletes == phase = "stopping" ~> phase # "stopping"

===============================================================================
