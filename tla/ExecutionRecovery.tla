------------------------- MODULE ExecutionRecovery -------------------------
(***************************************************************************)
(* What survives the main process: the execution rows of the database and  *)
(* the event log on disk, and how MessageEventBus.initialize uses the log  *)
(* at the next start to repair the rows of interrupted executions.         *)
(*                                                                         *)
(* The process boots in this order: WaitTracker.init ("booting"), the      *)
(* event bus ("recovering" or "marking"), runEnqueuedExecutions            *)
(* ("starting"), "up".                                                     *)
(* Only after recovery does LogStreamingEventRelay feed the log again.     *)
(*                                                                         *)
(* A log file is reduced to what its last message says of an execution:    *)
(*   silent   it does not mention it                                       *)
(*   ended    success or failure, throttled or started during bootup       *)
(*   started  n8n.workflow.started and no node message since               *)
(*   nodes    n8n.node.* since                                             *)
(***************************************************************************)
EXTENDS ConcurrencyControl

CONSTANT
    crashRecoveryMode   \* EventBusConfig: "simple" or "extensive"

ASSUME RecoveryAssumption == crashRecoveryMode \in {"simple", "extensive"}

VARIABLES
    phase,               \* of the process, see above; also "stopping", "down"
    row,                 \* row[e]: the execution's row: status, waitTill, error
    eventLog,            \* the current and the previous log file
    recoveryInProgress,  \* the flag file of that name exists
    recovery             \* progress of the recovery pass of initialize()

busVars == <<eventLog, recoveryInProgress, recovery>>

Statuses == {"none", "new", "running", "waiting", "success", "error",
             "canceled", "crashed"}

Rows == [status: Statuses, waitTill: BOOLEAN, error: BOOLEAN]

NoRow == [status |-> "none", waitTill |-> FALSE, error |-> FALSE]

Mentions == {"silent", "ended", "started", "nodes"}

silentLog == [e \in Executions |-> "silent"]

\* left: executions recoverFromLogs is still to be called for; messages: what
\* the log said of them; amended: <<e, row, next>>, the execution under way,
\* the row it is to have and the write that comes next.
NoRecovery == [left |-> {}, messages |-> silentLog, amended |-> <<>>]

RecoveryInit ==
    /\ phase = "booting"
    /\ row = [e \in Executions |-> NoRow]
    /\ eventLog = [current |-> silentLog, previous |-> silentLog]
    /\ recoveryInProgress = FALSE
    /\ recovery = NoRecovery

-----------------------------------------------------------------------------
(* ExecutionRepository: what a write changes in the row                    *)

setRunning(r) == [r EXCEPT !.status = "running"]

\* updateExistingExecution as ActiveExecutions.add calls it to resume.
resumeRow(r) == [r EXCEPT !.status = "running", !.waitTill = FALSE]

stopBeforeRun(r) == [r EXCEPT !.status = "canceled"]

stopDuringRun(r) == [status |-> "canceled", waitTill |-> FALSE, error |-> TRUE]

markAsCrashed(r) == [r EXCEPT !.status = "crashed"]

\* Mutant: the status of the run is saved as it is.
determineFinalExecutionStatus_NoWait(status, waitTill) == status

\* The status the workflowExecuteAfter hooks save for a run.
determineFinalExecutionStatus(status, waitTill) ==
    IF waitTill THEN "waiting" ELSE status

\* Mutant: a run that waits is saved without the time to resume it.
saveRow_NoWaitTill(r, status) ==
    [status   |-> determineFinalExecutionStatus(status, status = "waiting"),
     waitTill |-> r.waitTill,
     error    |-> status = "error"]

\* hookFunctionsSave at the end of a run: waitTill is written only if the run
\* waits, error is part of the run's data.
saveRow(r, status) ==
    [status   |-> determineFinalExecutionStatus(status, status = "waiting"),
     waitTill |-> r.waitTill \/ status = "waiting",
     error    |-> status = "error"]

-----------------------------------------------------------------------------
(* The event log                                                           *)

\* LogStreamingEventRelay listens.
relayed == phase \in {"starting", "up", "stopping"}

\* What the log says once message m about the executions in S was relayed.
logged(S, m) ==
    IF relayed
      THEN [eventLog EXCEPT !.current =
               [e \in Executions |-> IF e \in S THEN m ELSE @[e]]]
      ELSE eventLog

\* getUnsentAndUnfinishedExecutions reads the previous file, then the current.
unfinished ==
    [e \in Executions |-> IF eventLog.current[e] = "silent" THEN eventLog.previous[e]
                                                            ELSE eventLog.current[e]]

-----------------------------------------------------------------------------
(* MessageEventBus.initialize                                              *)

\* The log is read and archived, the rows that say running are read too.  If
\* that leaves anything to recover, and recovery was not under way when the
\* process last died, the flag file is written.
initialize ==
    LET ids == {e \in Executions : \/ unfinished[e] \in {"started", "nodes"}
                                   \/ row[e].status = "running"}
        extensive == crashRecoveryMode = "extensive" /\ ~recoveryInProgress
    IN  /\ phase = "booting"
        /\ eventLog' = [current |-> silentLog, previous |-> eventLog.current]
        /\ recovery' = IF ids = {} THEN NoRecovery
                       ELSE [left |-> ids, messages |-> unfinished, amended |-> <<>>]
        /\ recoveryInProgress' = (recoveryInProgress \/ (ids # {} /\ extensive))
        /\ phase' = IF ids = {} THEN "starting"
                    ELSE IF extensive THEN "recovering" ELSE "marking"
        /\ UNCHANGED row

\* Simple mode, or the last recovery did not finish: all are crashed.
markAllAsCrashed ==
    /\ phase = "marking"
    /\ row' = [e \in Executions |-> IF e \in recovery.left THEN markAsCrashed(row[e])
                                                           ELSE row[e]]
    /\ recovery' = NoRecovery
    /\ recoveryInProgress' = FALSE
    /\ phase' = "starting"
    /\ UNCHANGED eventLog

\* amend() reads the row.  An execution that never came to its first node is left
\* alone, and so is one that finished; the others are crashed.  A node that
\* started and did not finish adds an error, unless the row holds its data.
\* Without messages (amendWithoutLogs) the row is marked before it is read.
amend(e) ==
    LET r == row[e]
        messages == recovery.messages[e]
        skipped == \/ messages = "started"
                   \/ messages = "nodes" /\ r.status \in {"none", "success", "error"}
    IN  /\ phase = "recovering"
        /\ recovery.amended = <<>> /\ e \in recovery.left
        /\ \E crashedNode \in BOOLEAN :
              /\ crashedNode => messages = "nodes" /\ ~skipped /\ r.status # "waiting"
              /\ recovery' = [recovery EXCEPT
                    !.left = @ \ {e},
                    !.amended = IF skipped THEN <<>> ELSE
                       <<e, [markAsCrashed(r) EXCEPT !.error = @ \/ crashedNode], "update">>]
        /\ row' = IF messages \in {"silent", "ended"}
                    THEN [row EXCEPT ![e] = markAsCrashed(r)] ELSE row
        /\ UNCHANGED <<phase, eventLog, recoveryInProgress>>

\* recoverFromLogs writes the amended row ...
recoverFromLogs ==
    /\ recovery.amended # <<>> /\ recovery.amended[3] = "update"
    /\ row' = [row EXCEPT ![recovery.amended[1]] = recovery.amended[2]]
    /\ recovery' = [recovery EXCEPT !.amended[3] = "hooks"]
    /\ UNCHANGED <<phase, eventLog, recoveryInProgress>>

\* ... and runs the workflowExecuteAfter hooks on it, which save it again.
runHooks ==
    /\ recovery.amended # <<>> /\ recovery.amended[3] = "hooks"
    /\ LET e == recovery.amended[1]
           run == recovery.amended[2]
       IN  row' = [row EXCEPT ![e] =
                     [status   |-> determineFinalExecutionStatus(run.status, run.waitTill),
                      waitTill |-> @.waitTill \/ run.waitTill,
                      error    |-> run.error]]
    /\ recovery' = [recovery EXCEPT !.amended = <<>>]
    /\ UNCHANGED <<phase, eventLog, recoveryInProgress>>

endRecoveryProcess ==
    /\ phase = "recovering"
    /\ recovery.left = {} /\ recovery.amended = <<>>
    /\ recovery' = NoRecovery
    /\ recoveryInProgress' = FALSE
    /\ phase' = "starting"
    /\ UNCHANGED <<row, eventLog>>

RecoveryStep ==
    \/ initialize \/ markAllAsCrashed
    \/ \E e \in Executions : amend(e)
    \/ recoverFromLogs \/ runHooks \/ endRecoveryProcess

=============================================================================
