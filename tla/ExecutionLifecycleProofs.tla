---------------------- MODULE ExecutionLifecycleProofs ----------------------
(***************************************************************************)
(* ExecutionLifecycle, proved for every set of executions, every           *)
(* configuration of the limits and every bound on calls and starts.        *)
(*                                                                         *)
(* The types come first.  On them rests the protocol: how the progress of  *)
(* a call, its throttle promise and the entry it registers go together,    *)
(* and with it the invariant of ConcurrencyControl for the whole process.  *)
(* Two more layers speak of one execution: that the capacity of one that   *)
(* does not wait is never lost, and that a row which says running is under *)
(* the care of someone who will write a later status.                      *)
(***************************************************************************)
EXTENDS ExecutionLifecycle, ConcurrencyControlProofs

Phases == {"booting", "recovering", "marking", "starting", "up", "stopping", "down"}

Logs == [current: [Executions -> Mentions], previous: [Executions -> Mentions]]

Recoveries == [left: SUBSET Executions, messages: [Executions -> Mentions],
               amended: {<<>>} \cup (Executions \X Rows \X {"update", "hooks"})]

Outcomes == {"none", "waiting", "success", "error"}

StopStates == {"none", "read", "before", "during", "done"}

\* The first layer: LifecycleTypeOK apart from the service's own types.
LifecycleTypes ==
    /\ phase \in Phases
    /\ boots \in 1..MaxBoots
    /\ row \in [Executions -> Rows]
    /\ eventLog \in Logs
    /\ recoveryInProgress \in BOOLEAN
    /\ recovery \in Recoveries
    /\ active \in [Executions -> Entries \cup {None}]
    /\ pc \in [Calls -> CallStates]
    /\ outcome \in [Calls -> Outcomes]
    /\ cancelled \in [Calls -> BOOLEAN]
    /\ cancelSave \in [Calls -> BOOLEAN]
    /\ armed \in [Calls -> BOOLEAN]
    /\ timer \in [Executions -> BOOLEAN]
    /\ stopper \in [Executions -> StopStates]

\* throttle() is called once, by a call that was created, and a call goes on only
\* when its promise is resolved.
SlotFollowsCall ==
    \A c \in Calls :
        /\ pc[c] \in {"idle", "created"} => slot[c] = "idle"
        /\ pc[c] = "throttling" => slot[c] \in {"queued", "held", "through", "removed"}
        /\ pc[c] = "stored" => slot[c] \in {"held", "through"}
        /\ slot[c] = "queued" => pc[c] = "throttling"

\* An entry was made by a call of its execution, and as long as its promise is
\* pending that call has not been released.
EntryHoldsSlot ==
    \A e \in Executions :
        active[e] # None =>
            /\ active[e].owner \in Calls
            /\ executionId(active[e].owner) = e
            /\ pc[active[e].owner] \notin {"idle", "created", "throttling", "stored"}
            /\ ~active[e].settled => slot[active[e].owner] \in {"held", "through"}

\* The second layer.
ProtocolInv ==
    /\ ConcurrencyInv
    /\ SlotFollowsCall
    /\ EntryHoldsSlot

\* The calls of an execution are used in order.
CallsInOrder ==
    \A e \in Executions : \A m, n \in 1..MaxRuns :
        m < n /\ pc[<<e, m>>] = "idle" => pc[<<e, n>>] = "idle"

\* Nothing makes execution e wait, so nothing resumes it.
NeverWaits(e) ==
    /\ ~row[e].waitTill
    /\ ~timer[e]
    /\ \A c \in callsOf(e) : outcome[c] # "waiting"
    /\ active[e] # None => active[e].status = "running" /\ ~active[e].settled
    /\ recovery.amended # <<>> /\ recovery.amended[1] = e => ~recovery.amended[2].waitTill

\* Before the process is up no call is under way for execution e; then one at most.
OneCallAtATime(e) ==
    /\ phase \notin {"up", "stopping"} => \A c \in callsOf(e) : pc[c] \in {"idle", "done"}
    /\ \A c, d \in callsOf(e) : pc[c] \notin {"idle", "done"} /\ pc[d] \notin {"idle", "done"} => c = d

\* The call that made the entry has not ended, and holds its slot through it.
CapacityIsKept(e) ==
    /\ active[e] # None => pc[active[e].owner] # "done"
    /\ \A c \in callsOf(e) :
          slot[c] = "held" => \/ pc[c] \in {"throttling", "stored"}
                              \/ active[e] # None /\ active[e].owner = c

\* The third layer, for requests that do not arrive before startup is over.
LeakInv ==
    /\ CallsInOrder
    /\ \A e \in Executions \ Waiters :
          NeverWaits(e) /\ OneCallAtATime(e) /\ CapacityIsKept(e)

\* What the signals of a call imply about its progress.
SignalsFollowCall ==
    \A c \in Calls :
        /\ armed[c] => pc[c] \in {"running", "saving", "saved"}
        /\ cancelSave[c] \/ cancelled[c] => pc[c] \in {"running", "saving", "saved", "done"}
        /\ pc[c] = "saving" => outcome[c] # "none"

\* Recovery in simple mode never amends.
SimpleRecovery ==
    /\ phase # "recovering" /\ ~recoveryInProgress
    /\ recovery.amended = <<>>

\* The first call of execution e, until its permission check.
early(e) == pc[<<e, 1>>] \in {"created", "throttling", "stored", "registered"}

\* Until then the execution has no other call and no reason for one, and only a
\* stop can have removed its entry.
FirstCallAlone(e) ==
    /\ phase \notin {"up", "stopping"} => ~early(e)
    /\ pc[<<e, 1>>] = "idle" => row[e].status \in {"none", "crashed"} /\ stopper[e] = "none"
    /\ early(e) \/ pc[<<e, 1>>] = "idle" =>
          /\ \A c \in callsOf(e) : c # <<e, 1>> => pc[c] = "idle"
          /\ ~row[e].waitTill /\ ~timer[e]
          /\ active[e] # None => /\ pc[<<e, 1>>] = "registered"
                                 /\ active[e].status = "running" /\ ~active[e].response
    /\ pc[<<e, 1>>] = "registered" /\ active[e] = None =>
          stopper[e] = "during" \/ row[e].status # "running"

\* A call that will write the row, or whose cancellation will.
willWrite(c) ==
    \/ pc[c] \in {"stored", "registered", "starting", "saving"}
    \/ pc[c] = "running" /\ ~cancelled[c]
    \/ cancelSave[c]

caredFor(e) ==
    \/ stopper[e] \in {"before", "during"}
    \/ \E c \in callsOf(e) : willWrite(c)

\* A row that says running was found by the recovery pass or is cared for.
RunningIsCaredFor(e) ==
    row[e].status = "running" =>
        \/ phase \in {"down", "booting"}
        \/ phase = "marking" /\ e \in recovery.left
        \/ caredFor(e)

\* The fourth layer, for requests that do not arrive before startup is over and
\* recovery in simple mode.
RunningInv ==
    /\ CallsInOrder
    /\ SignalsFollowCall
    /\ SimpleRecovery
    /\ \A e \in Executions : FirstCallAlone(e) /\ RunningIsCaredFor(e)

-----------------------------------------------------------------------------
(* Types                                                                   *)

\* The writes of ExecutionRepository make rows of rows.
LEMMA RowWrites ==
    ASSUME NEW r \in Rows
    PROVE  /\ setRunning(r) \in Rows
           /\ resumeRow(r) \in Rows
           /\ stopBeforeRun(r) \in Rows
           /\ stopDuringRun(r) \in Rows
           /\ markAsCrashed(r) \in Rows
           /\ [r EXCEPT !.status = "new"] \in Rows
           /\ \A s \in Outcomes \cup {"canceled"} : saveRow(r, s) \in Rows
BY DEF Rows, Statuses, setRunning, resumeRow, stopBeforeRun, stopDuringRun,
       markAsCrashed, saveRow, determineFinalExecutionStatus, Outcomes

\* What the relay writes is a log.
LEMMA LogWrites ==
    ASSUME eventLog \in Logs, NEW S, NEW m \in Mentions
    PROVE  logged(S, m) \in Logs
BY DEF Logs, logged

\* A field of an entry is set.
LEMMA EntryWrites ==
    ASSUME NEW entry \in Entries
    PROVE  /\ [entry EXCEPT !.settled = TRUE] \in Entries
           /\ [entry EXCEPT !.response = TRUE] \in Entries
           /\ [entry EXCEPT !.status = "waiting"] \in Entries
           /\ \A c \in Calls : [entry EXCEPT !.engine = c] \in Entries
           /\ entry.owner \in Calls /\ entry.engine \in Calls \cup {<<>>}
           /\ entry.status \in {"running", "waiting"}
           /\ entry.response \in BOOLEAN /\ entry.settled \in BOOLEAN
BY DEF Entries

LEMMA CallHasExecution ==
    ASSUME NEW c \in Calls
    PROVE  executionId(c) \in Executions
BY DEF Calls, executionId

\* The .finally of an entry keeps the entries' types.
LEMMA SettleTypes ==
    ASSUME active \in [Executions -> Entries \cup {None}], NEW e \in Executions,
           active[e] # None, settle(e)
    PROVE  active' \in [Executions -> Entries \cup {None}]
<1>1. active[e] \in Entries
  OBVIOUS
<1>2. CASE active[e].settled
  BY <1>2 DEF settle
<1>3. CASE ~active[e].settled
  <2>1. active' = [active EXCEPT ![e] =
                     IF active[e].status = "waiting" THEN [active[e] EXCEPT !.settled = TRUE]
                                                     ELSE None]
    BY <1>3 DEF settle
  <2> QED  BY <1>1, <2>1, EntryWrites
<1> QED  BY <1>2, <1>3

LEMMA FinalizeTypes ==
    ASSUME active \in [Executions -> Entries \cup {None}], NEW e \in Executions,
           finalizeExecution(e)
    PROVE  active' \in [Executions -> Entries \cup {None}]
BY SettleTypes DEF finalizeExecution, hasEntry

\* Engines are cancelled.
LEMMA CancelTypes ==
    ASSUME LifecycleTypes, NEW C, cancelEngines(C)
    PROVE  /\ cancelled' \in [Calls -> BOOLEAN]
           /\ cancelSave' \in [Calls -> BOOLEAN]
           /\ eventLog' \in Logs
<1>1. "ended" \in Mentions /\ eventLog \in Logs
  BY DEF Mentions, LifecycleTypes
<1>2. eventLog' \in Logs
  BY <1>1, LogWrites DEF cancelEngines
<1> QED  BY <1>2 DEF cancelEngines, LifecycleTypes

LEMMA StopTypes ==
    ASSUME LifecycleTypes, NEW e \in Executions, stopExecution(e)
    PROVE  /\ active' \in [Executions -> Entries \cup {None}]
           /\ cancelled' \in [Calls -> BOOLEAN]
           /\ cancelSave' \in [Calls -> BOOLEAN]
           /\ eventLog' \in Logs
<1>1. active \in [Executions -> Entries \cup {None}]
  BY DEF LifecycleTypes
<1>2. CASE active[e] = None
  BY <1>2 DEF stopExecution, hasEntry, LifecycleTypes
<1>3. CASE active[e] # None /\ active[e].status = "waiting"
  BY <1>1, <1>3 DEF stopExecution, hasEntry, LifecycleTypes
<1>4. CASE active[e] # None /\ active[e].status # "waiting"
  <2>1. cancelEngines({active[e].engine} \ {<<>>}) /\ settle(e)
    BY <1>4 DEF stopExecution, hasEntry
  <2> QED  BY <1>1, <1>4, <2>1, SettleTypes, CancelTypes
<1> QED  BY <1>2, <1>3, <1>4

\* One step of MessageEventBus.initialize keeps the types of what it touches.
LEMMA RecoveryTypes ==
    ASSUME LifecycleTypes, RecoveryStep
    PROVE  /\ phase' \in Phases
           /\ row' \in [Executions -> Rows]
           /\ eventLog' \in Logs
           /\ recoveryInProgress' \in BOOLEAN
           /\ recovery' \in Recoveries
<1>1. /\ row \in [Executions -> Rows]
      /\ recovery \in Recoveries
      /\ eventLog \in Logs
      /\ phase \in Phases
      /\ recoveryInProgress \in BOOLEAN
  BY DEF LifecycleTypes
<1>2. silentLog \in [Executions -> Mentions] /\ NoRecovery \in Recoveries
  BY DEF silentLog, Mentions, NoRecovery, Recoveries
<1>3. unfinished \in [Executions -> Mentions]
  BY <1>1 DEF unfinished, Logs
<1>4. CASE initialize
  <2> DEFINE ids == {e \in Executions : \/ unfinished[e] \in {"started", "nodes"}
                                        \/ row[e].status = "running"}
  <2>1. eventLog' \in Logs /\ phase' \in Phases /\ UNCHANGED row
    BY <1>1, <1>2, <1>4 DEF initialize, Logs, Phases
  <2>2. recovery' = NoRecovery \/ recovery' = [left |-> ids, messages |-> unfinished, amended |-> <<>>]
    BY <1>4 DEF initialize
  <2>3. ids \in SUBSET Executions
    OBVIOUS
  <2> HIDE DEF ids
  <2>4. recovery' \in Recoveries
    BY <1>2, <1>3, <2>2, <2>3 DEF Recoveries
  <2>5. recoveryInProgress' \in BOOLEAN
    BY <1>1, <1>4, Zenon DEF initialize
  <2> QED  BY <1>1, <2>1, <2>4, <2>5
<1>5. CASE markAllAsCrashed
  <2>1. row' \in [Executions -> Rows]
    BY <1>1, <1>5, RowWrites DEF markAllAsCrashed
  <2> QED  BY <1>1, <1>2, <1>5, <2>1 DEF markAllAsCrashed, Phases
<1>6. ASSUME NEW e \in Executions, amend(e)
      PROVE  /\ row' \in [Executions -> Rows]
             /\ recovery' \in Recoveries
             /\ UNCHANGED <<phase, eventLog, recoveryInProgress>>
  <2> DEFINE amended(b) == [markAsCrashed(row[e]) EXCEPT !.error = @ \/ b]
  <2>1. markAsCrashed(row[e]) \in Rows
    BY <1>1, RowWrites
  <2>2. \A b \in BOOLEAN : amended(b) \in Rows
    BY <2>1 DEF Rows
  <2>3. row' \in [Executions -> Rows] /\ UNCHANGED <<phase, eventLog, recoveryInProgress>>
    BY <1>1, <1>6, <2>1 DEF amend
  <2>4. PICK b \in BOOLEAN :
           \/ recovery' = [recovery EXCEPT !.left = @ \ {e}, !.amended = <<>>]
           \/ recovery' = [recovery EXCEPT !.left = @ \ {e},
                                           !.amended = <<e, amended(b), "update">>]
    BY <1>6 DEF amend
  <2>5. <<e, amended(b), "update">> \in Executions \X Rows \X {"update", "hooks"}
    BY <2>2
  <2> HIDE DEF amended
  <2>6. recovery' \in Recoveries
    BY <1>1, <2>4, <2>5 DEF Recoveries
  <2> QED  BY <2>3, <2>6
<1>7. ASSUME recovery.amended # <<>>
      PROVE  \E e \in Executions : \E r \in Rows : \E n \in {"update", "hooks"} :
                recovery.amended = <<e, r, n>>
  BY <1>1, <1>7 DEF Recoveries
<1>8. CASE recoverFromLogs
  <2>1. PICK e \in Executions, r \in Rows, n \in {"update", "hooks"} :
           recovery.amended = <<e, r, n>>
    BY <1>7, <1>8 DEF recoverFromLogs
  <2>2. row' = [row EXCEPT ![e] = r] /\ UNCHANGED <<phase, eventLog, recoveryInProgress>>
    BY <1>8, <2>1 DEF recoverFromLogs
  <2>3. recovery' = [recovery EXCEPT !.amended = [<<e, r, n>> EXCEPT ![3] = "hooks"]]
    BY <1>8, <2>1 DEF recoverFromLogs
  <2>4. [<<e, r, n>> EXCEPT ![3] = "hooks"] = <<e, r, "hooks">>
    OBVIOUS
  <2>5. <<e, r, "hooks">> \in Executions \X Rows \X {"update", "hooks"}
    OBVIOUS
  <2>6. recovery' \in Recoveries
    BY <1>1, <2>3, <2>4, <2>5 DEF Recoveries
  <2> QED  BY <1>1, <2>2, <2>6
<1>9. CASE runHooks
  <2>1. PICK e \in Executions, r \in Rows, n \in {"update", "hooks"} :
           recovery.amended = <<e, r, n>>
    BY <1>7, <1>9 DEF runHooks
  <2> DEFINE new == [status   |-> determineFinalExecutionStatus(r.status, r.waitTill),
                     waitTill |-> row[e].waitTill \/ r.waitTill,
                     error    |-> r.error]
  <2>2. row' = [row EXCEPT ![e] = new]
    BY <1>9, <2>1 DEF runHooks
  <2>3. new \in Rows
    BY <1>1 DEF Rows, Statuses, determineFinalExecutionStatus
  <2> HIDE DEF new
  <2>4. recovery' = [recovery EXCEPT !.amended = <<>>]
        /\ UNCHANGED <<phase, eventLog, recoveryInProgress>>
    BY <1>9 DEF runHooks
  <2>5. recovery' \in Recoveries
    BY <1>1, <2>4 DEF Recoveries
  <2> QED  BY <1>1, <2>2, <2>3, <2>4, <2>5
<1>10. CASE endRecoveryProcess
  BY <1>1, <1>2, <1>10 DEF endRecoveryProcess, Phases
<1> QED
  BY <1>1, <1>4, <1>5, <1>6, <1>8, <1>9, <1>10 DEF RecoveryStep

\* The types of the calls' states, message by message.
LEMMA Memberships ==
    /\ {"ended", "started", "nodes", "silent"} = Mentions
    /\ {"idle", "created", "throttling", "stored", "registered", "failed",
        "starting", "running", "saving", "saved", "done"} = CallStates
    /\ {"none", "waiting", "success", "error"} = Outcomes
    /\ {"none", "read", "before", "during", "done"} = StopStates
BY DEF Mentions, CallStates, Outcomes, StopStates

\* Steps that start or resume an execution.
LEMMA StartTypes ==
    ASSUME LifecycleTypes,
           \/ \E e \in Executions : Create(e) \/ getWaitingExecutions(e)
           \/ \E c \in Calls : startExecution(c) \/ executeWebhook(c)
           \/ runEnqueuedExecutions
    PROVE  LifecycleTypes'
<1> USE CallHasExecution, Memberships
<1>1. ASSUME NEW e \in Executions, Create(e)
      PROVE  LifecycleTypes'
  <2>1. row' \in [Executions -> Rows]
    BY <1>1, RowWrites DEF LifecycleTypes, Create
  <2> QED  BY <1>1, <2>1 DEF LifecycleTypes, Create, processVars
<1>2. ASSUME NEW e \in Executions, getWaitingExecutions(e)
      PROVE  LifecycleTypes'
  BY <1>2 DEF LifecycleTypes, getWaitingExecutions, processVars, callVars
<1>3. ASSUME NEW c \in Calls, startExecution(c)
      PROVE  LifecycleTypes'
  BY <1>3 DEF LifecycleTypes, startExecution, processVars
<1>4. ASSUME NEW c \in Calls, executeWebhook(c)
      PROVE  LifecycleTypes'
  BY <1>4 DEF LifecycleTypes, executeWebhook, processVars
<1>5. CASE runEnqueuedExecutions
  <2>1. "ended" \in Mentions /\ eventLog \in Logs
    BY DEF LifecycleTypes
  <2>2. eventLog' \in Logs
    BY <1>5, <2>1, LogWrites DEF runEnqueuedExecutions
  <2>3. pc' \in [Calls -> CallStates]
    BY <1>5 DEF LifecycleTypes, runEnqueuedExecutions
  <2> QED  BY <1>5, <2>2, <2>3 DEF LifecycleTypes, runEnqueuedExecutions, Phases
<1> QED  BY <1>1, <1>2, <1>3, <1>4, <1>5

\* Steps of a call.
LEMMA CallTypes ==
    ASSUME LifecycleTypes, NEW c \in Calls,
           \/ CallStep(c) \/ CheckFails(c)
           \/ nodeExecuteBefore(c) \/ putExecutionToWait(c)
           \/ CancelSave(c) \/ ExecutionTimeout(c)
    PROVE  LifecycleTypes'
<1> DEFINE e == executionId(c)
<1> USE Memberships
<1>0. /\ e \in Executions
      /\ eventLog \in Logs
      /\ row[e] \in Rows
      /\ active[e] # None => active[e] \in Entries
      /\ outcome[c] \in Outcomes
  BY CallHasExecution DEF LifecycleTypes
<1>1. \A S : \A m \in Mentions : logged(S, m) \in Logs
  BY <1>0, LogWrites
<1>2. CASE AddThrottle(c)
  BY <1>0, <1>1, <1>2 DEF LifecycleTypes, AddThrottle, processVars
<1>3. CASE AddStore(c)
  <2>1. row' \in [Executions -> Rows]
    BY <1>0, <1>3, RowWrites DEF LifecycleTypes, AddStore
  <2> QED  BY <1>3, <2>1 DEF LifecycleTypes, AddStore, processVars
<1>4. CASE AddRegister(c)
  <2> DEFINE new == [owner |-> c, status |-> "running", engine |-> <<>>,
                     response |-> hasEntry(e) /\ active[e].response, settled |-> FALSE]
  <2>1. new \in Entries
    BY <1>0 DEF Entries, hasEntry
  <2>2. active' = [active EXCEPT ![e] = new]
    BY <1>4 DEF AddRegister
  <2> HIDE DEF new
  <2>3. active' \in [Executions -> Entries \cup {None}]
    BY <1>0, <2>1, <2>2 DEF LifecycleTypes
  <2> QED  BY <1>4, <2>3 DEF LifecycleTypes, AddRegister, processVars
<1>5. CASE CheckFails(c)
  <2>1. row' \in [Executions -> Rows]
    BY <1>0, <1>5, RowWrites DEF LifecycleTypes, CheckFails
  <2> QED  BY <1>1, <1>5, <2>1 DEF LifecycleTypes, CheckFails, processVars
<1>6. CASE FailedFinalize(c)
  <2>1. active' \in [Executions -> Entries \cup {None}]
    BY <1>0, <1>6, FinalizeTypes DEF LifecycleTypes, FailedFinalize
  <2> QED  BY <1>6, <2>1 DEF LifecycleTypes, FailedFinalize, processVars
<1>7. CASE CheckPasses(c)
  <2>1. row' \in [Executions -> Rows]
    BY <1>0, <1>7, RowWrites DEF LifecycleTypes, CheckPasses
  <2>2. active' \in [Executions -> Entries \cup {None}]
    BY <1>0, <1>7, EntryWrites DEF LifecycleTypes, CheckPasses, hasEntry
  <2>3. pc' \in [Calls -> CallStates]
    BY <1>7 DEF LifecycleTypes, CheckPasses
  <2> QED  BY <1>7, <2>1, <2>2, <2>3 DEF LifecycleTypes, CheckPasses, processVars
<1>8. CASE StartEngine(c)
  <2>1. active' \in [Executions -> Entries \cup {None}]
    BY <1>0, <1>8, EntryWrites DEF LifecycleTypes, StartEngine, hasEntry
  <2>2. armed' \in [Calls -> BOOLEAN]
    BY <1>8 DEF LifecycleTypes, StartEngine, hasEntry
  <2>3. pc' \in [Calls -> CallStates] /\ eventLog' \in Logs
    BY <1>0, <1>1, <1>8 DEF LifecycleTypes, StartEngine
  <2> QED  BY <1>8, <2>1, <2>2, <2>3 DEF LifecycleTypes, StartEngine, processVars
<1>9. CASE EngineEnds(c)
  BY <1>0, <1>9 DEF LifecycleTypes, EngineEnds, processVars
<1>10. CASE SaveResult(c)
  <2>1. row' \in [Executions -> Rows]
    BY <1>0, <1>10, RowWrites DEF LifecycleTypes, SaveResult
  <2> QED  BY <1>0, <1>1, <1>10, <2>1 DEF LifecycleTypes, SaveResult, processVars
<1>11. CASE Finalize(c)
  <2>1. active' \in [Executions -> Entries \cup {None}]
    BY <1>0, <1>11, FinalizeTypes DEF LifecycleTypes, Finalize
  <2> QED  BY <1>11, <2>1 DEF LifecycleTypes, Finalize, processVars
<1>12. CASE nodeExecuteBefore(c)
  BY <1>1, <1>12 DEF LifecycleTypes, nodeExecuteBefore, processVars, callVars
<1>13. CASE putExecutionToWait(c)
  <2>1. active' \in [Executions -> Entries \cup {None}]
    BY <1>0, <1>13, EntryWrites DEF LifecycleTypes, putExecutionToWait, hasEntry
  <2>2. outcome' \in [Calls -> Outcomes]
    BY <1>13 DEF LifecycleTypes, putExecutionToWait
  <2> QED  BY <1>1, <1>13, <2>1, <2>2 DEF LifecycleTypes, putExecutionToWait, processVars
<1>14. CASE CancelSave(c)
  <2>1. row' \in [Executions -> Rows]
    BY <1>0, <1>14, RowWrites DEF LifecycleTypes, CancelSave
  <2> QED  BY <1>14, <2>1 DEF LifecycleTypes, CancelSave, processVars
<1>15. CASE ExecutionTimeout(c)
  <2>1. /\ active' \in [Executions -> Entries \cup {None}]
        /\ cancelled' \in [Calls -> BOOLEAN]
        /\ cancelSave' \in [Calls -> BOOLEAN]
        /\ eventLog' \in Logs
    BY <1>0, <1>15, StopTypes DEF ExecutionTimeout
  <2> QED  BY <1>15, <2>1 DEF LifecycleTypes, ExecutionTimeout, processVars
<1> QED
  BY <1>2, <1>3, <1>4, <1>5, <1>6, <1>7, <1>8, <1>9, <1>10, <1>11, <1>12, <1>13, <1>14,
     <1>15 DEF CallStep

\* Steps of a stop request and of the process.
LEMMA StopStepTypes ==
    ASSUME LifecycleTypes, NEW e \in Executions, StopRead(e) \/ StopAct(e) \/ StopWrite(e)
    PROVE  LifecycleTypes'
<1> USE Memberships
<1>1. CASE StopRead(e)
  BY <1>1 DEF LifecycleTypes, StopRead, processVars, callVars
<1>2. CASE StopAct(e)
  <2>1. CASE UNCHANGED <<active, cancelled, cancelSave, eventLog, timer>>
             /\ stopper' = [stopper EXCEPT ![e] = "before"]
    BY <1>2, <2>1 DEF LifecycleTypes, StopAct, processVars
  <2>2. CASE /\ stopExecution(e)
             /\ timer' = [timer EXCEPT ![e] = FALSE]
             /\ stopper' = [stopper EXCEPT ![e] = "during"]
    <3>1. /\ active' \in [Executions -> Entries \cup {None}]
          /\ cancelled' \in [Calls -> BOOLEAN]
          /\ cancelSave' \in [Calls -> BOOLEAN]
          /\ eventLog' \in Logs
      BY <2>2, StopTypes
    <3> QED  BY <1>2, <2>2, <3>1 DEF LifecycleTypes, StopAct, processVars
  <2> QED  BY <1>2, <2>1, <2>2 DEF StopAct
<1>3. CASE StopWrite(e)
  <2>1. row' \in [Executions -> Rows]
    BY <1>3, RowWrites DEF LifecycleTypes, StopWrite
  <2> QED  BY <1>3, <2>1 DEF LifecycleTypes, StopWrite, processVars, callVars
<1> QED  BY <1>1, <1>2, <1>3

LEMMA MemoryLostTypes ==
    ASSUME LifecycleTypes, memoryLost
    PROVE  LifecycleTypes'
<1>1. NoRecovery \in Recoveries
  BY DEF silentLog, Mentions, NoRecovery, Recoveries
<1>2. stopper' \in [Executions -> StopStates] /\ pc' \in [Calls -> CallStates]
  BY Memberships DEF LifecycleTypes, memoryLost
<1> QED  BY <1>1, <1>2 DEF LifecycleTypes, memoryLost, Phases

LEMMA ProcessTypes ==
    ASSUME LifecycleTypes, Recover \/ shutdown \/ Exit \/ forceShutdown \/ Crash \/ Restart
    PROVE  LifecycleTypes'
<1>1. CASE Recover
  <2>1. /\ phase' \in Phases
        /\ row' \in [Executions -> Rows]
        /\ eventLog' \in Logs
        /\ recoveryInProgress' \in BOOLEAN
        /\ recovery' \in Recoveries
    BY <1>1, RecoveryTypes DEF Recover
  <2> QED  BY <1>1, <2>1 DEF LifecycleTypes, Recover, callVars
<1>2. CASE shutdown
  <2>1. /\ cancelled' \in [Calls -> BOOLEAN]
        /\ cancelSave' \in [Calls -> BOOLEAN]
        /\ eventLog' \in Logs
    BY <1>2, CancelTypes DEF shutdown
  <2>2. active' \in [Executions -> Entries \cup {None}]
    BY <1>2 DEF LifecycleTypes, shutdown
  <2> QED  BY <1>2, <2>1, <2>2 DEF LifecycleTypes, shutdown, Phases
<1>3. CASE Exit \/ forceShutdown \/ Crash
  BY <1>3, MemoryLostTypes DEF Exit, forceShutdown, Crash
<1>4. CASE Restart
  BY <1>4, LifecycleAssumption DEF LifecycleTypes, Restart, busVars, callVars, Phases
<1> QED  BY <1>1, <1>2, <1>3, <1>4

LEMMA LifecycleTypesStep ==
    LifecycleTypes /\ [LifecycleNext]_vars => LifecycleTypes'
<1>1. ASSUME LifecycleTypes, UNCHANGED vars
      PROVE  LifecycleTypes'
  BY <1>1 DEF LifecycleTypes, vars, processVars, callVars
<1> QED
  BY <1>1, StartTypes, CallTypes, StopStepTypes, ProcessTypes DEF LifecycleNext

LEMMA LifecycleTypesInit == Init => LifecycleTypes
<1>1. silentLog \in [Executions -> Mentions] /\ NoRow \in Rows
  BY DEF silentLog, Mentions, NoRow, Rows, Statuses
<1>2. NoRecovery \in Recoveries
  BY <1>1 DEF NoRecovery, Recoveries
<1> SUFFICES ASSUME Init
             PROVE  LifecycleTypes
  OBVIOUS
<1>3. /\ phase \in Phases
      /\ eventLog \in Logs
      /\ recoveryInProgress \in BOOLEAN /\ recovery \in Recoveries
  BY <1>1, <1>2 DEF Init, RecoveryInit, Phases, Logs
<1>6. boots \in 1..MaxBoots
  BY LifecycleAssumption DEF Init
<1>4. /\ row \in [Executions -> Rows]
      /\ active \in [Executions -> Entries \cup {None}]
      /\ pc \in [Calls -> CallStates]
      /\ outcome \in [Calls -> Outcomes]
  BY <1>1, Memberships DEF Init, RecoveryInit
<1>5. /\ cancelled \in [Calls -> BOOLEAN]
      /\ cancelSave \in [Calls -> BOOLEAN]
      /\ armed \in [Calls -> BOOLEAN]
      /\ timer \in [Executions -> BOOLEAN]
      /\ stopper \in [Executions -> StopStates]
  BY Memberships DEF Init
<1> QED  BY <1>3, <1>4, <1>5, <1>6 DEF LifecycleTypes

\* The types of everything but the service hold throughout.
THEOREM LifecycleTypesInvariant == LifecycleSpec => []LifecycleTypes
BY LifecycleTypesInit, LifecycleTypesStep, PTL DEF LifecycleSpec

-----------------------------------------------------------------------------
(* What the service's methods do to the promises                           *)

\* throttle() settles the promise of its call or queues it.
LEMMA ThrottleEffect ==
    ASSUME ConcurrencyInv, NEW c \in Calls, throttle(c)
    PROVE  /\ slot'[c] \in {"queued", "held", "through"}
           /\ \A d \in Calls \ {c} : slot'[d] = slot[d]
<1>1. slot \in [Calls -> SlotStates]
  BY DEF ConcurrencyInv, TypeOK
<1>2. \/ slot' = [slot EXCEPT ![c] = "through"]
      \/ slot' = [slot EXCEPT ![c] = "queued"]
      \/ slot' = [slot EXCEPT ![c] = "held"]
  BY DEF throttle, enqueue
<1> QED  BY <1>1, <1>2

\* The first call of a non-empty queue is queued.
LEMMA HeadIsQueued ==
    ASSUME NEW s \in [Calls -> SlotStates], NEW t, NEW q \in Seq(Calls), Matches(q, s, t),
           q # <<>>
    PROVE  q[1] \in Calls /\ s[q[1]] = "queued"
<1>1. 1 \in 1..Len(q)
  BY LenProperties, EmptySeq
<1>2. q[1] \in Calls
  BY <1>1, ElementOfSeq
<1> QED  BY <1>1, <1>2 DEF Matches

\* release() may let one queued call through.
LEMMA ReleaseEffect ==
    ASSUME ConcurrencyInv, NEW c \in Calls, Release(c)
    PROVE  /\ slot'[c] = "released"
           /\ \A d \in Calls \ {c} :
                 slot'[d] = slot[d] \/ (slot[d] = "queued" /\ slot'[d] = "held")
<1>1. /\ slot \in [Calls -> SlotStates] /\ TypeOK
      /\ \A t \in queues : Matches(queue[t], slot, t)
  BY InvByQueue DEF TypeOK
<1>2. CASE ~isEnabled \/ isUnlimited(c)
  BY <1>1, <1>2 DEF Release, release
<1>3. CASE isEnabled /\ ~isUnlimited(c)
  <2> DEFINE t == getQueue(c)
             s == [slot EXCEPT ![c] = "released"]
  <2>1. t \in queues /\ resolveNext(t, queue[t], s)
    BY <1>3, LimitedHasQueue DEF Release, release, dequeue
  <2>2. /\ s \in [Calls -> SlotStates] /\ queue[t] \in Seq(Calls)
        /\ s[c] = "released" /\ \A d \in Calls \ {c} : s[d] = slot[d]
    BY <1>1, <2>1 DEF TypeOK, SlotStates
  <2>3. slot[c] # "queued" /\ Matches(queue[t], slot, t)
    BY <1>1, <2>1 DEF Release
  <2> HIDE DEF s, t
  <2>4. \A d \in Calls : slot'[d] # s[d] => /\ queue[t] # <<>>
                                           /\ d = queue[t][1]
                                           /\ slot'[d] = "held"
    BY <2>1, <2>2, ResolveNextTakesHead
  <2>5. queue[t] # <<>> => slot[queue[t][1]] = "queued"
    BY <1>1, <2>2, <2>3, HeadIsQueued
  <2> QED  BY <2>2, <2>3, <2>4, <2>5
<1> QED  BY <1>2, <1>3

\* remove() takes one call out of the queue and may let another through.
LEMMA RemoveEffect ==
    ASSUME ConcurrencyInv, NEW e \in Executions, remove(e)
    PROVE  \A d \in Calls :
              slot'[d] = slot[d] \/ (slot[d] = "queued" /\ slot'[d] \in {"held", "removed"})
<1> DEFINE t == getQueue(<<e, 1>>)
<1>0. /\ TypeOK
      /\ \A u \in queues : Matches(queue[u], slot, u)
      /\ slot \in [Calls -> SlotStates]
  BY InvByQueue DEF TypeOK
<1>1. t \in queues
  BY RemoveSelectsQueue
<1>2. PICK index \in 1..Len(queue[t]) : removeFromQueue(t, index)
  BY DEF remove, findIndex
<1> HIDE DEF t
<1> DEFINE c == queue[t][index]
           q == RemoveAt(queue[t], index)
           s == [slot EXCEPT ![c] = "removed"]
<1>3. queue[t] \in Seq(Calls) /\ c \in Calls
  BY <1>0, <1>1, ElementOfSeq DEF TypeOK
<1>4. IsRemoval(Calls, queue[t], index, q)
  BY <1>3, RemoveAtIsRemoval
<1>5. slot[c] = "queued"
  BY <1>0, <1>1, <1>3 DEF Matches
<1>6. /\ s \in [Calls -> SlotStates] /\ q \in Seq(Calls)
      /\ s[c] = "removed" /\ \A d \in Calls \ {c} : s[d] = slot[d]
  BY <1>0, <1>3, <1>4 DEF SlotStates, IsRemoval
<1>7. Matches(q, s, t)
  <2>1. "removed" # "queued" /\ Matches(queue[t], slot, t)
    BY <1>0, <1>1
  <2> QED  BY <1>0, <1>3, <1>4, <2>1, MatchesRemoval, Zenon
<1>8. resolveNext(t, q, s)
  BY <1>2 DEF removeFromQueue
<1> HIDE DEF s, q, c
<1>9. \A d \in Calls : slot'[d] # s[d] => q # <<>> /\ d = q[1] /\ slot'[d] = "held"
  BY <1>6, <1>8, ResolveNextTakesHead
<1>10. q # <<>> => s[q[1]] = "queued"
  BY <1>6, <1>7, HeadIsQueued
<1> QED  BY <1>5, <1>6, <1>9, <1>10

-----------------------------------------------------------------------------
(* The protocol between calls, promises and entries                        *)

\* The call has not registered its entry yet.
Before == {"idle", "created", "throttling", "stored"}

\* What most steps do: calls that have registered go on, queued calls are let
\* through or removed, registered calls are released, entries are dropped or keep
\* their owner.
LEMMA ProtocolKept ==
    ASSUME LifecycleTypes, LifecycleTypes', ProtocolInv, ConcurrencyInv',
           \A c \in Calls : pc'[c] = pc[c] \/ (pc[c] \notin Before /\ pc'[c] \notin Before),
           \A c \in Calls : \/ slot'[c] = slot[c]
                            \/ slot[c] = "queued" /\ slot'[c] \in {"held", "removed"}
                            \/ slot'[c] = "released" /\ slot[c] # "queued" /\ pc[c] \notin Before,
           \A e \in Executions :
              active'[e] # None =>
                 /\ active[e] # None /\ active'[e].owner = active[e].owner
                 /\ ~active'[e].settled => /\ ~active[e].settled
                                           /\ slot'[active[e].owner] = slot[active[e].owner]
    PROVE  ProtocolInv'
<1>1. SlotFollowsCall'
  <2> SUFFICES ASSUME NEW c \in Calls
               PROVE  /\ pc'[c] \in {"idle", "created"} => slot'[c] = "idle"
                      /\ pc'[c] = "throttling" => slot'[c] \in {"queued", "held", "through", "removed"}
                      /\ pc'[c] = "stored" => slot'[c] \in {"held", "through"}
                      /\ slot'[c] = "queued" => pc'[c] = "throttling"
    BY DEF SlotFollowsCall
  <2>1. /\ pc[c] \in {"idle", "created"} => slot[c] = "idle"
        /\ pc[c] = "throttling" => slot[c] \in {"queued", "held", "through", "removed"}
        /\ pc[c] = "stored" => slot[c] \in {"held", "through"}
        /\ slot[c] = "queued" => pc[c] = "throttling"
    BY DEF ProtocolInv, SlotFollowsCall
  <2> QED  BY <2>1 DEF Before
<1>2. EntryHoldsSlot'
  <2> SUFFICES ASSUME NEW e \in Executions, active'[e] # None
               PROVE  /\ active'[e].owner \in Calls
                      /\ executionId(active'[e].owner) = e
                      /\ pc'[active'[e].owner] \notin Before
                      /\ ~active'[e].settled => slot'[active'[e].owner] \in {"held", "through"}
    BY DEF EntryHoldsSlot, Before
  <2>1. /\ active[e].owner \in Calls
        /\ executionId(active[e].owner) = e
        /\ pc[active[e].owner] \notin Before
        /\ ~active[e].settled => slot[active[e].owner] \in {"held", "through"}
    BY DEF ProtocolInv, EntryHoldsSlot, Before
  <2> QED  BY <2>1
<1> QED  BY <1>1, <1>2 DEF ProtocolInv

\* A step that leaves the service alone.
LEMMA ServiceAlone ==
    ASSUME ConcurrencyInv, UNCHANGED concurrencyVars
    PROVE  ConcurrencyInv' /\ \A c \in Calls : slot'[c] = slot[c]
BY ConcurrencyStep DEF concurrencyVars

\* The .finally of an entry releases the call that made it, once.
LEMMA SettleReleases ==
    ASSUME LifecycleTypes, ProtocolInv, NEW e \in Executions, active[e] # None, settle(e)
    PROVE  /\ [Next]_concurrencyVars
           /\ ConcurrencyInv'
           /\ \A c \in Calls : \/ slot'[c] = slot[c]
                               \/ slot[c] = "queued" /\ slot'[c] = "held"
                               \/ /\ slot'[c] = "released" /\ slot[c] # "queued"
                                  /\ c = active[e].owner /\ ~active[e].settled
           /\ \A f \in Executions :
                 active'[f] # None =>
                    /\ active[f] # None /\ active'[f].owner = active[f].owner
                    /\ f = e => active'[e].settled
                    /\ f # e => active'[f] = active[f]
<1>1. active \in [Executions -> Entries \cup {None}] /\ ConcurrencyInv
  BY DEF LifecycleTypes, ProtocolInv
<1>2. CASE active[e].settled
  <2>1. UNCHANGED concurrencyVars /\ active' = active
    BY <1>2 DEF settle
  <2> QED  BY <1>1, <1>2, <2>1, ServiceAlone
<1>3. CASE ~active[e].settled
  <2> DEFINE c == active[e].owner
  <2>1. c \in Calls /\ slot[c] \in {"held", "through"}
    BY <1>3 DEF ProtocolInv, EntryHoldsSlot
  <2>2. Release(c)
    BY <1>3, <2>1 DEF settle, Release
  <2>3. /\ slot'[c] = "released"
        /\ \A d \in Calls \ {c} :
              slot'[d] = slot[d] \/ (slot[d] = "queued" /\ slot'[d] = "held")
    BY <1>1, <2>1, <2>2, ReleaseEffect
  <2>4. Next /\ ConcurrencyInv'
    BY <1>1, <2>1, <2>2, ConcurrencyStep DEF Next
  <2>5. active' = [active EXCEPT ![e] =
                     IF active[e].status = "waiting" THEN [active[e] EXCEPT !.settled = TRUE]
                                                     ELSE None]
    BY <1>3 DEF settle
  <2>6. active[e] \in Entries
    BY <1>1
  <2>7. /\ [active[e] EXCEPT !.settled = TRUE].owner = active[e].owner
        /\ [active[e] EXCEPT !.settled = TRUE].settled
    BY <2>6 DEF Entries
  <2>8. \A f \in Executions :
           active'[f] # None =>
              /\ active[f] # None /\ active'[f].owner = active[f].owner
              /\ f = e => active'[e].settled
              /\ f # e => active'[f] = active[f]
    BY <1>1, <2>5, <2>7
  <2> QED  BY <1>3, <2>1, <2>3, <2>4, <2>8
<1> QED  BY <1>2, <1>3

\* Entries of different executions have different owners.
LEMMA OwnersDiffer ==
    ASSUME ProtocolInv, NEW e \in Executions, NEW f \in Executions, e # f,
           active[e] # None, active[f] # None
    PROVE  active[e].owner # active[f].owner
BY DEF ProtocolInv, EntryHoldsSlot

\* finalizeExecution(), and stopExecution() of an entry that does not wait.
LEMMA SettleProtocol ==
    ASSUME LifecycleTypes, LifecycleTypes', ProtocolInv, NEW e \in Executions,
           active[e] # None, settle(e),
           \A c \in Calls : pc'[c] = pc[c] \/ (pc[c] \notin Before /\ pc'[c] \notin Before)
    PROVE  ProtocolInv' /\ [Next]_concurrencyVars
<1>1. /\ [Next]_concurrencyVars
      /\ ConcurrencyInv'
      /\ \A c \in Calls : \/ slot'[c] = slot[c]
                          \/ slot[c] = "queued" /\ slot'[c] = "held"
                          \/ /\ slot'[c] = "released" /\ slot[c] # "queued"
                             /\ c = active[e].owner /\ ~active[e].settled
      /\ \A f \in Executions :
            active'[f] # None =>
               /\ active[f] # None /\ active'[f].owner = active[f].owner
               /\ f = e => active'[e].settled
               /\ f # e => active'[f] = active[f]
  BY SettleReleases
<1>2. active[e].owner \in Calls /\ pc[active[e].owner] \notin Before
  BY DEF ProtocolInv, EntryHoldsSlot, Before
<1>3. \A c \in Calls : \/ slot'[c] = slot[c]
                       \/ slot[c] = "queued" /\ slot'[c] \in {"held", "removed"}
                       \/ slot'[c] = "released" /\ slot[c] # "queued" /\ pc[c] \notin Before
  BY <1>1, <1>2
<1>4. ASSUME NEW f \in Executions, active'[f] # None, ~active'[f].settled
      PROVE  ~active[f].settled /\ slot'[active[f].owner] = slot[active[f].owner]
  <2>1. f # e /\ active[f] # None /\ active'[f] = active[f]
    BY <1>1, <1>4
  <2>2. active[f].owner # active[e].owner
    BY <2>1, OwnersDiffer
  <2>3. active[f].owner \in Calls /\ slot[active[f].owner] \in {"held", "through"}
    BY <1>4, <2>1 DEF ProtocolInv, EntryHoldsSlot
  <2> QED  BY <1>1, <1>4, <2>1, <2>2, <2>3
<1>5. \A f \in Executions :
         active'[f] # None =>
            /\ active[f] # None /\ active'[f].owner = active[f].owner
            /\ ~active'[f].settled => /\ ~active[f].settled
                                      /\ slot'[active[f].owner] = slot[active[f].owner]
  BY <1>1, <1>4
<1>6. ProtocolInv'
  BY <1>1, <1>3, <1>5, ProtocolKept
<1> QED  BY <1>1, <1>6

LEMMA FinalizeProtocol ==
    ASSUME LifecycleTypes, LifecycleTypes', ProtocolInv, NEW e \in Executions,
           finalizeExecution(e),
           \A c \in Calls : pc'[c] = pc[c] \/ (pc[c] \notin Before /\ pc'[c] \notin Before)
    PROVE  ProtocolInv' /\ [Next]_concurrencyVars
<1>1. CASE active[e] # None
  BY <1>1, SettleProtocol DEF finalizeExecution, hasEntry
<1>2. CASE active[e] = None
  <2>1. UNCHANGED concurrencyVars /\ active' = active
    BY <1>2 DEF finalizeExecution, hasEntry
  <2>2. ConcurrencyInv' /\ \A c \in Calls : slot'[c] = slot[c]
    BY <2>1, ServiceAlone DEF ProtocolInv
  <2>3. \A f \in Executions : active[f] # None => active[f].owner \in Calls
    BY DEF ProtocolInv, EntryHoldsSlot
  <2>4. ProtocolInv'
    BY <2>1, <2>2, <2>3, ProtocolKept
  <2> QED  BY <2>1, <2>4
<1> QED  BY <1>1, <1>2

\* stopExecution(): a waiting entry is only removed.
LEMMA StopProtocol ==
    ASSUME LifecycleTypes, LifecycleTypes', ProtocolInv, NEW e \in Executions,
           stopExecution(e), UNCHANGED pc
    PROVE  ProtocolInv' /\ [Next]_concurrencyVars
<1>1. CASE active[e] # None /\ active[e].status # "waiting"
  <2>1. settle(e)
    BY <1>1 DEF stopExecution, hasEntry
  <2> QED  BY <1>1, <2>1, SettleProtocol
<1>2. CASE active[e] = None \/ active[e].status = "waiting"
  <2>1. /\ UNCHANGED concurrencyVars
        /\ \A f \in Executions : active'[f] # None => active'[f] = active[f]
    BY <1>2 DEF stopExecution, hasEntry, LifecycleTypes
  <2>2. ConcurrencyInv' /\ \A c \in Calls : slot'[c] = slot[c]
    BY <2>1, ServiceAlone DEF ProtocolInv
  <2>3. \A f \in Executions : active[f] # None => active[f].owner \in Calls
    BY DEF ProtocolInv, EntryHoldsSlot
  <2>4. ProtocolInv'
    BY <2>1, <2>2, <2>3, ProtocolKept
  <2> QED  BY <2>1, <2>4
<1> QED  BY <1>1, <1>2

\* Calls that have registered go on; the service and the owners stay.
LEMMA AloneProtocol ==
    ASSUME LifecycleTypes, LifecycleTypes', ProtocolInv, UNCHANGED concurrencyVars,
           \A c \in Calls : pc'[c] = pc[c] \/ (pc[c] \notin Before /\ pc'[c] \notin Before),
           \A e \in Executions :
              active'[e] # None => /\ active[e] # None
                                   /\ active'[e].owner = active[e].owner
                                   /\ active'[e].settled = active[e].settled
    PROVE  ProtocolInv'
<1>1. ConcurrencyInv' /\ \A c \in Calls : slot'[c] = slot[c]
  BY ServiceAlone DEF ProtocolInv
<1>2. \A f \in Executions : active[f] # None => active[f].owner \in Calls
  BY DEF ProtocolInv, EntryHoldsSlot
<1> QED  BY <1>1, <1>2, ProtocolKept

\* Calls are created: their promises are idle, and no entry is theirs.
LEMMA CreateProtocol ==
    ASSUME LifecycleTypes, LifecycleTypes', ProtocolInv, UNCHANGED <<concurrencyVars, active>>,
           \A c \in Calls : pc'[c] = pc[c] \/ (pc[c] = "idle" /\ pc'[c] = "created")
    PROVE  ProtocolInv'
<1>1. ConcurrencyInv' /\ \A c \in Calls : slot'[c] = slot[c]
  BY ServiceAlone DEF ProtocolInv
<1>2. SlotFollowsCall'
  BY <1>1 DEF ProtocolInv, SlotFollowsCall
<1>3. EntryHoldsSlot'
  BY <1>1 DEF ProtocolInv, EntryHoldsSlot
<1> QED  BY <1>1, <1>2, <1>3 DEF ProtocolInv

LEMMA ThrottleProtocol ==
    ASSUME LifecycleTypes, LifecycleTypes', ProtocolInv, NEW c \in Calls, AddThrottle(c)
    PROVE  ProtocolInv' /\ [Next]_concurrencyVars
<1>1. /\ pc[c] = "created" /\ throttle(c) /\ pc' = [pc EXCEPT ![c] = "throttling"]
      /\ UNCHANGED active
      /\ pc \in [Calls -> CallStates]
  BY DEF AddThrottle, LifecycleTypes
<1>2. slot[c] = "idle" /\ ConcurrencyInv
  BY <1>1 DEF ProtocolInv, SlotFollowsCall
<1>3. Next
  BY <1>1, <1>2 DEF Next, Throttle
<1>4. ConcurrencyInv'
  BY <1>2, <1>3, ConcurrencyStep
<1>5. /\ slot'[c] \in {"queued", "held", "through"}
      /\ \A d \in Calls \ {c} : slot'[d] = slot[d]
  BY <1>1, <1>2, ThrottleEffect
<1>6. /\ pc'[c] = "throttling"
      /\ \A d \in Calls \ {c} : pc'[d] = pc[d]
  BY <1>1
<1>7. SlotFollowsCall'
  BY <1>5, <1>6 DEF ProtocolInv, SlotFollowsCall
<1>8. EntryHoldsSlot'
  BY <1>1, <1>5, <1>6 DEF ProtocolInv, EntryHoldsSlot
<1> QED  BY <1>3, <1>4, <1>7, <1>8 DEF ProtocolInv

LEMMA StoreProtocol ==
    ASSUME LifecycleTypes, LifecycleTypes', ProtocolInv, NEW c \in Calls, AddStore(c)
    PROVE  ProtocolInv'
<1>1. /\ pc[c] = "throttling" /\ slot[c] \in {"held", "through"}
      /\ UNCHANGED <<concurrencyVars, active>>
      /\ pc'[c] = "stored" /\ \A d \in Calls \ {c} : pc'[d] = pc[d]
  BY DEF AddStore, LifecycleTypes
<1>2. ConcurrencyInv' /\ \A d \in Calls : slot'[d] = slot[d]
  BY <1>1, ServiceAlone DEF ProtocolInv
<1>3. SlotFollowsCall'
  BY <1>1, <1>2 DEF ProtocolInv, SlotFollowsCall
<1>4. EntryHoldsSlot'
  BY <1>1, <1>2 DEF ProtocolInv, EntryHoldsSlot
<1> QED  BY <1>2, <1>3, <1>4 DEF ProtocolInv

LEMMA RegisterProtocol ==
    ASSUME LifecycleTypes, LifecycleTypes', ProtocolInv, NEW c \in Calls, AddRegister(c)
    PROVE  ProtocolInv'
<1> DEFINE e == executionId(c)
           new == [owner |-> c, status |-> "running", engine |-> <<>>,
                   response |-> hasEntry(e) /\ active[e].response, settled |-> FALSE]
<1>1. /\ pc[c] = "stored"
      /\ UNCHANGED concurrencyVars
      /\ pc'[c] = "registered" /\ \A d \in Calls \ {c} : pc'[d] = pc[d]
  BY DEF AddRegister, LifecycleTypes
<1>2. active' = [active EXCEPT ![e] = new]
  BY DEF AddRegister
<1>3. new.owner = c
  OBVIOUS
<1>4. e \in Executions
  BY CallHasExecution
<1> HIDE DEF new
<1>5. active'[e].owner = c /\ \A f \in Executions \ {e} : active'[f] = active[f]
  BY <1>2, <1>3, <1>4 DEF LifecycleTypes
<1>6. ConcurrencyInv' /\ \A d \in Calls : slot'[d] = slot[d]
  BY <1>1, ServiceAlone DEF ProtocolInv
<1>7. slot[c] \in {"held", "through"}
  BY <1>1 DEF ProtocolInv, SlotFollowsCall
<1>8. SlotFollowsCall'
  BY <1>1, <1>6, <1>7 DEF ProtocolInv, SlotFollowsCall
<1>9. EntryHoldsSlot'
  BY <1>1, <1>4, <1>5, <1>6, <1>7 DEF ProtocolInv, EntryHoldsSlot
<1> QED  BY <1>6, <1>8, <1>9 DEF ProtocolInv

\* shutdown() disables the service and releases the entries it stops.
LEMMA ShutdownProtocol ==
    ASSUME LifecycleTypes, LifecycleTypes', ProtocolInv, shutdown
    PROVE  ProtocolInv'
<1> DEFINE ids == {e \in Executions : hasEntry(e)}
           stops == {e \in ids : active[e].response}
           rejected == {e \in stops : active[e].status # "waiting"}
           gone == stops \cup {e \in ids : active[e].status = "waiting"}
<1>1. /\ isEnabled' = FALSE
      /\ slot' = [c \in Calls |->
                     IF \E e \in rejected : active[e].owner = c THEN "released" ELSE slot[c]]
      /\ active' = [e \in Executions |-> IF e \in gone THEN None ELSE active[e]]
      /\ UNCHANGED <<capacity, queue, pc>>
  BY DEF shutdown
<1>2. rejected \subseteq gone
  OBVIOUS
<1>3. \A e \in rejected : e \in Executions /\ active[e] # None
  BY DEF hasEntry
<1> HIDE DEF rejected, gone
<1>4. \A c \in Calls : \/ slot'[c] = slot[c]
                       \/ slot'[c] = "released" /\ \E e \in rejected : active[e].owner = c
  BY <1>1
<1>5. \A e \in rejected :
         pc[active[e].owner] \notin Before /\ slot[active[e].owner] # "queued"
  BY <1>3 DEF ProtocolInv, EntryHoldsSlot, SlotFollowsCall, Before
<1>6. \A c \in Calls : \/ slot'[c] = slot[c]
                       \/ slot'[c] = "released" /\ slot[c] # "queued" /\ pc[c] \notin Before
  BY <1>4, <1>5
<1>7. ConcurrencyInv'
  <2>1. TypeOK /\ QueueMatchesPending
    BY DEF ProtocolInv, ConcurrencyInv
  <2>2. slot' \in [Calls -> SlotStates]
    BY <1>1, <2>1 DEF TypeOK, SlotStates
  <2>3. TypeOK'
    BY <1>1, <2>1, <2>2 DEF TypeOK
  <2>4. \A c \in Calls : slot'[c] = "queued" <=> slot[c] = "queued"
    BY <1>6
  <2>5. QueueMatchesPending'
    BY <1>1, <2>1, <2>4 DEF QueueMatchesPending
  <2> QED
    BY <1>1, <2>3, <2>5 DEF ConcurrencyInv, CapacityAccounting, NoSpareCapacity,
                            UncountedAreUnlimited
<1>8. ASSUME NEW f \in Executions, active'[f] # None
      PROVE  /\ active'[f] = active[f] /\ active[f] # None
             /\ slot'[active[f].owner] = slot[active[f].owner]
  <2>1. f \notin gone /\ active'[f] = active[f]
    BY <1>1, <1>8
  <2>2. active[f].owner \in Calls
    BY <1>8, <2>1 DEF ProtocolInv, EntryHoldsSlot
  <2>3. \A e \in rejected : active[e].owner # active[f].owner
    BY <1>2, <1>3, <1>8, <2>1, OwnersDiffer
  <2> QED  BY <1>4, <1>8, <2>1, <2>2, <2>3
<1> QED  BY <1>1, <1>6, <1>7, <1>8, ProtocolKept

\* The next process starts with an empty service.
LEMMA MemoryLostProtocol ==
    ASSUME ProtocolInv, memoryLost
    PROVE  ProtocolInv'
<1>1. ConcurrencyInv'
  <2>1. NobodyServed'
    BY DEF memoryLost, NobodyServed
  <2> QED  BY <2>1, NobodyServedInv, PTL
<1>2. SlotFollowsCall'
  BY DEF ProtocolInv, SlotFollowsCall, memoryLost
<1>3. EntryHoldsSlot'
  BY DEF EntryHoldsSlot, memoryLost
<1> QED  BY <1>1, <1>2, <1>3 DEF ProtocolInv

\* Every step keeps the protocol, and all but the end of the process are steps of
\* the service or leave it alone.
LEMMA ProtocolStep ==
    ASSUME LifecycleTypes, LifecycleTypes', ProtocolInv, [LifecycleNext]_vars
    PROVE  /\ ProtocolInv'
           /\ [Next]_concurrencyVars \/ shutdown \/ Exit \/ forceShutdown \/ Crash
<1>0. /\ pc \in [Calls -> CallStates]
      /\ active \in [Executions -> Entries \cup {None}]
  BY DEF LifecycleTypes
<1>1. ASSUME NEW e \in Executions, Create(e)
      PROVE  ProtocolInv' /\ UNCHANGED concurrencyVars
  BY <1>0, <1>1, CreateProtocol DEF Create, fresh
<1>2. ASSUME NEW c \in Calls, startExecution(c) \/ executeWebhook(c)
      PROVE  ProtocolInv' /\ UNCHANGED concurrencyVars
  BY <1>0, <1>2, CreateProtocol DEF startExecution, executeWebhook, fresh
<1>3. CASE runEnqueuedExecutions
  <2>1. \A c \in Calls : pc'[c] = pc[c] \/ (pc[c] = "idle" /\ pc'[c] = "created")
    BY <1>3 DEF runEnqueuedExecutions, fresh
  <2>2. UNCHANGED <<concurrencyVars, active>>
    BY <1>3 DEF runEnqueuedExecutions
  <2> QED  BY <2>1, <2>2, CreateProtocol
<1>4. CASE \/ \E e \in Executions : getWaitingExecutions(e) \/ StopRead(e) \/ StopWrite(e)
           \/ \E c \in Calls : nodeExecuteBefore(c) \/ CancelSave(c)
           \/ Recover \/ Restart \/ UNCHANGED vars
  <2>1. UNCHANGED <<concurrencyVars, pc, active>>
    BY <1>4 DEF getWaitingExecutions, StopRead, StopWrite, nodeExecuteBefore, CancelSave,
                Recover, Restart, vars, callVars
  <2> QED  BY <2>1, AloneProtocol
<1>5. ASSUME NEW c \in Calls, CheckFails(c) \/ EngineEnds(c) \/ SaveResult(c)
      PROVE  ProtocolInv' /\ UNCHANGED concurrencyVars
  <2>1. UNCHANGED <<concurrencyVars, active>>
    BY <1>5 DEF CheckFails, EngineEnds, SaveResult
  <2>2. \A d \in Calls : pc'[d] = pc[d] \/ (pc[d] \notin Before /\ pc'[d] \notin Before)
    BY <1>0, <1>5 DEF CheckFails, EngineEnds, SaveResult, Before
  <2> QED  BY <2>1, <2>2, AloneProtocol
<1>6. ASSUME NEW c \in Calls, CheckPasses(c) \/ StartEngine(c) \/ putExecutionToWait(c)
      PROVE  ProtocolInv' /\ UNCHANGED concurrencyVars
  <2> DEFINE e == executionId(c)
  <2>1. UNCHANGED concurrencyVars /\ e \in Executions
    BY <1>6, CallHasExecution DEF CheckPasses, StartEngine, putExecutionToWait
  <2>2. \A d \in Calls : pc'[d] = pc[d] \/ (pc[d] \notin Before /\ pc'[d] \notin Before)
    BY <1>0, <1>6 DEF CheckPasses, StartEngine, putExecutionToWait, Before
  <2>3. \/ active' = active
        \/ active[e] # None /\ \/ active' = [active EXCEPT ![e].response = TRUE]
                               \/ active' = [active EXCEPT ![e].engine = c]
                               \/ active' = [active EXCEPT ![e].status = "waiting"]
    BY <1>6 DEF CheckPasses, StartEngine, putExecutionToWait, hasEntry
  <2>4. active[e] # None => active[e] \in Entries
    BY <1>0, <2>1
  <2>5. \A f \in Executions :
           active'[f] # None => /\ active[f] # None
                                /\ active'[f].owner = active[f].owner
                                /\ active'[f].settled = active[f].settled
    BY <1>0, <2>1, <2>3, <2>4 DEF Entries
  <2> QED  BY <2>1, <2>2, <2>5, AloneProtocol
<1>7. ASSUME NEW c \in Calls, FailedFinalize(c) \/ Finalize(c)
      PROVE  ProtocolInv' /\ [Next]_concurrencyVars
  <2>1. finalizeExecution(executionId(c)) /\ executionId(c) \in Executions
    BY <1>7, CallHasExecution DEF FailedFinalize, Finalize
  <2>2. \A d \in Calls : pc'[d] = pc[d] \/ (pc[d] \notin Before /\ pc'[d] \notin Before)
    BY <1>0, <1>7 DEF FailedFinalize, Finalize, Before
  <2> QED  BY <2>1, <2>2, FinalizeProtocol
<1>8. ASSUME NEW c \in Calls, AddThrottle(c) \/ AddStore(c) \/ AddRegister(c)
      PROVE  ProtocolInv' /\ [Next]_concurrencyVars
  <2>1. AddStore(c) \/ AddRegister(c) => UNCHANGED concurrencyVars
    BY DEF AddStore, AddRegister
  <2> QED  BY <1>8, <2>1, ThrottleProtocol, StoreProtocol, RegisterProtocol
<1>9. ASSUME NEW c \in Calls, ExecutionTimeout(c)
      PROVE  ProtocolInv' /\ [Next]_concurrencyVars
  BY <1>9, CallHasExecution, StopProtocol DEF ExecutionTimeout
<1>10. ASSUME NEW e \in Executions, StopAct(e)
       PROVE  ProtocolInv' /\ [Next]_concurrencyVars
  <2>1. UNCHANGED pc
    BY <1>10 DEF StopAct
  <2>2. CASE stopExecution(e)
    BY <2>1, <2>2, StopProtocol
  <2>3. CASE remove(e) /\ UNCHANGED active
    <3>1. Next /\ ConcurrencyInv
      BY <2>3 DEF Next, ProtocolInv
    <3>2. ConcurrencyInv'
      BY <3>1, ConcurrencyStep
    <3>3. \A d \in Calls :
             slot'[d] = slot[d] \/ (slot[d] = "queued" /\ slot'[d] \in {"held", "removed"})
      BY <2>3, <3>1, RemoveEffect
    <3>4. \A f \in Executions :
             active[f] # None /\ ~active[f].settled =>
                slot'[active[f].owner] = slot[active[f].owner]
      BY <3>3 DEF ProtocolInv, EntryHoldsSlot
    <3>5. ProtocolInv'
      BY <2>1, <2>3, <3>2, <3>3, <3>4, ProtocolKept
    <3> QED  BY <3>1, <3>5
  <2> QED  BY <1>10, <2>2, <2>3 DEF StopAct
<1>11. CASE shutdown
  BY <1>11, ShutdownProtocol
<1>12. CASE Exit \/ forceShutdown \/ Crash
  BY <1>12, MemoryLostProtocol DEF Exit, forceShutdown, Crash
<1> QED
  BY <1>1, <1>2, <1>3, <1>4, <1>5, <1>6, <1>7, <1>8, <1>9, <1>10, <1>11, <1>12
     DEF LifecycleNext, CallStep, runEnqueuedExecutions

LEMMA ProtocolInit == Init => ProtocolInv
<1>1. Init => NobodyServed
  BY DEF Init, ConcurrencyInit, NobodyServed
<1>2. Init => SlotFollowsCall /\ EntryHoldsSlot
  BY DEF Init, ConcurrencyInit, SlotFollowsCall, EntryHoldsSlot
<1> QED  BY <1>1, <1>2, NobodyServedInv DEF ProtocolInv

\* The protocol, and with it the service's invariant, hold in the whole process,
\* whatever is stopped, resumed, timed out, shut down or killed.
THEOREM ProtocolInvariant == LifecycleSpec => []ProtocolInv
<1>1. LifecycleTypes /\ LifecycleTypes' /\ ProtocolInv /\ [LifecycleNext]_vars => ProtocolInv'
  BY ProtocolStep
<1> QED  BY <1>1, ProtocolInit, LifecycleTypesInvariant, PTL DEF LifecycleSpec

\* The types of the process, the service, the rows and the log.
THEOREM LifecycleTypeOKHolds == LifecycleSpec => []LifecycleTypeOK
<1>1. LifecycleTypes /\ ProtocolInv => LifecycleTypeOK
  BY DEF LifecycleTypes, ProtocolInv, ConcurrencyInv, LifecycleTypeOK, Phases, Logs, Recoveries,
         Outcomes, StopStates
<1> QED  BY <1>1, LifecycleTypesInvariant, ProtocolInvariant, PTL

\* The capacity counter of the service accounts for every call of the process,
\* held or queued, as long as the service is enabled: throttle() and release() are
\* called in pairs by add() and the .finally of the entry, also when the entry
\* was stopped, replaced or timed out, and afresh after a restart.
THEOREM CapacityAccountingInProcess == LifecycleSpec => []CapacityAccounting
<1>1. ProtocolInv => CapacityAccounting
  BY DEF ProtocolInv, ConcurrencyInv
<1> QED  BY <1>1, ProtocolInvariant, PTL

\* In the process as in the service alone nobody is throttled while capacity is
\* spare.
THEOREM WorkConservingInProcess == LifecycleSpec => []WorkConserving
<1>1. ProtocolInv => WorkConserving
  BY InvWorkConserving DEF ProtocolInv
<1> QED  BY <1>1, ProtocolInvariant, PTL

\* Steps of requests, stops and resumptions of one execution.
RequestStep(e) ==
    \/ Create(e) \/ getWaitingExecutions(e)
    \/ StopRead(e) \/ StopAct(e) \/ StopWrite(e)

\* Steps of a call once it was created.
OwnStep(c) ==
    \/ CallStep(c) \/ CheckFails(c)
    \/ nodeExecuteBefore(c) \/ putExecutionToWait(c)
    \/ CancelSave(c) \/ ExecutionTimeout(c)

\* Steps of executions and calls leave the process variables alone.
LEMMA StepKinds ==
    [LifecycleNext]_vars =>
        \/ /\ UNCHANGED processVars
           /\ \/ \E e \in Executions : RequestStep(e)
              \/ \E c \in Calls : startExecution(c) \/ executeWebhook(c) \/ OwnStep(c)
              \/ UNCHANGED vars
        \/ Recover \/ runEnqueuedExecutions \/ Restart
        \/ shutdown \/ Exit \/ forceShutdown \/ Crash
<1>1. ASSUME NEW e \in Executions, RequestStep(e)
      PROVE  UNCHANGED processVars
  BY <1>1 DEF RequestStep, Create, getWaitingExecutions, StopRead, StopAct, StopWrite
<1>2. ASSUME NEW c \in Calls, OwnStep(c)
      PROVE  UNCHANGED processVars
  BY <1>2 DEF OwnStep, CallStep, AddThrottle, AddStore, AddRegister, CheckPasses,
         FailedFinalize, StartEngine, EngineEnds, SaveResult, Finalize, CheckFails,
         nodeExecuteBefore, putExecutionToWait, CancelSave, ExecutionTimeout
<1>3. ASSUME NEW c \in Calls, startExecution(c) \/ executeWebhook(c)
      PROVE  UNCHANGED processVars
  BY <1>3 DEF startExecution, executeWebhook
<1>4. UNCHANGED vars => UNCHANGED processVars
  BY DEF vars
<1> QED  BY <1>1, <1>2, <1>3, <1>4 DEF LifecycleNext, RequestStep, OwnStep

\* The steps that end the life of the service in this process.
processEnds == shutdown \/ Exit \/ forceShutdown \/ Crash

\* Apart from these, whatever the handlers do to the service is a step of
\* ConcurrencyControl: every call is throttled once and released at most once,
\* after it was let through.
THEOREM CallersKeepProtocol ==
    LifecycleSpec => ConcurrencyInit /\ [][Next \/ processEnds]_concurrencyVars
<1>1. Init => ConcurrencyInit
  BY DEF Init
<1>2. LifecycleTypes /\ LifecycleTypes' /\ ProtocolInv /\ [LifecycleNext]_vars
        => [Next \/ processEnds]_concurrencyVars
  BY ProtocolStep DEF processEnds
<1> QED  BY <1>1, <1>2, LifecycleTypesInvariant, ProtocolInvariant, PTL DEF LifecycleSpec

\* So a process that is not shut down and does not crash implements
\* ConcurrencyControl, whatever its executions, stops, timeouts and resumptions.
THEOREM LifecycleImplementsConcurrencyControl ==
    ASSUME ends = {} \/ MaxBoots = 1
    PROVE  LifecycleSpec => ImplementsConcurrencyControl
<1> DEFINE NotStopping == phase # "stopping"
<1>1. LifecycleTypes => (MaxBoots = 1 => ~(boots < MaxBoots))
  BY DEF LifecycleTypes
<1>2. LifecycleTypes /\ NotStopping => ~processEnds
  BY <1>1 DEF processEnds, shutdown, Exit, forceShutdown, Crash
<1>3. Init => NotStopping
  BY DEF Init, RecoveryInit
<1>4. ASSUME LifecycleTypes, NotStopping, [LifecycleNext]_vars
      PROVE  NotStopping'
  <2>1. CASE UNCHANGED phase
    BY <1>4, <2>1
  <2>2. CASE Recover
    BY <1>4, <2>2 DEF Recover, RecoveryStep, initialize, markAllAsCrashed, amend, recoverFromLogs,
                 runHooks, endRecoveryProcess
  <2>3. CASE runEnqueuedExecutions \/ Restart
    BY <2>3 DEF runEnqueuedExecutions, Restart
  <2>4. shutdown \/ Exit \/ forceShutdown \/ Crash => FALSE
    BY <1>2, <1>4 DEF processEnds
  <2> QED  BY <1>4, <2>1, <2>2, <2>3, <2>4, StepKinds DEF processVars
<1>5. LifecycleSpec => []NotStopping
  BY <1>3, <1>4, LifecycleTypesInvariant, PTL DEF LifecycleSpec
<1>6. LifecycleTypes /\ NotStopping /\ [Next \/ processEnds]_concurrencyVars
        => [Next]_concurrencyVars
  BY <1>2
<1> QED
  BY <1>5, <1>6, LifecycleTypesInvariant, CallersKeepProtocol, PTL
     DEF ImplementsConcurrencyControl, Spec

-----------------------------------------------------------------------------
(* Capacity is never lost                                                  *)

\* A call takes its own steps only, from "created" on until it is done.
LEMMA OwnStepMoves ==
    ASSUME LifecycleTypes, NEW c \in Calls, OwnStep(c)
    PROVE  /\ \A d \in Calls \ {c} : pc'[d] = pc[d]
           /\ pc'[c] = pc[c] \/ (pc[c] \notin {"idle", "done"} /\ pc'[c] # "idle")
<1>1. pc \in [Calls -> CallStates]
  BY DEF LifecycleTypes
<1>2. \/ UNCHANGED pc
      \/ pc[c] \notin {"idle", "done"} /\ \E v \in CallStates \ {"idle"} : pc' = [pc EXCEPT ![c] = v]
  BY Memberships
     DEF OwnStep, CallStep, AddThrottle, AddStore, AddRegister, CheckPasses,
         FailedFinalize, StartEngine, EngineEnds, SaveResult, Finalize, CheckFails,
         nodeExecuteBefore, putExecutionToWait, CancelSave, ExecutionTimeout, callVars
<1> QED  BY <1>1, <1>2

\* A call begins when its index is free, and never becomes idle again.
LEMMA CallMoves ==
    ASSUME LifecycleTypes, [LifecycleNext]_vars, NEW c \in Calls
    PROVE  \/ pc'[c] = pc[c]
           \/ fresh(c) /\ pc'[c] = "created"
           \/ pc[c] # "idle" /\ pc'[c] # "idle"
<1>1. pc \in [Calls -> CallStates]
  BY DEF LifecycleTypes
<1>2. ASSUME NEW e \in Executions, RequestStep(e)
      PROVE  \/ UNCHANGED pc
             \/ fresh(<<e, 1>>) /\ pc' = [pc EXCEPT ![<<e, 1>>] = "created"]
  BY <1>2 DEF RequestStep, Create, getWaitingExecutions, StopRead, StopAct, StopWrite, callVars
<1>3. ASSUME NEW d \in Calls, startExecution(d) \/ executeWebhook(d)
      PROVE  \/ UNCHANGED pc
             \/ fresh(d) /\ pc' = [pc EXCEPT ![d] = "created"]
  BY <1>3 DEF startExecution, executeWebhook
<1>4. CASE runEnqueuedExecutions
  BY <1>4 DEF runEnqueuedExecutions
<1>5. CASE Exit \/ forceShutdown \/ Crash
  BY <1>5 DEF Exit, forceShutdown, Crash, memoryLost
<1>6. CASE Recover \/ Restart \/ shutdown \/ UNCHANGED vars
  BY <1>6 DEF Recover, Restart, shutdown, vars, callVars
<1> QED  BY <1>1, <1>2, <1>3, <1>4, <1>5, <1>6, OwnStepMoves, StepKinds

LEMMA CallsInOrderStep ==
    ASSUME LifecycleTypes, CallsInOrder, [LifecycleNext]_vars
    PROVE  CallsInOrder'
<1> SUFFICES ASSUME NEW e \in Executions, NEW m \in 1..MaxRuns, NEW n \in 1..MaxRuns, m < n,
                    pc'[<<e, m>>] = "idle", pc'[<<e, n>>] # "idle"
             PROVE  FALSE
  BY DEF CallsInOrder
<1>1. MaxRuns \in Nat
  BY ConcurrencyAssumption
<1>2. <<e, m>> \in Calls /\ <<e, n>> \in Calls /\ <<e, n - 1>> \in Calls
  BY <1>1 DEF Calls
<1>3. pc[<<e, m>>] = "idle"
  BY <1>2, CallMoves DEF fresh
<1>4. pc[<<e, n>>] = "idle"
  BY <1>3 DEF CallsInOrder
<1>5. fresh(<<e, n>>)
  BY <1>2, <1>4, CallMoves
<1>6. pc[<<e, n - 1>>] # "idle"
  BY <1>1, <1>5 DEF fresh
<1>7. m < n - 1
  BY <1>1, <1>3, <1>6
<1> QED  BY <1>1, <1>3, <1>6, <1>7 DEF CallsInOrder

\* The only index that is free.
LEMMA FreshIsUnique ==
    ASSUME CallsInOrder, NEW c \in Calls, NEW d \in Calls, executionId(c) = executionId(d),
           fresh(c), fresh(d)
    PROVE  c = d
<1>1. MaxRuns \in Nat
  BY ConcurrencyAssumption
<1>2. PICK e \in Executions, m \in 1..MaxRuns, n \in 1..MaxRuns : c = <<e, m>> /\ d = <<e, n>>
  BY DEF Calls, executionId
<1>3. /\ pc[<<e, m>>] = "idle" /\ pc[<<e, n>>] = "idle"
      /\ m > 1 => pc[<<e, m - 1>>] # "idle"
      /\ n > 1 => pc[<<e, n - 1>>] # "idle"
  BY <1>2 DEF fresh
<1>4. ~(m < n)
  <2> SUFFICES ASSUME m < n
               PROVE  FALSE
    OBVIOUS
  <2>1. n > 1 /\ n - 1 \in 1..MaxRuns /\ (m = n - 1 \/ m < n - 1)
    BY <1>1
  <2> QED  BY <1>3, <2>1 DEF CallsInOrder
<1>5. ~(n < m)
  <2> SUFFICES ASSUME n < m
               PROVE  FALSE
    OBVIOUS
  <2>1. m > 1 /\ m - 1 \in 1..MaxRuns /\ (n = m - 1 \/ n < m - 1)
    BY <1>1
  <2> QED  BY <1>3, <2>1 DEF CallsInOrder
<1> QED  BY <1>1, <1>2, <1>4, <1>5

\* While the first call has not begun, none has.
LEMMA FirstComesFirst ==
    ASSUME CallsInOrder, NEW e \in Executions, pc[<<e, 1>>] = "idle"
    PROVE  \A c \in callsOf(e) : pc[c] = "idle"
<1>1. MaxRuns \in Nat \ {0}
  BY ConcurrencyAssumption
<1> SUFFICES ASSUME NEW n \in 1..MaxRuns
             PROVE  pc[<<e, n>>] = "idle"
  BY DEF callsOf, Calls, executionId
<1>2. n = 1 \/ 1 < n
  BY <1>1
<1> QED  BY <1>1, <1>2 DEF CallsInOrder

\* What settle() does to the entries.
LEMMA SettleEntries ==
    ASSUME LifecycleTypes, NEW e \in Executions, active[e] # None, settle(e)
    PROVE  /\ \A f \in Executions \ {e} : active'[f] = active[f]
           /\ active[e].status = "running" /\ ~active[e].settled => active'[e] = None
BY DEF settle, LifecycleTypes

LEMMA FinalizeEntries ==
    ASSUME LifecycleTypes, NEW e \in Executions, finalizeExecution(e)
    PROVE  /\ \A f \in Executions \ {e} : active'[f] = active[f]
           /\ (active[e] # None => active[e].status = "running" /\ ~active[e].settled)
                => active'[e] = None
BY SettleEntries DEF finalizeExecution, hasEntry, LifecycleTypes

LEMMA StopEntries ==
    ASSUME LifecycleTypes, NEW e \in Executions, stopExecution(e)
    PROVE  /\ \A f \in Executions \ {e} : active'[f] = active[f]
           /\ (active[e] # None => active[e].status = "running" /\ ~active[e].settled)
                => active'[e] = None
BY SettleEntries DEF stopExecution, hasEntry, LifecycleTypes

\* Only a run that waits is saved with a time to resume it.
LEMMA WaitTillWrites ==
    ASSUME NEW r \in Rows, ~r.waitTill
    PROVE  /\ ~setRunning(r).waitTill
           /\ ~resumeRow(r).waitTill
           /\ ~stopBeforeRun(r).waitTill
           /\ ~stopDuringRun(r).waitTill
           /\ ~markAsCrashed(r).waitTill
           /\ ~[r EXCEPT !.status = "new"].waitTill
           /\ \A s \in {"none", "success", "error", "canceled"} : ~saveRow(r, s).waitTill
BY DEF Rows, setRunning, resumeRow, stopBeforeRun, stopDuringRun, markAsCrashed, saveRow

\* Steps that write neither rows, timers, outcomes nor entries.
LEMMA NeverWaitsKept ==
    ASSUME NEW e \in Executions, NeverWaits(e),
           ~row'[e].waitTill, ~timer'[e],
           \A c \in callsOf(e) : outcome'[c] # "waiting",
           active'[e] # None => active'[e].status = "running" /\ ~active'[e].settled,
           UNCHANGED recovery
    PROVE  NeverWaits(e)'
BY DEF NeverWaits, callsOf

\* An execution without a node that waits is never saved as waiting, no timer is
\* set for it, and its entry is running until it is removed: neither a stop, a
\* shutdown nor the recovery pass changes that.
LEMMA NeverWaitsStep ==
    ASSUME LifecycleTypes, NEW e \in Executions \ Waiters, NeverWaits(e), [LifecycleNext]_vars
    PROVE  NeverWaits(e)'
<1>0. /\ row \in [Executions -> Rows]
      /\ active \in [Executions -> Entries \cup {None}]
      /\ outcome \in [Calls -> Outcomes]
      /\ timer \in [Executions -> BOOLEAN]
      /\ ~row[e].waitTill /\ ~timer[e]
      /\ \A c \in callsOf(e) : outcome[c] # "waiting"
      /\ active[e] # None => active[e].status = "running" /\ ~active[e].settled
  BY DEF LifecycleTypes, NeverWaits
<1>1. ASSUME NEW f \in Executions, RequestStep(f), UNCHANGED processVars
      PROVE  NeverWaits(e)'
  <2>1. UNCHANGED <<outcome, recovery>>
    BY <1>1 DEF RequestStep, Create, getWaitingExecutions, StopRead, StopAct, StopWrite,
                processVars, callVars
  <2>2. ~timer'[e]
    BY <1>0, <1>1 DEF RequestStep, Create, getWaitingExecutions, StopRead, StopAct, StopWrite
  <2>3. \/ row' = row
        \/ row' = [row EXCEPT ![f].status = "new"]
        \/ row' = [row EXCEPT ![f] = stopBeforeRun(@)]
        \/ row' = [row EXCEPT ![f] = stopDuringRun(@)]
    BY <1>1 DEF RequestStep, Create, getWaitingExecutions, StopRead, StopAct, StopWrite
  <2>4. \/ row'[e] = row[e] \/ row'[e] = [row[e] EXCEPT !.status = "new"]
        \/ row'[e] = stopBeforeRun(row[e]) \/ row'[e] = stopDuringRun(row[e])
    BY <1>0, <2>3
  <2>5. ~row'[e].waitTill
    BY <1>0, <2>4, WaitTillWrites
  <2>6. UNCHANGED active \/ stopExecution(f)
    BY <1>1 DEF RequestStep, Create, getWaitingExecutions, StopRead, StopAct, StopWrite
  <2>7. active'[e] # None => active'[e].status = "running" /\ ~active'[e].settled
    BY <1>0, <2>6, StopEntries
  <2> QED  BY <1>0, <2>1, <2>2, <2>5, <2>7, NeverWaitsKept
<1>2. ASSUME NEW c \in Calls, startExecution(c) \/ executeWebhook(c), UNCHANGED processVars
      PROVE  NeverWaits(e)'
  <2>1. UNCHANGED <<outcome, recovery, row, active>>
    BY <1>2 DEF startExecution, executeWebhook, processVars
  <2>2. ~timer'[e]
    BY <1>0, <1>2 DEF startExecution, executeWebhook
  <2> QED  BY <1>0, <2>1, <2>2, NeverWaitsKept
<1>3. ASSUME NEW c \in Calls, OwnStep(c), UNCHANGED processVars
      PROVE  NeverWaits(e)'
  <2> DEFINE f == executionId(c)
  <2>0. f \in Executions
    BY CallHasExecution
  <2>1. UNCHANGED <<timer, recovery>>
    BY <1>3 DEF OwnStep, CallStep, AddThrottle, AddStore, AddRegister, CheckPasses,
         FailedFinalize, StartEngine, EngineEnds, SaveResult, Finalize, CheckFails,
         nodeExecuteBefore, putExecutionToWait, CancelSave, ExecutionTimeout, processVars
  <2>2. \/ UNCHANGED outcome
        \/ \E v \in {"success", "error"} : outcome' = [outcome EXCEPT ![c] = IF @ = "none" THEN v ELSE @]
        \/ f \in Waiters /\ \E v \in Outcomes : outcome' = [outcome EXCEPT ![c] = v]
    BY <1>3, Memberships
       DEF OwnStep, CallStep, AddThrottle, AddStore, AddRegister, CheckPasses,
         FailedFinalize, StartEngine, EngineEnds, SaveResult, Finalize, CheckFails,
         nodeExecuteBefore, putExecutionToWait, CancelSave, ExecutionTimeout, callVars
  <2>3. \A d \in callsOf(e) : outcome'[d] # "waiting"
    BY <1>0, <2>2 DEF callsOf
  <2>4. \/ row' = row
        \/ row' = [row EXCEPT ![f] = setRunning(@)]
        \/ row' = [row EXCEPT ![f] = resumeRow(@)]
        \/ row' = [row EXCEPT ![f] = saveRow(@, "error")]
        \/ row' = [row EXCEPT ![f] = saveRow(@, "canceled")]
        \/ row' = [row EXCEPT ![f] = saveRow(@, outcome[c])]
    BY <1>3
       DEF OwnStep, CallStep, AddThrottle, AddStore, AddRegister, CheckPasses,
         FailedFinalize, StartEngine, EngineEnds, SaveResult, Finalize, CheckFails,
         nodeExecuteBefore, putExecutionToWait, CancelSave, ExecutionTimeout
  <2>5. f = e => outcome[c] \in {"none", "success", "error"}
    BY <1>0 DEF callsOf, Outcomes
  <2>6. ~row'[e].waitTill
    BY <1>0, <2>0, <2>4, <2>5, WaitTillWrites
  <2>7. active'[e] # None => active'[e].status = "running" /\ ~active'[e].settled
    <3>1. CASE AddRegister(c)
      BY <1>0, <2>0, <3>1 DEF AddRegister
    <3>2. CASE FailedFinalize(c) \/ Finalize(c)
      BY <1>0, <2>0, <3>2, FinalizeEntries DEF FailedFinalize, Finalize
    <3>3. CASE ExecutionTimeout(c)
      BY <1>0, <2>0, <3>3, StopEntries DEF ExecutionTimeout
    <3>4. CASE CheckPasses(c) \/ StartEngine(c)
      <4>1. \/ active' = active
            \/ active[f] # None /\ \/ active' = [active EXCEPT ![f].response = TRUE]
                                   \/ active' = [active EXCEPT ![f].engine = c]
        BY <3>4 DEF CheckPasses, StartEngine, hasEntry
      <4>2. active[f] # None => active[f] \in Entries
        BY <1>0, <2>0
      <4> QED  BY <1>0, <2>0, <4>1, <4>2 DEF Entries
    <3>5. CASE putExecutionToWait(c)
      BY <1>0, <2>0, <3>5 DEF putExecutionToWait
    <3>6. CASE \/ AddThrottle(c) \/ AddStore(c) \/ EngineEnds(c) \/ SaveResult(c) \/ CheckFails(c)
               \/ nodeExecuteBefore(c) \/ CancelSave(c)
      BY <1>0, <3>6 DEF AddThrottle, AddStore, EngineEnds, SaveResult, CheckFails,
                        nodeExecuteBefore, CancelSave
    <3> QED  BY <1>3, <3>1, <3>2, <3>3, <3>4, <3>5, <3>6 DEF OwnStep, CallStep
  <2> QED  BY <1>0, <2>1, <2>3, <2>6, <2>7, NeverWaitsKept
<1>4. CASE runEnqueuedExecutions \/ Restart \/ UNCHANGED vars
  <2>1. UNCHANGED <<outcome, recovery, row, active, timer>>
    BY <1>4 DEF runEnqueuedExecutions, Restart, vars, busVars, callVars, processVars
  <2> QED  BY <1>0, <2>1, NeverWaitsKept
<1>5. CASE shutdown
  <2>1. UNCHANGED <<outcome, recovery, row>> /\ ~timer'[e]
    BY <1>5 DEF shutdown
  <2>2. active'[e] # None => active'[e] = active[e]
    BY <1>5 DEF shutdown
  <2> QED  BY <1>0, <2>1, <2>2, NeverWaitsKept
<1>6. CASE Exit \/ forceShutdown \/ Crash
  <2>1. memoryLost
    BY <1>6 DEF Exit, forceShutdown, Crash
  <2>2. UNCHANGED <<outcome, row>> /\ ~timer'[e] /\ active'[e] = None /\ recovery' = NoRecovery
    BY <2>1 DEF memoryLost
  <2> QED  BY <1>0, <2>2 DEF NeverWaits, NoRecovery, callsOf
<1>7. CASE Recover
  <2>1. UNCHANGED <<outcome, active, timer>> /\ RecoveryStep
    BY <1>7 DEF Recover, callVars
  <2>2. /\ ~row'[e].waitTill
        /\ recovery'.amended # <<>> /\ recovery'.amended[1] = e => ~recovery'.amended[2].waitTill
    <3>1. recovery.amended # <<>> /\ recovery.amended[1] = e => ~recovery.amended[2].waitTill
      BY DEF NeverWaits
    <3>2. CASE initialize \/ markAllAsCrashed \/ endRecoveryProcess
      <4>1. ~row'[e].waitTill
        BY <1>0, <3>2, WaitTillWrites DEF initialize, markAllAsCrashed, endRecoveryProcess
      <4>2. recovery'.amended = <<>>
        BY <3>2 DEF initialize, markAllAsCrashed, endRecoveryProcess, NoRecovery
      <4> QED  BY <4>1, <4>2
    <3>3. ASSUME NEW f \in Executions, amend(f)
          PROVE  /\ ~row'[e].waitTill
                 /\ recovery'.amended # <<>> /\ recovery'.amended[1] = e
                      => ~recovery'.amended[2].waitTill
      <4> DEFINE amended(b) == [markAsCrashed(row[f]) EXCEPT !.error = @ \/ b]
      <4>1. ~row'[e].waitTill
        BY <1>0, <3>3, WaitTillWrites DEF amend
      <4>2. PICK b \in BOOLEAN :
               \/ recovery' = [recovery EXCEPT !.left = @ \ {f}, !.amended = <<>>]
               \/ recovery' = [recovery EXCEPT !.left = @ \ {f},
                                               !.amended = <<f, amended(b), "update">>]
        BY <3>3 DEF amend
      <4>3. markAsCrashed(row[f]) \in Rows /\ (f = e => ~markAsCrashed(row[f]).waitTill)
        BY <1>0, RowWrites, WaitTillWrites
      <4>4. f = e => ~amended(b).waitTill
        BY <4>3 DEF Rows
      <4> HIDE DEF amended
      <4>5. recovery \in Recoveries
        BY DEF LifecycleTypes
      <4>6. recovery'.amended = <<>> \/ recovery'.amended = <<f, amended(b), "update">>
        BY <4>2, <4>5 DEF Recoveries
      <4>7. CASE recovery'.amended = <<f, amended(b), "update">>
        <5>1. recovery'.amended[1] = f /\ recovery'.amended[2] = amended(b)
          BY <4>7
        <5> QED  BY <4>1, <4>4, <5>1
      <4> QED  BY <4>1, <4>6, <4>7
    <3>4. ASSUME recovery.amended # <<>>
          PROVE  \E f \in Executions : \E r \in Rows : \E n \in {"update", "hooks"} :
                    recovery.amended = <<f, r, n>>
      BY <3>4 DEF Recoveries, LifecycleTypes
    <3>5. CASE recoverFromLogs
      <4>1. PICK f \in Executions, r \in Rows, n \in {"update", "hooks"} :
               recovery.amended = <<f, r, n>>
        BY <3>4, <3>5 DEF recoverFromLogs
      <4>2. row' = [row EXCEPT ![f] = r] /\ (f = e => ~r.waitTill)
        BY <3>1, <3>5, <4>1 DEF recoverFromLogs
      <4>3. recovery' = [recovery EXCEPT !.amended = [<<f, r, n>> EXCEPT ![3] = "hooks"]]
        BY <3>5, <4>1 DEF recoverFromLogs
      <4>4. [<<f, r, n>> EXCEPT ![3] = "hooks"] = <<f, r, "hooks">>
        OBVIOUS
      <4>5. recovery'.amended = <<f, r, "hooks">>
        BY <4>3, <4>4 DEF LifecycleTypes, Recoveries
      <4>6. recovery'.amended[1] = f /\ recovery'.amended[2] = r
        BY <4>5
      <4> QED  BY <1>0, <4>2, <4>6
    <3>6. CASE runHooks
      <4>1. PICK f \in Executions, r \in Rows, n \in {"update", "hooks"} :
               recovery.amended = <<f, r, n>>
        BY <3>4, <3>6 DEF runHooks
      <4> DEFINE new == [status   |-> determineFinalExecutionStatus(r.status, r.waitTill),
                         waitTill |-> row[f].waitTill \/ r.waitTill,
                         error    |-> r.error]
      <4>2. row' = [row EXCEPT ![f] = new]
        BY <3>6, <4>1 DEF runHooks
      <4>3. f = e => ~new.waitTill
        BY <1>0, <3>1, <4>1
      <4>4. recovery'.amended = <<>>
        BY <3>6 DEF runHooks, LifecycleTypes, Recoveries
      <4> HIDE DEF new
      <4>5. ~row'[e].waitTill
        BY <1>0, <4>2, <4>3
      <4> QED  BY <4>4, <4>5
    <3> QED  BY <2>1, <3>2, <3>3, <3>5, <3>6 DEF RecoveryStep
  <2> QED  BY <1>0, <2>1, <2>2 DEF NeverWaits, callsOf
<1> QED  BY <1>1, <1>2, <1>3, <1>4, <1>5, <1>6, <1>7, StepKinds

\* The recovery pass is over before the process is up.
LEMMA RecoverPhases ==
    ASSUME LifecycleTypes, Recover
    PROVE  phase' = phase \/ phase \notin {"up", "stopping"}
BY DEF Recover, RecoveryStep, initialize, markAllAsCrashed, amend, recoverFromLogs, runHooks,
       endRecoveryProcess

\* The calls of an execution that does not wait follow one another: the first is
\* created by a request, another only by the startup of the next process.
LEMMA OneCallStep ==
    ASSUME LifecycleTypes, quietStartup, CallsInOrder, NEW e \in Executions \ Waiters,
           NeverWaits(e), OneCallAtATime(e), [LifecycleNext]_vars
    PROVE  OneCallAtATime(e)'
<1>0. /\ pc \in [Calls -> CallStates]
      /\ phase \notin {"up", "stopping"} => \A c \in callsOf(e) : pc[c] \in {"idle", "done"}
      /\ \A c, d \in callsOf(e) :
            pc[c] \notin {"idle", "done"} /\ pc[d] \notin {"idle", "done"} => c = d
      /\ callsOf(e) \subseteq Calls /\ \A c \in callsOf(e) : executionId(c) = e
  BY DEF LifecycleTypes, OneCallAtATime, callsOf
<1>1. ASSUME \A c \in callsOf(e) : pc'[c] = pc[c] \/ pc[c] \notin {"idle", "done"}
                                   \/ pc'[c] \in {"idle", "done"},
             phase' = phase \/ phase \notin {"up", "stopping"} \/ phase' \in {"up", "stopping"}
      PROVE  OneCallAtATime(e)'
  BY <1>0, <1>1 DEF OneCallAtATime, callsOf
<1>2. ASSUME NEW f \in Executions, RequestStep(f), UNCHANGED processVars
      PROVE  OneCallAtATime(e)'
  <2>1. CASE ~Create(f) \/ f # e
    <3>1. UNCHANGED pc \/ (f # e /\ pc' = [pc EXCEPT ![<<f, 1>>] = "created"])
      BY <1>2, <2>1 DEF RequestStep, Create, getWaitingExecutions, StopRead, StopAct, StopWrite,
                        callVars
    <3>2. \A c \in callsOf(e) : pc'[c] = pc[c]
      BY <1>0, <3>1 DEF executionId
    <3> QED  BY <1>1, <1>2, <3>2 DEF processVars
  <2>2. CASE Create(e)
    <3>1. phase = "up" /\ pc[<<e, 1>>] = "idle" /\ pc' = [pc EXCEPT ![<<e, 1>>] = "created"]
      BY <2>2 DEF Create, served, fresh
    <3>2. \A c \in callsOf(e) : pc[c] = "idle"
      BY <3>1, FirstComesFirst
    <3>3. phase' = "up" /\ \A c \in callsOf(e) : pc'[c] = "idle" \/ c = <<e, 1>>
      BY <1>0, <1>2, <3>1, <3>2 DEF processVars
    <3> QED  BY <3>3 DEF OneCallAtATime, callsOf
  <2> QED  BY <2>1, <2>2
<1>3. ASSUME NEW c \in Calls, startExecution(c) \/ executeWebhook(c), UNCHANGED processVars
      PROVE  OneCallAtATime(e)'
  <2>1. executionId(c) # e
    BY <1>3 DEF startExecution, executeWebhook, NeverWaits
  <2>2. UNCHANGED pc \/ pc' = [pc EXCEPT ![c] = "created"]
    BY <1>3 DEF startExecution, executeWebhook
  <2>3. \A d \in callsOf(e) : pc'[d] = pc[d]
    BY <1>0, <2>1, <2>2
  <2> QED  BY <1>1, <1>3, <2>3 DEF processVars
<1>4. ASSUME NEW c \in Calls, OwnStep(c), UNCHANGED processVars
      PROVE  OneCallAtATime(e)'
  BY <1>0, <1>1, <1>4, OwnStepMoves DEF processVars
<1>5. CASE runEnqueuedExecutions
  <2>1. /\ phase = "starting" /\ phase' = "up"
        /\ \A c \in Calls : pc'[c] = pc[c] \/ fresh(c)
    BY <1>5 DEF runEnqueuedExecutions
  <2>2. \A c \in callsOf(e) : pc'[c] \in {"idle", "done"} \/ fresh(c)
    BY <1>0, <2>1
  <2>3. \A c, d \in callsOf(e) : fresh(c) /\ fresh(d) => c = d
    BY <1>0, FreshIsUnique
  <2> QED  BY <2>1, <2>2, <2>3 DEF OneCallAtATime, callsOf
<1>6. CASE Exit \/ forceShutdown \/ Crash
  <2>1. \A c \in callsOf(e) : pc'[c] \in {"idle", "done"}
    BY <1>0, <1>6 DEF Exit, forceShutdown, Crash, memoryLost
  <2> QED  BY <2>1 DEF OneCallAtATime, callsOf
<1>7. CASE shutdown
  BY <1>1, <1>7 DEF shutdown
<1>8. CASE Recover
  <2>1. UNCHANGED pc
    BY <1>8 DEF Recover, callVars
  <2> QED  BY <1>1, <1>8, <2>1, RecoverPhases
<1>9. CASE Restart
  BY <1>1, <1>9 DEF Restart, callVars
<1>10. CASE UNCHANGED vars
  BY <1>1, <1>10 DEF vars, callVars, processVars
<1> QED
  BY <1>2, <1>3, <1>4, <1>5, <1>6, <1>7, <1>8, <1>9, <1>10, StepKinds

\* The entries and slots of the execution stay, or a queued call is let through
\* or removed.
LEMMA CapacityKeptAlone ==
    ASSUME LifecycleTypes, ProtocolInv, NEW e \in Executions, CapacityIsKept(e),
           active'[e] # None => active[e] # None /\ active'[e].owner = active[e].owner,
           active[e] # None => active'[e] # None,
           \A c \in callsOf(e) : \/ slot'[c] = slot[c]
                                 \/ slot[c] = "queued"
                                 \/ slot'[c] # "held",
           \A c \in callsOf(e) : \/ pc'[c] = pc[c]
                                 \/ pc[c] \notin {"throttling", "stored"} /\ pc'[c] # "done"
                                 \/ pc[c] = "throttling" /\ pc'[c] = "stored"
                                 \/ active[e] = None /\ pc[c] \notin {"throttling", "stored"}
    PROVE  CapacityIsKept(e)'
<1>1. /\ active[e] # None => pc[active[e].owner] # "done"
      /\ \A c \in callsOf(e) :
            slot[c] = "held" => \/ pc[c] \in {"throttling", "stored"}
                                \/ active[e] # None /\ active[e].owner = c
  BY DEF CapacityIsKept
<1>2. \A c \in Calls : slot[c] = "queued" => pc[c] = "throttling"
  BY DEF ProtocolInv, SlotFollowsCall
<1>3. callsOf(e) \subseteq Calls
  BY DEF callsOf
<1>4. active[e] # None => active[e].owner \in callsOf(e) /\ pc[active[e].owner] \notin Before
  BY DEF ProtocolInv, EntryHoldsSlot, callsOf, Before
<1>5. active'[e] # None => pc'[active'[e].owner] # "done"
  BY <1>1, <1>4 DEF Before
<1>6. ASSUME NEW c \in callsOf(e), slot'[c] = "held"
      PROVE  \/ pc'[c] \in {"throttling", "stored"}
             \/ active'[e] # None /\ active'[e].owner = c
  <2>1. \/ pc[c] \in {"throttling", "stored"}
        \/ active[e] # None /\ active[e].owner = c
    BY <1>1, <1>2, <1>3, <1>6
  <2> QED  BY <1>6, <2>1
<1> QED  BY <1>5, <1>6 DEF CapacityIsKept, callsOf

\* The entry of the execution is settled: its owner is released with it.
LEMMA CapacityKeptSettled ==
    ASSUME LifecycleTypes, ProtocolInv, NEW e \in Executions, NeverWaits(e), CapacityIsKept(e),
           active[e] # None, settle(e),
           \A c \in callsOf(e) : pc'[c] = pc[c] \/ pc[c] \notin {"throttling", "stored"}
    PROVE  CapacityIsKept(e)'
<1>1. active'[e] = None
  BY SettleEntries DEF NeverWaits
<1>2. ~active[e].settled /\ active[e].owner \in Calls
  BY DEF NeverWaits, ProtocolInv, EntryHoldsSlot
<1>3. Release(active[e].owner)
  BY <1>2 DEF settle, Release, ProtocolInv, EntryHoldsSlot
<1>4. /\ slot'[active[e].owner] = "released"
      /\ \A d \in Calls \ {active[e].owner} :
            slot'[d] = slot[d] \/ (slot[d] = "queued" /\ slot'[d] = "held")
  BY <1>2, <1>3, ReleaseEffect DEF ProtocolInv
<1>5. ASSUME NEW c \in callsOf(e), slot'[c] = "held"
      PROVE  pc'[c] \in {"throttling", "stored"}
  <2>1. c \in Calls /\ c # active[e].owner /\ slot[c] \in {"queued", "held"}
    BY <1>4, <1>5 DEF callsOf
  <2>2. pc[c] \in {"throttling", "stored"}
    BY <2>1 DEF CapacityIsKept, ProtocolInv, SlotFollowsCall
  <2> QED  BY <2>2
<1> QED  BY <1>1, <1>5 DEF CapacityIsKept, callsOf

\* An entry is settled by finalizeExecution() or stopExecution().
LEMMA CapacityKeptEnds ==
    ASSUME LifecycleTypes, ProtocolInv, NEW e \in Executions, NeverWaits(e), CapacityIsKept(e),
           NEW f \in Executions, finalizeExecution(f) \/ stopExecution(f),
           \A c \in callsOf(e) :
              \/ pc'[c] = pc[c]
              \/ pc[c] \notin {"throttling", "stored"} /\ (f = e \/ pc'[c] # "done")
    PROVE  CapacityIsKept(e)'
<1>1. active[e] # None => active[e].status = "running"
  BY DEF NeverWaits
<1>2. CASE f = e /\ active[e] # None
  BY <1>1, <1>2, CapacityKeptSettled DEF finalizeExecution, stopExecution, hasEntry
<1>3. CASE f # e \/ active[e] = None
  <2>1. active'[e] = active[e]
    BY <1>3, FinalizeEntries, StopEntries
       DEF finalizeExecution, stopExecution, hasEntry
  <2>2. \A c \in Calls : \/ slot'[c] = slot[c]
                         \/ slot[c] = "queued"
                         \/ slot'[c] # "held"
    <3>1. CASE active[f] # None /\ settle(f)
      BY <3>1, SettleReleases
    <3>2. CASE UNCHANGED concurrencyVars
      BY <3>2 DEF concurrencyVars
    <3> QED  BY <3>1, <3>2 DEF finalizeExecution, stopExecution, hasEntry
  <2>3. callsOf(e) \subseteq Calls
    BY DEF callsOf
  <2> QED  BY <1>3, <2>1, <2>2, <2>3, CapacityKeptAlone
<1> QED  BY <1>2, <1>3

\* A call that registers finds no entry of its execution, and no other call of it
\* holds capacity.
LEMMA CapacityKeptRegister ==
    ASSUME LifecycleTypes, ProtocolInv, NEW c \in Calls, AddRegister(c),
           OneCallAtATime(executionId(c)), CapacityIsKept(executionId(c))
    PROVE  CapacityIsKept(executionId(c))'
<1> DEFINE e == executionId(c)
<1>1. e \in Executions /\ c \in callsOf(e)
  BY CallHasExecution DEF callsOf
<1>2. /\ pc[c] = "stored" /\ UNCHANGED concurrencyVars
      /\ pc' = [pc EXCEPT ![c] = "registered"]
      /\ active'[e].owner = c
  BY <1>1 DEF AddRegister, LifecycleTypes
<1>3. pc'[c] = "registered" /\ \A d \in Calls \ {c} : pc'[d] = pc[d]
  BY <1>2 DEF LifecycleTypes
<1>4. active[e] = None
  <2> SUFFICES ASSUME active[e] # None
               PROVE  FALSE
    OBVIOUS
  <2>1. /\ active[e].owner \in callsOf(e)
        /\ pc[active[e].owner] \notin {"idle", "created", "throttling", "stored", "done"}
    BY <1>1 DEF ProtocolInv, EntryHoldsSlot, CapacityIsKept, callsOf
  <2> QED  BY <1>1, <1>2, <2>1 DEF OneCallAtATime
<1>5. \A d \in callsOf(e) : d # c => slot[d] # "held"
  BY <1>1, <1>2, <1>4 DEF OneCallAtATime, CapacityIsKept
<1>6. \A d \in callsOf(e) : slot'[d] = "held" => d = c
  BY <1>2, <1>5 DEF concurrencyVars
<1>7. active'[e] # None
  <2>1. active' = [active EXCEPT ![e] =
                     [owner |-> c, status |-> "running", engine |-> <<>>,
                      response |-> hasEntry(e) /\ active[e].response, settled |-> FALSE]]
    BY DEF AddRegister
  <2>2. active'[e].owner = c /\ None.owner = <<>>
    BY <1>2 DEF None
  <2>3. c # <<>>
    BY DEF Calls
  <2> QED  BY <2>2, <2>3
<1>8. active'[e].owner = c /\ pc'[c] # "done"
  BY <1>2, <1>3
<1> QED  BY <1>1, <1>6, <1>7, <1>8 DEF CapacityIsKept, callsOf

\* No step loses capacity of an execution that does not wait.
LEMMA CapacityStep ==
    ASSUME LifecycleTypes, ProtocolInv, quietStartup, NEW e \in Executions \ Waiters,
           NeverWaits(e), OneCallAtATime(e), CapacityIsKept(e), [LifecycleNext]_vars
    PROVE  CapacityIsKept(e)'
<1>0. /\ pc \in [Calls -> CallStates]
      /\ active \in [Executions -> Entries \cup {None}]
      /\ callsOf(e) \subseteq Calls /\ \A c \in callsOf(e) : executionId(c) = e
  BY DEF LifecycleTypes, callsOf
<1>1. ASSUME UNCHANGED <<concurrencyVars, active>>,
             \A c \in callsOf(e) : pc'[c] = pc[c] \/ (pc[c] = "idle" /\ pc'[c] = "created")
      PROVE  CapacityIsKept(e)'
  <2>1. \A c \in callsOf(e) : slot'[c] = slot[c]
    BY <1>1 DEF concurrencyVars
  <2> QED  BY <1>1, <2>1, CapacityKeptAlone
<1>2. ASSUME NEW f \in Executions, RequestStep(f)
      PROVE  CapacityIsKept(e)'
  <2>1. CASE \/ Create(f) \/ getWaitingExecutions(f) \/ StopRead(f) \/ StopWrite(f)
    <3>1. UNCHANGED <<concurrencyVars, active>>
      BY <2>1 DEF Create, getWaitingExecutions, StopRead, StopWrite
    <3>2. UNCHANGED pc \/ (pc[<<f, 1>>] = "idle" /\ pc' = [pc EXCEPT ![<<f, 1>>] = "created"])
      BY <2>1 DEF Create, getWaitingExecutions, StopRead, StopWrite, callVars, fresh
    <3>3. \A c \in callsOf(e) : pc'[c] = pc[c] \/ (pc[c] = "idle" /\ pc'[c] = "created")
      BY <1>0, <3>2
    <3> QED  BY <1>1, <3>1, <3>3
  <2>2. CASE StopAct(f)
    <3>1. UNCHANGED pc
      BY <2>2 DEF StopAct
    <3>2. CASE stopExecution(f)
      BY <3>1, <3>2, CapacityKeptEnds
    <3>3. CASE remove(f) /\ UNCHANGED active
      <4>1. \A d \in Calls :
               slot'[d] = slot[d] \/ (slot[d] = "queued" /\ slot'[d] \in {"held", "removed"})
        BY <3>3, RemoveEffect DEF ProtocolInv
      <4> QED  BY <1>0, <3>1, <3>3, <4>1, CapacityKeptAlone
    <3> QED  BY <2>2, <3>2, <3>3 DEF StopAct
  <2> QED  BY <1>2, <2>1, <2>2 DEF RequestStep
<1>3. ASSUME NEW c \in Calls, startExecution(c) \/ executeWebhook(c)
      PROVE  CapacityIsKept(e)'
  <2>1. UNCHANGED <<concurrencyVars, active>>
    BY <1>3 DEF startExecution, executeWebhook
  <2>2. UNCHANGED pc \/ (pc[c] = "idle" /\ pc' = [pc EXCEPT ![c] = "created"])
    BY <1>3 DEF startExecution, executeWebhook, fresh
  <2> QED  BY <1>0, <1>1, <2>1, <2>2
<1>4. CASE runEnqueuedExecutions
  <2>1. UNCHANGED <<concurrencyVars, active>>
    BY <1>4 DEF runEnqueuedExecutions
  <2>2. \A c \in Calls : pc'[c] = pc[c] \/ (pc[c] = "idle" /\ pc'[c] = "created")
    BY <1>4 DEF runEnqueuedExecutions, fresh
  <2> QED  BY <1>0, <1>1, <2>1, <2>2
<1>5. CASE Recover \/ Restart \/ UNCHANGED vars
  <2>1. UNCHANGED <<concurrencyVars, active, pc>>
    BY <1>5 DEF Recover, Restart, vars, callVars
  <2> QED  BY <1>1, <2>1
<1>6. CASE Exit \/ forceShutdown \/ Crash
  <2>1. active'[e] = None /\ \A c \in Calls : slot'[c] # "held"
    BY <1>6 DEF Exit, forceShutdown, Crash, memoryLost
  <2> QED  BY <1>0, <2>1 DEF CapacityIsKept, callsOf
<1>7. CASE shutdown
  <2>1. /\ pc' = pc
        /\ \A c \in Calls : slot'[c] = slot[c] \/ slot'[c] = "released"
        /\ active'[e] = active[e] \/ active'[e] = None
        /\ active[e] # None /\ active'[e] = None /\ active[e].status = "running"
             => slot'[active[e].owner] = "released"
    <3>1. active[e] # None => active[e].owner \in Calls
      BY DEF ProtocolInv, EntryHoldsSlot
    <3> QED  BY <1>7, <3>1 DEF shutdown, hasEntry
  <2>2. CASE active'[e] = active[e]
    BY <1>0, <2>1, <2>2, CapacityKeptAlone
  <2>3. CASE active[e] # None /\ active'[e] = None
    <3>1. slot'[active[e].owner] = "released"
      BY <2>1, <2>3 DEF NeverWaits
    <3>2. ASSUME NEW c \in callsOf(e), slot'[c] = "held"
          PROVE  pc'[c] \in {"throttling", "stored"}
      BY <1>0, <2>1, <3>1, <3>2 DEF CapacityIsKept
    <3> QED  BY <2>3, <3>2 DEF CapacityIsKept, callsOf
  <2> QED  BY <2>1, <2>2, <2>3
<1>8. ASSUME NEW c \in Calls, OwnStep(c)
      PROVE  CapacityIsKept(e)'
  <2> DEFINE f == executionId(c)
  <2>0. f \in Executions
    BY CallHasExecution
  <2>1. CASE AddThrottle(c)
    <3>1. pc[c] = "created" /\ throttle(c) /\ pc' = [pc EXCEPT ![c] = "throttling"] /\ active' = active
      BY <2>1 DEF AddThrottle
    <3>2. \A d \in Calls \ {c} : slot'[d] = slot[d] /\ pc'[d] = pc[d]
      BY <1>0, <3>1, ThrottleEffect DEF ProtocolInv
    <3>3. pc'[c] = "throttling"
      BY <1>0, <3>1
    <3>4. active[e] # None => active[e].owner \in Calls /\ active[e].owner # c
      BY <3>1 DEF ProtocolInv, EntryHoldsSlot
    <3> QED  BY <1>0, <3>1, <3>2, <3>3, <3>4 DEF CapacityIsKept, callsOf
  <2>2. CASE AddStore(c)
    <3>1. UNCHANGED <<concurrencyVars, active>>
          /\ pc[c] = "throttling" /\ pc' = [pc EXCEPT ![c] = "stored"]
      BY <2>2 DEF AddStore
    <3>2. \A d \in callsOf(e) : slot'[d] = slot[d]
      BY <3>1 DEF concurrencyVars
    <3>3. \A d \in callsOf(e) : pc'[d] = pc[d] \/ (pc[d] = "throttling" /\ pc'[d] = "stored")
      BY <1>0, <3>1
    <3> QED  BY <3>1, <3>2, <3>3, CapacityKeptAlone
  <2>3. CASE AddRegister(c)
    <3>1. CASE f = e
      BY <2>3, <3>1, CapacityKeptRegister
    <3>2. CASE f # e
      <4>1. active'[e] = active[e] /\ UNCHANGED concurrencyVars
        BY <1>0, <2>0, <2>3, <3>2 DEF AddRegister
      <4>2. \A d \in callsOf(e) : pc'[d] = pc[d]
        BY <1>0, <2>3, <3>2 DEF AddRegister
      <4>3. \A d \in callsOf(e) : slot'[d] = slot[d]
        BY <4>1 DEF concurrencyVars
      <4> QED  BY <4>1, <4>2, <4>3, CapacityKeptAlone
    <3> QED  BY <3>1, <3>2
  <2>4. CASE FailedFinalize(c) \/ Finalize(c)
    <3>1. finalizeExecution(f) /\ pc' = [pc EXCEPT ![c] = "done"] /\ pc[c] \in {"failed", "saved"}
      BY <2>4 DEF FailedFinalize, Finalize
    <3>2. \A d \in callsOf(e) :
             pc'[d] = pc[d] \/ (pc[d] \notin {"throttling", "stored"} /\ f = e)
      BY <1>0, <3>1
    <3> QED  BY <2>0, <3>1, <3>2, CapacityKeptEnds
  <2>5. CASE ExecutionTimeout(c)
    BY <2>0, <2>5, CapacityKeptEnds DEF ExecutionTimeout
  <2>6. CASE nodeExecuteBefore(c) \/ CancelSave(c)
    BY <1>1, <2>6 DEF nodeExecuteBefore, CancelSave, callVars
  <2>7. CASE \/ CheckFails(c) \/ EngineEnds(c) \/ SaveResult(c)
             \/ CheckPasses(c) \/ StartEngine(c) \/ putExecutionToWait(c)
    <3>1. UNCHANGED concurrencyVars
      BY <2>7 DEF CheckFails, EngineEnds, SaveResult, CheckPasses, StartEngine, putExecutionToWait
    <3>2. \/ active' = active
          \/ active[f] # None /\ \/ active' = [active EXCEPT ![f].response = TRUE]
                                 \/ active' = [active EXCEPT ![f].engine = c]
                                 \/ active' = [active EXCEPT ![f].status = "waiting"]
      BY <2>7 DEF CheckFails, EngineEnds, SaveResult, CheckPasses, StartEngine,
                  putExecutionToWait, hasEntry
    <3>3. active[f] # None => active[f] \in Entries
      BY <1>0, <2>0
    <3>4. /\ active'[e] # None => active[e] # None /\ active'[e].owner = active[e].owner
          /\ active[e] # None => active'[e] # None
      <4>0. active[e] # None => active'[e].owner = active[e].owner
        BY <1>0, <2>0, <3>2, <3>3 DEF Entries
      <4>1. active[e] # None => active'[e] \in Entries
        BY <1>0, <2>0, <3>2, <3>3, EntryWrites
      <4>2. None \notin Entries
        BY DEF None, Entries, Calls
      <4>3. active[e] = None => active'[e] = None
        BY <1>0, <2>0, <3>2
      <4> QED  BY <4>0, <4>1, <4>2, <4>3
    <3>5. \A d \in callsOf(e) : slot'[d] = slot[d]
      BY <3>1 DEF concurrencyVars
    <3>6. \A d \in callsOf(e) :
             \/ pc'[d] = pc[d]
             \/ pc[d] \notin {"throttling", "stored"} /\ pc'[d] # "done"
             \/ active[e] = None /\ pc[d] \notin {"throttling", "stored"}
      BY <1>0, <2>7 DEF CheckFails, EngineEnds, SaveResult, CheckPasses, StartEngine,
                        putExecutionToWait, hasEntry
    <3> QED  BY <3>4, <3>5, <3>6, CapacityKeptAlone
  <2> QED  BY <1>8, <2>1, <2>2, <2>3, <2>4, <2>5, <2>6, <2>7 DEF OwnStep, CallStep
<1> QED  BY <1>2, <1>3, <1>4, <1>5, <1>6, <1>7, <1>8, StepKinds

LEMMA LeakInit == Init => LeakInv
<1> SUFFICES ASSUME Init
             PROVE  LeakInv
  OBVIOUS
<1>0. MaxRuns \in Nat \ {0}
  BY ConcurrencyAssumption
<1>1. /\ \A c \in Calls : pc[c] = "idle" /\ slot[c] = "idle" /\ outcome[c] = "none"
      /\ \A e \in Executions : active[e] = None /\ ~timer[e] /\ row[e] = NoRow
      /\ recovery.amended = <<>>
  BY DEF Init, ConcurrencyInit, RecoveryInit, NoRecovery
<1>2. CallsInOrder
  <2>1. \A e \in Executions : \A n \in 1..MaxRuns : <<e, n>> \in Calls
    BY DEF Calls
  <2> QED  BY <1>1, <2>1 DEF CallsInOrder
<1>3. ASSUME NEW e \in Executions
      PROVE  NeverWaits(e) /\ OneCallAtATime(e) /\ CapacityIsKept(e)
  <2>1. \A c \in callsOf(e) : c \in Calls
    BY DEF callsOf
  <2>2. ~row[e].waitTill
    BY <1>1 DEF NoRow
  <2> QED  BY <1>1, <2>1, <2>2 DEF NeverWaits, OneCallAtATime, CapacityIsKept
<1> QED  BY <1>2, <1>3 DEF LeakInv

\* If requests do not arrive before startup is over, executions that do not wait
\* have one call at a time, which holds its capacity through the entry it made,
\* across stops, timeouts, failures, shutdowns, crashes and recovery, and whatever
\* other executions do.
THEOREM LeakInvariant ==
    ASSUME quietStartup
    PROVE  LifecycleSpec => []LeakInv
<1>1. ASSUME LifecycleTypes, ProtocolInv, LeakInv, [LifecycleNext]_vars
      PROVE  LeakInv'
  <2>1. CallsInOrder'
    BY <1>1, CallsInOrderStep DEF LeakInv
  <2>2. ASSUME NEW e \in Executions \ Waiters
        PROVE  (NeverWaits(e) /\ OneCallAtATime(e) /\ CapacityIsKept(e))'
    <3>1. CallsInOrder /\ NeverWaits(e) /\ OneCallAtATime(e) /\ CapacityIsKept(e)
      BY <1>1 DEF LeakInv
    <3> QED  BY <1>1, <3>1, NeverWaitsStep, OneCallStep, CapacityStep
  <2> QED  BY <2>1, <2>2 DEF LeakInv
<1> QED
  BY <1>1, LeakInit, LifecycleTypesInvariant, ProtocolInvariant, PTL DEF LifecycleSpec

\* So without nodes that wait a call never loses the capacity it took: until it
\* has made its entry it is still on its way there, and from then on the entry
\* whose .finally releases it is there.  (With them it can be lost: a stop of a
\* waiting entry does not reject its promise, and a resumption may replace it.)
THEOREM NoCapacityLeakHolds ==
    ASSUME quietStartup, Waiters = {}
    PROVE  LifecycleSpec => []NoCapacityLeak
<1>1. LeakInv => NoCapacityLeak
  <2> SUFFICES ASSUME LeakInv, NEW c \in Calls, slot[c] = "held",
                      pc[c] \notin {"throttling", "stored"}
               PROVE  LET entry == active[executionId(c)]
                      IN  entry # None /\ entry.owner = c /\ ~entry.settled
    BY DEF NoCapacityLeak
  <2>1. executionId(c) \in Executions \ Waiters /\ c \in callsOf(executionId(c))
    BY CallHasExecution DEF callsOf
  <2>2. NeverWaits(executionId(c)) /\ CapacityIsKept(executionId(c))
    BY <2>1 DEF LeakInv
  <2> QED  BY <2>1, <2>2 DEF NeverWaits, CapacityIsKept
<1> QED  BY <1>1, LeakInvariant, PTL

-----------------------------------------------------------------------------
(* A row that says running is cared for                                    *)

\* The engine of a call can be cancelled only once it runs, and a timeout is set
\* only for an engine that was started.
LEMMA CancelSignals ==
    ASSUME LifecycleTypes, SignalsFollowCall, NEW C, cancelEngines(C), NEW c \in Calls
    PROVE  /\ cancelSave'[c] \/ cancelled'[c] => pc[c] \in {"running", "saving", "saved", "done"}
           /\ cancelled'[c] => cancelled[c] \/ cancelSave'[c]
           /\ cancelSave[c] => cancelSave'[c]
BY DEF cancelEngines, SignalsFollowCall, LifecycleTypes

LEMMA StopSignals ==
    ASSUME LifecycleTypes, SignalsFollowCall, NEW e \in Executions, stopExecution(e), NEW c \in Calls
    PROVE  /\ cancelSave'[c] \/ cancelled'[c] => pc[c] \in {"running", "saving", "saved", "done"}
           /\ cancelled'[c] => cancelled[c] \/ cancelSave'[c]
           /\ cancelSave[c] => cancelSave'[c]
<1>1. CASE UNCHANGED <<cancelled, cancelSave>>
  BY <1>1 DEF SignalsFollowCall
<1>2. CASE \E C : cancelEngines(C)
  BY <1>2, CancelSignals
<1> QED  BY <1>1, <1>2 DEF stopExecution

\* A step of a call changes its own signals, or cancels engines.
LEMMA OwnSignals ==
    ASSUME LifecycleTypes, SignalsFollowCall, NEW c \in Calls, OwnStep(c)
    PROVE  SignalsFollowCall'
<1>0. /\ pc \in [Calls -> CallStates] /\ outcome \in [Calls -> Outcomes]
      /\ cancelled \in [Calls -> BOOLEAN] /\ cancelSave \in [Calls -> BOOLEAN]
      /\ armed \in [Calls -> BOOLEAN]
  BY DEF LifecycleTypes
<1>1. ASSUME NEW d \in Calls
      PROVE  /\ armed[d] => pc[d] \in {"running", "saving", "saved"}
             /\ cancelSave[d] \/ cancelled[d] => pc[d] \in {"running", "saving", "saved", "done"}
             /\ pc[d] = "saving" => outcome[d] # "none"
  BY DEF SignalsFollowCall
<1>2. CASE ExecutionTimeout(c)
  <2>1. stopExecution(executionId(c)) /\ executionId(c) \in Executions
        /\ UNCHANGED <<pc, outcome>> /\ armed' = [armed EXCEPT ![c] = FALSE]
    BY <1>2, CallHasExecution DEF ExecutionTimeout
  <2>2. \A d \in Calls :
           cancelSave'[d] \/ cancelled'[d] => pc[d] \in {"running", "saving", "saved", "done"}
    BY <2>1, StopSignals
  <2> QED  BY <1>0, <1>1, <2>1, <2>2 DEF SignalsFollowCall
<1>3. CASE StartEngine(c)
  <2>1. /\ pc[c] = "starting" /\ pc' = [pc EXCEPT ![c] = "running"]
        /\ \A d \in Calls \ {c} : armed'[d] = armed[d]
        /\ UNCHANGED <<outcome, cancelled, cancelSave>>
    BY <1>0, <1>3 DEF StartEngine
  <2>2. pc'[c] = "running" /\ \A d \in Calls \ {c} : pc'[d] = pc[d]
    BY <1>0, <2>1
  <2> QED  BY <1>1, <2>1, <2>2 DEF SignalsFollowCall
<1>4. CASE EngineEnds(c)
  <2>1. /\ pc[c] = "running" /\ pc' = [pc EXCEPT ![c] = IF cancelled[c] THEN "saved" ELSE "saving"]
        /\ UNCHANGED <<armed, cancelled, cancelSave>>
    BY <1>4 DEF EngineEnds
  <2>2. pc'[c] \in {"saved", "saving"} /\ \A d \in Calls \ {c} : pc'[d] = pc[d]
    BY <1>0, <2>1
  <2>3. outcome'[c] # "none" /\ \A d \in Calls \ {c} : outcome'[d] = outcome[d]
    BY <1>0, <1>4 DEF EngineEnds
  <2> QED  BY <1>1, <2>1, <2>2, <2>3 DEF SignalsFollowCall
<1>5. CASE Finalize(c)
  <2>1. /\ pc[c] = "saved" /\ pc' = [pc EXCEPT ![c] = "done"]
        /\ armed' = [armed EXCEPT ![c] = FALSE]
        /\ UNCHANGED <<outcome, cancelled, cancelSave>>
    BY <1>5 DEF Finalize
  <2>2. pc'[c] = "done" /\ ~armed'[c] /\ \A d \in Calls \ {c} : pc'[d] = pc[d] /\ armed'[d] = armed[d]
    BY <1>0, <2>1
  <2> QED  BY <1>1, <2>1, <2>2 DEF SignalsFollowCall
<1>6. CASE SaveResult(c)
  <2>1. /\ pc[c] = "saving" /\ pc' = [pc EXCEPT ![c] = "saved"]
        /\ UNCHANGED <<outcome, armed, cancelled, cancelSave>>
    BY <1>6 DEF SaveResult
  <2>2. pc'[c] = "saved" /\ \A d \in Calls \ {c} : pc'[d] = pc[d]
    BY <1>0, <2>1
  <2> QED  BY <1>1, <2>1, <2>2 DEF SignalsFollowCall
<1>7. CASE CancelSave(c)
  <2>1. UNCHANGED <<pc, outcome, armed, cancelled>> /\ cancelSave' = [cancelSave EXCEPT ![c] = FALSE]
    BY <1>7 DEF CancelSave
  <2> QED  BY <1>0, <1>1, <2>1 DEF SignalsFollowCall
<1>8. CASE nodeExecuteBefore(c) \/ putExecutionToWait(c)
  <2>1. UNCHANGED <<pc, armed, cancelled, cancelSave>> /\ pc[c] = "running"
    BY <1>8 DEF nodeExecuteBefore, putExecutionToWait, callVars
  <2>2. \A d \in Calls \ {c} : outcome'[d] = outcome[d]
    BY <1>0, <1>8 DEF nodeExecuteBefore, putExecutionToWait, callVars
  <2> QED  BY <1>1, <2>1, <2>2 DEF SignalsFollowCall
<1>9. CASE \/ AddThrottle(c) \/ AddStore(c) \/ AddRegister(c) \/ CheckPasses(c) \/ CheckFails(c)
           \/ FailedFinalize(c)
  <2>1. /\ pc[c] \in {"created", "throttling", "stored", "registered", "failed"}
        /\ \E v \in {"throttling", "stored", "registered", "failed", "starting", "done"} :
              pc' = [pc EXCEPT ![c] = v]
        /\ UNCHANGED <<outcome, armed, cancelled, cancelSave>>
    BY <1>9 DEF AddThrottle, AddStore, AddRegister, CheckPasses, CheckFails, FailedFinalize
  <2>2. /\ pc'[c] \in {"throttling", "stored", "registered", "failed", "starting", "done"}
        /\ \A d \in Calls \ {c} : pc'[d] = pc[d]
    BY <1>0, <2>1
  <2> QED  BY <1>1, <2>1, <2>2 DEF SignalsFollowCall
<1> QED
  BY <1>2, <1>3, <1>4, <1>5, <1>6, <1>7, <1>8, <1>9 DEF OwnStep, CallStep

LEMMA SignalsStep ==
    ASSUME LifecycleTypes, SignalsFollowCall, [LifecycleNext]_vars
    PROVE  SignalsFollowCall'
<1>0. pc \in [Calls -> CallStates]
  BY DEF LifecycleTypes
<1>1. ASSUME \A c \in Calls : pc'[c] = pc[c] \/ (pc[c] = "idle" /\ pc'[c] = "created"),
             UNCHANGED <<outcome, armed>>,
             \A c \in Calls : cancelSave'[c] \/ cancelled'[c]
                                 => pc[c] \in {"running", "saving", "saved", "done"}
      PROVE  SignalsFollowCall'
  BY <1>1 DEF SignalsFollowCall
<1>2. ASSUME NEW e \in Executions, RequestStep(e)
      PROVE  SignalsFollowCall'
  <2>1. UNCHANGED <<outcome, armed>>
    BY <1>2 DEF RequestStep, Create, getWaitingExecutions, StopRead, StopAct, StopWrite, callVars
  <2>2. UNCHANGED pc \/ (pc[<<e, 1>>] = "idle" /\ pc' = [pc EXCEPT ![<<e, 1>>] = "created"])
    BY <1>2 DEF RequestStep, Create, getWaitingExecutions, StopRead, StopAct, StopWrite, callVars,
                fresh
  <2>3. \A c \in Calls : pc'[c] = pc[c] \/ (pc[c] = "idle" /\ pc'[c] = "created")
    BY <1>0, <2>2
  <2>4. UNCHANGED <<cancelled, cancelSave>> \/ stopExecution(e)
    BY <1>2 DEF RequestStep, Create, getWaitingExecutions, StopRead, StopAct, StopWrite, callVars
  <2>5. \A c \in Calls : cancelSave'[c] \/ cancelled'[c]
                            => pc[c] \in {"running", "saving", "saved", "done"}
    BY <2>4, StopSignals DEF SignalsFollowCall
  <2> QED  BY <1>1, <2>1, <2>3, <2>5
<1>3. ASSUME NEW c \in Calls, startExecution(c) \/ executeWebhook(c)
      PROVE  SignalsFollowCall'
  <2>1. UNCHANGED <<outcome, armed, cancelled, cancelSave>>
    BY <1>3 DEF startExecution, executeWebhook
  <2>2. UNCHANGED pc \/ (pc[c] = "idle" /\ pc' = [pc EXCEPT ![c] = "created"])
    BY <1>3 DEF startExecution, executeWebhook, fresh
  <2>3. \A d \in Calls : pc'[d] = pc[d] \/ (pc[d] = "idle" /\ pc'[d] = "created")
    BY <1>0, <2>2
  <2> QED  BY <1>1, <2>1, <2>3 DEF SignalsFollowCall
<1>4. CASE runEnqueuedExecutions
  <2>1. UNCHANGED <<outcome, armed, cancelled, cancelSave>>
    BY <1>4 DEF runEnqueuedExecutions
  <2>2. \A d \in Calls : pc'[d] = pc[d] \/ (pc[d] = "idle" /\ pc'[d] = "created")
    BY <1>4 DEF runEnqueuedExecutions, fresh
  <2> QED  BY <1>1, <2>1, <2>2 DEF SignalsFollowCall
<1>5. CASE Recover \/ Restart \/ UNCHANGED vars
  <2>1. UNCHANGED <<outcome, armed, cancelled, cancelSave, pc>>
    BY <1>5 DEF Recover, Restart, vars, callVars
  <2> QED  BY <1>1, <2>1 DEF SignalsFollowCall
<1>6. CASE Exit \/ forceShutdown \/ Crash
  BY <1>6 DEF Exit, forceShutdown, Crash, memoryLost, SignalsFollowCall
<1>7. CASE shutdown
  <2>1. UNCHANGED <<outcome, armed, pc>> /\ \E C : cancelEngines(C)
    BY <1>7 DEF shutdown
  <2>2. \A c \in Calls : cancelSave'[c] \/ cancelled'[c]
                            => pc[c] \in {"running", "saving", "saved", "done"}
    BY <2>1, CancelSignals
  <2> QED  BY <1>1, <2>1, <2>2
<1> QED  BY <1>2, <1>3, <1>4, <1>5, <1>6, <1>7, OwnSignals, StepKinds

\* In simple mode the pass has two steps, before the process is up.
LEMMA SimpleRecover ==
    ASSUME SimpleRecovery, Recover
    PROVE  initialize \/ markAllAsCrashed
BY DEF SimpleRecovery, Recover, RecoveryStep, amend, recoverFromLogs, runHooks, endRecoveryProcess

LEMMA SimpleRecoveryStep ==
    ASSUME LifecycleTypes, crashRecoveryMode = "simple", SimpleRecovery, [LifecycleNext]_vars
    PROVE  SimpleRecovery'
<1>1. CASE UNCHANGED processVars
  BY <1>1 DEF SimpleRecovery, processVars
<1>2. CASE Recover
  <2>1. CASE initialize
    BY <2>1 DEF initialize, SimpleRecovery, NoRecovery
  <2>2. CASE markAllAsCrashed
    BY <2>2 DEF markAllAsCrashed, SimpleRecovery, NoRecovery
  <2> QED  BY <1>2, <2>1, <2>2, SimpleRecover
<1>3. CASE runEnqueuedExecutions \/ Restart \/ shutdown
  BY <1>3 DEF runEnqueuedExecutions, Restart, shutdown, SimpleRecovery, busVars
<1>4. CASE Exit \/ forceShutdown \/ Crash
  BY <1>4 DEF Exit, forceShutdown, Crash, memoryLost, SimpleRecovery, NoRecovery
<1> QED  BY <1>1, <1>2, <1>3, <1>4, StepKinds

LEMMA FirstIsCall ==
    ASSUME NEW e \in Executions
    PROVE  <<e, 1>> \in callsOf(e) /\ <<e, 1>> \in Calls
<1>1. 1 \in 1..MaxRuns
  BY ConcurrencyAssumption
<1> QED  BY <1>1 DEF callsOf, Calls, executionId

\* Steps that leave alone what execution e has.
LEMMA FirstCallKept ==
    ASSUME NEW e \in Executions, FirstCallAlone(e),
           row'[e] = row[e], active'[e] = active[e], stopper'[e] = stopper[e],
           timer'[e] => timer[e],
           \A c \in callsOf(e) : pc'[c] = pc[c],
           phase \in {"up", "stopping"} => phase' \in {"up", "stopping"}
    PROVE  FirstCallAlone(e)'
<1>1. <<e, 1>> \in callsOf(e)
  BY FirstIsCall
<1> QED  BY <1>1 DEF FirstCallAlone, early, callsOf

\* Past the permission check there is nothing to keep.
LEMMA FirstCallLater ==
    ASSUME NEW e \in Executions,
           pc'[<<e, 1>>] \notin {"idle", "created", "throttling", "stored", "registered"}
    PROVE  FirstCallAlone(e)'
BY DEF FirstCallAlone, early

\* A step of a call touches its own execution only.
LEMMA OwnStepElsewhere ==
    ASSUME LifecycleTypes, NEW c \in Calls, OwnStep(c),
           NEW e \in Executions, executionId(c) # e
    PROVE  /\ row'[e] = row[e] /\ active'[e] = active[e]
           /\ stopper' = stopper /\ timer' = timer
           /\ \A d \in callsOf(e) : pc'[d] = pc[d]
<1> DEFINE f == executionId(c)
<1>0. f \in Executions /\ row \in [Executions -> Rows]
      /\ active \in [Executions -> Entries \cup {None}]
  BY CallHasExecution DEF LifecycleTypes
<1>1. stopper' = stopper /\ timer' = timer
  BY DEF OwnStep, CallStep, AddThrottle, AddStore, AddRegister, CheckPasses,
         FailedFinalize, StartEngine, EngineEnds, SaveResult, Finalize, CheckFails,
         nodeExecuteBefore, putExecutionToWait, CancelSave, ExecutionTimeout
<1>2. row'[e] = row[e]
  BY <1>0 DEF OwnStep, CallStep, AddThrottle, AddStore, AddRegister, CheckPasses,
         FailedFinalize, StartEngine, EngineEnds, SaveResult, Finalize, CheckFails,
         nodeExecuteBefore, putExecutionToWait, CancelSave, ExecutionTimeout
<1>3. active'[e] = active[e]
  <2>1. CASE FailedFinalize(c) \/ Finalize(c)
    BY <1>0, <2>1, FinalizeEntries DEF FailedFinalize, Finalize
  <2>2. CASE ExecutionTimeout(c)
    BY <1>0, <2>2, StopEntries DEF ExecutionTimeout
  <2>3. CASE ~(FailedFinalize(c) \/ Finalize(c) \/ ExecutionTimeout(c))
    BY <1>0, <2>3 DEF OwnStep, CallStep, AddThrottle, AddStore, AddRegister, CheckPasses,
         StartEngine, EngineEnds, SaveResult, CheckFails,
         nodeExecuteBefore, putExecutionToWait, CancelSave
  <2> QED  BY <2>1, <2>2, <2>3
<1>4. \A d \in callsOf(e) : pc'[d] = pc[d]
  BY OwnStepMoves DEF callsOf
<1> QED  BY <1>1, <1>2, <1>3, <1>4

\* A request touches its own execution only.
LEMMA RequestElsewhere ==
    ASSUME LifecycleTypes, NEW f \in Executions, RequestStep(f),
           NEW e \in Executions, f # e
    PROVE  /\ row'[e] = row[e] /\ active'[e] = active[e]
           /\ stopper'[e] = stopper[e] /\ timer'[e] = timer[e]
           /\ \A d \in callsOf(e) : pc'[d] = pc[d]
<1>0. row \in [Executions -> Rows] /\ timer \in [Executions -> BOOLEAN]
      /\ stopper \in [Executions -> StopStates] /\ pc \in [Calls -> CallStates]
  BY DEF LifecycleTypes
<1>1. row'[e] = row[e] /\ stopper'[e] = stopper[e] /\ timer'[e] = timer[e]
  BY <1>0 DEF RequestStep, Create, getWaitingExecutions, StopRead, StopAct, StopWrite
<1>2. UNCHANGED active \/ stopExecution(f)
  BY DEF RequestStep, Create, getWaitingExecutions, StopRead, StopAct, StopWrite
<1>3. active'[e] = active[e]
  BY <1>2, StopEntries
<1>4. UNCHANGED pc \/ pc' = [pc EXCEPT ![<<f, 1>>] = "created"]
  BY DEF RequestStep, Create, getWaitingExecutions, StopRead, StopAct, StopWrite, callVars
<1>5. \A d \in callsOf(e) : d \in Calls /\ d # <<f, 1>>
  BY DEF callsOf, executionId
<1> QED  BY <1>0, <1>1, <1>3, <1>4, <1>5

\* The first call goes its way to the permission check alone.
LEMMA FirstCallOwn ==
    ASSUME LifecycleTypes, SignalsFollowCall, NEW e \in Executions, FirstCallAlone(e),
           NEW c \in callsOf(e), OwnStep(c), UNCHANGED processVars
    PROVE  FirstCallAlone(e)'
<1> DEFINE first == <<e, 1>>
<1>0. /\ pc \in [Calls -> CallStates] /\ row \in [Executions -> Rows]
      /\ active \in [Executions -> Entries \cup {None}]
      /\ c \in Calls /\ executionId(c) = e /\ first \in Calls /\ first \in callsOf(e)
  BY FirstIsCall DEF LifecycleTypes, callsOf
<1>1. \A d \in Calls \ {c} : pc'[d] = pc[d]
  BY <1>0, OwnStepMoves
<1>2. CASE pc[first] \notin {"idle", "created", "throttling", "stored", "registered"}
  <2>1. \/ UNCHANGED pc
        \/ pc[c] \in {"created", "throttling", "stored", "registered"}
        \/ \E v \in {"running", "saving", "saved", "done"} : pc' = [pc EXCEPT ![c] = v]
    BY DEF OwnStep, CallStep, AddThrottle, AddStore, AddRegister, CheckPasses,
         FailedFinalize, StartEngine, EngineEnds, SaveResult, Finalize, CheckFails,
         nodeExecuteBefore, putExecutionToWait, CancelSave, ExecutionTimeout, callVars
  <2>2. pc'[first] \notin {"idle", "created", "throttling", "stored", "registered"}
    BY <1>0, <1>1, <1>2, <2>1
  <2> QED  BY <2>2, FirstCallLater
<1>3. CASE early(e) \/ pc[first] = "idle"
  <2>1. /\ \A d \in callsOf(e) : d # first => pc[d] = "idle"
        /\ ~row[e].waitTill /\ ~timer[e]
        /\ active[e] # None => pc[first] = "registered"
        /\ phase \notin {"up", "stopping"} => ~early(e)
    BY <1>3 DEF FirstCallAlone
  <2>2. pc[c] # "idle"
    <3>1. armed[c] \/ cancelSave[c] => pc[c] # "idle"
      BY <1>0 DEF SignalsFollowCall
    <3> QED  BY <3>1 DEF OwnStep, CallStep, AddThrottle, AddStore, AddRegister, CheckPasses,
         FailedFinalize, StartEngine, EngineEnds, SaveResult, Finalize, CheckFails,
         nodeExecuteBefore, putExecutionToWait, CancelSave, ExecutionTimeout
  <2>3. c = first /\ early(e)
    BY <1>3, <2>1, <2>2
  <2>4. ~armed[c] /\ ~cancelSave[c]
    BY <1>0, <2>3 DEF SignalsFollowCall, early
  <2>5. \/ AddThrottle(c) \/ AddStore(c) \/ AddRegister(c) \/ CheckPasses(c) \/ CheckFails(c)
    BY <2>3, <2>4 DEF early, OwnStep, CallStep, FailedFinalize, StartEngine, EngineEnds,
         SaveResult, Finalize, nodeExecuteBefore, putExecutionToWait, CancelSave,
         ExecutionTimeout
  <2>6. \A d \in callsOf(e) : d # first => pc'[d] = "idle"
    BY <1>1, <2>1, <2>3 DEF callsOf
  <2>7. CASE CheckPasses(c) \/ CheckFails(c)
    <3>1. pc'[first] \in {"starting", "done", "failed"}
      BY <1>0, <2>3, <2>7 DEF CheckPasses, CheckFails
    <3> QED  BY <3>1, FirstCallLater
  <2>8. CASE AddThrottle(c) \/ AddStore(c)
    <3>1. /\ pc[first] \in {"created", "throttling"} /\ pc'[first] \in {"throttling", "stored"}
          /\ active' = active /\ timer' = timer /\ stopper' = stopper
      BY <1>0, <2>3, <2>8 DEF AddThrottle, AddStore
    <3>2. row'[e] \in {row[e], setRunning(row[e]), resumeRow(row[e])}
      BY <1>0, <2>8 DEF AddThrottle, AddStore
    <3>3. ~row'[e].waitTill
      BY <1>0, <2>1, <3>2, WaitTillWrites
    <3>4. active'[e] = None
      BY <2>1, <3>1
    <3>5. phase' = phase
      BY DEF processVars
    <3> QED  BY <2>1, <2>3, <2>6, <3>1, <3>3, <3>4, <3>5 DEF FirstCallAlone, early, callsOf
  <2>9. CASE AddRegister(c)
    <3>1. /\ pc[first] = "stored" /\ pc'[first] = "registered"
          /\ row' = row /\ timer' = timer /\ stopper' = stopper
      BY <1>0, <2>3, <2>9 DEF AddRegister
    <3>2. active[e] = None
      BY <2>1, <3>1
    <3>3. active'[e] = [owner |-> c, status |-> "running", engine |-> <<>>,
                        response |-> FALSE, settled |-> FALSE]
      BY <1>0, <2>9, <3>2 DEF AddRegister, hasEntry
    <3>4. active'[e].status = "running" /\ ~active'[e].response /\ active'[e].owner = c
      BY <3>3
    <3>5. active'[e] # None
      <4>1. None.owner = <<>>
        BY DEF None
      <4>2. c # <<>>
        <5>1. c \in Calls
          BY <1>0
        <5> QED  BY <5>1 DEF Calls
      <4> QED  BY <3>4, <4>1, <4>2
    <3>6. phase' = phase
      BY DEF processVars
    <3> QED  BY <2>1, <2>3, <2>6, <3>1, <3>4, <3>5, <3>6 DEF FirstCallAlone, early, callsOf
  <2> QED  BY <2>5, <2>7, <2>8, <2>9
<1> QED  BY <1>2, <1>3 DEF early

\* Requests for the execution: its creation, and a stop that may remove the entry.
LEMMA FirstCallRequest ==
    ASSUME LifecycleTypes, quietStartup, NEW e \in Executions, FirstCallAlone(e),
           RequestStep(e), UNCHANGED processVars
    PROVE  FirstCallAlone(e)'
<1> DEFINE first == <<e, 1>>
<1>0. /\ pc \in [Calls -> CallStates] /\ row \in [Executions -> Rows]
      /\ stopper \in [Executions -> StopStates] /\ timer \in [Executions -> BOOLEAN]
      /\ first \in Calls /\ first \in callsOf(e) /\ callsOf(e) \subseteq Calls
      /\ phase' = phase
  BY FirstIsCall DEF LifecycleTypes, callsOf, processVars
<1>1. CASE Create(e)
  <2>1. /\ phase = "up" /\ pc[first] = "idle" /\ pc' = [pc EXCEPT ![first] = "created"]
        /\ active' = active /\ timer' = timer /\ stopper' = stopper
        /\ row' = [row EXCEPT ![e].status = "new"]
    BY <1>1 DEF Create, served, fresh
  <2>2. /\ \A d \in callsOf(e) : d # first => pc[d] = "idle"
        /\ ~row[e].waitTill /\ ~timer[e] /\ active[e] = None
    BY <2>1 DEF FirstCallAlone
  <2>3. row'[e] = [row[e] EXCEPT !.status = "new"]
    BY <1>0, <2>1
  <2>4. ~row'[e].waitTill
    BY <1>0, <2>2, <2>3, WaitTillWrites
  <2>5. pc'[first] = "created" /\ \A d \in callsOf(e) : d # first => pc'[d] = "idle"
    BY <1>0, <2>1, <2>2
  <2> QED  BY <1>0, <2>1, <2>2, <2>4, <2>5 DEF FirstCallAlone, callsOf, early
<1>2. CASE ~Create(e) /\ pc[first] \notin {"idle", "created", "throttling", "stored", "registered"}
  <2>1. UNCHANGED pc
    BY <1>2 DEF RequestStep, getWaitingExecutions, StopRead, StopAct, StopWrite, callVars
  <2> QED  BY <1>2, <2>1, FirstCallLater
<1>3. CASE ~Create(e) /\ (early(e) \/ pc[first] = "idle")
  <2>1. /\ \A d \in callsOf(e) : d # first => pc[d] = "idle"
        /\ ~row[e].waitTill /\ ~timer[e]
        /\ active[e] # None => /\ pc[first] = "registered"
                               /\ active[e].status = "running" /\ ~active[e].response
        /\ phase \notin {"up", "stopping"} => ~early(e)
        /\ pc[first] = "idle" => row[e].status \in {"none", "crashed"} /\ stopper[e] = "none"
        /\ pc[first] = "registered" /\ active[e] = None =>
              stopper[e] = "during" \/ row[e].status # "running"
    BY <1>3 DEF FirstCallAlone
  <2>2. StopRead(e) \/ StopAct(e) \/ StopWrite(e)
    BY <1>3, <2>1 DEF RequestStep, getWaitingExecutions
  <2>3. UNCHANGED pc
    BY <2>2 DEF StopRead, StopAct, StopWrite, callVars
  <2>4. pc[first] # "idle"
    BY <2>1, <2>2 DEF StopRead, StopAct, StopWrite
  <2>5. ASSUME ~row'[e].waitTill, ~timer'[e],
               active'[e] = active[e] \/ active'[e] = None,
               active'[e] = None => \/ stopper'[e] = "during" \/ row'[e].status # "running"
                                    \/ pc[first] # "registered"
        PROVE  FirstCallAlone(e)'
    BY <1>0, <2>1, <2>3, <2>4, <2>5 DEF FirstCallAlone, callsOf, early
  <2>6. CASE StopRead(e)
    <3>1. UNCHANGED <<row, active, timer>> /\ stopper[e] = "none"
      BY <2>6 DEF StopRead
    <3> QED  BY <2>1, <2>5, <3>1
  <2>7. CASE StopAct(e)
    <3>1. row' = row /\ stopper[e] = "read"
      BY <2>7 DEF StopAct
    <3>2. CASE remove(e) /\ UNCHANGED <<active, timer>>
      BY <2>1, <2>5, <3>1, <3>2
    <3>3. CASE stopExecution(e) /\ timer' = [timer EXCEPT ![e] = FALSE]
               /\ stopper' = [stopper EXCEPT ![e] = "during"]
      <4>1. ~timer'[e] /\ stopper'[e] = "during"
        BY <1>0, <3>3
      <4>2. active'[e] = active[e] \/ active'[e] = None
        <5>1. active \in [Executions -> Entries \cup {None}]
          BY DEF LifecycleTypes
        <5>2. active[e] # None => active[e].status = "running"
          BY <2>1
        <5> QED  BY <3>3, <5>1, <5>2 DEF stopExecution, settle, hasEntry
      <4> QED  BY <2>1, <2>5, <3>1, <4>1, <4>2
    <3> QED  BY <2>7, <3>2, <3>3 DEF StopAct
  <2>8. CASE StopWrite(e)
    <3>1. UNCHANGED <<active, timer>> /\ row'[e] \in {stopBeforeRun(row[e]), stopDuringRun(row[e])}
      BY <1>0, <2>8 DEF StopWrite
    <3>2. ~row'[e].waitTill
      BY <1>0, <2>1, <3>1, WaitTillWrites
    <3>3. row'[e].status = "canceled"
      BY <1>0, <3>1 DEF stopBeforeRun, stopDuringRun, Rows
    <3> QED  BY <2>1, <2>5, <3>1, <3>2, <3>3
  <2> QED  BY <2>2, <2>6, <2>7, <2>8
<1> QED  BY <1>1, <1>2, <1>3 DEF early

\* No step gives an execution a second call before the first was checked.
LEMMA FirstCallStep ==
    ASSUME LifecycleTypes, quietStartup, SignalsFollowCall, SimpleRecovery,
           NEW e \in Executions, FirstCallAlone(e), [LifecycleNext]_vars
    PROVE  FirstCallAlone(e)'
<1> DEFINE first == <<e, 1>>
<1>0. /\ pc \in [Calls -> CallStates] /\ row \in [Executions -> Rows]
      /\ timer \in [Executions -> BOOLEAN]
      /\ first \in Calls /\ first \in callsOf(e) /\ callsOf(e) \subseteq Calls
  BY FirstIsCall DEF LifecycleTypes, callsOf
<1>1. ASSUME NEW f \in Executions, RequestStep(f), UNCHANGED processVars
      PROVE  FirstCallAlone(e)'
  <2>1. CASE f = e
    BY <1>1, <2>1, FirstCallRequest
  <2>2. CASE f # e
    <3>1. phase' = phase
      BY <1>1 DEF processVars
    <3> QED  BY <1>1, <2>2, <3>1, RequestElsewhere, FirstCallKept
  <2> QED  BY <2>1, <2>2
<1>2. ASSUME NEW c \in Calls, OwnStep(c), UNCHANGED processVars
      PROVE  FirstCallAlone(e)'
  <2>1. CASE executionId(c) = e
    <3>1. c \in callsOf(e)
      BY <2>1 DEF callsOf
    <3> QED  BY <1>2, <3>1, FirstCallOwn
  <2>2. CASE executionId(c) # e
    <3>1. phase' = phase
      BY <1>2 DEF processVars
    <3> QED  BY <1>2, <2>2, <3>1, OwnStepElsewhere, FirstCallKept
  <2> QED  BY <2>1, <2>2
<1>3. ASSUME NEW c \in Calls, startExecution(c) \/ executeWebhook(c), UNCHANGED processVars
      PROVE  FirstCallAlone(e)'
  <2>0. /\ UNCHANGED <<row, active, stopper>> /\ phase' = phase
        /\ timer'[e] => timer[e]
        /\ UNCHANGED pc \/ (pc' = [pc EXCEPT ![c] = "created"] /\ pc[c] = "idle")
    BY <1>0, <1>3 DEF startExecution, executeWebhook, processVars, fresh
  <2>1. CASE executionId(c) # e
    <3>1. \A d \in callsOf(e) : pc'[d] = pc[d]
      BY <1>0, <2>0, <2>1 DEF callsOf
    <3> QED  BY <2>0, <3>1, FirstCallKept
  <2>2. CASE executionId(c) = e
    <3>1. row[e].waitTill \/ timer[e]
      BY <1>3, <2>2 DEF startExecution, executeWebhook
    <3>2. ~early(e) /\ pc[first] # "idle"
      BY <3>1 DEF FirstCallAlone
    <3>3. pc'[first] = pc[first]
      BY <1>0, <2>0, <3>2
    <3> QED  BY <3>2, <3>3, FirstCallLater DEF early
  <2> QED  BY <2>1, <2>2
<1>4. CASE runEnqueuedExecutions
  <2>1. /\ phase = "starting" /\ phase' = "up"
        /\ UNCHANGED <<row, active, stopper, timer>>
        /\ \A c \in Calls : \/ pc'[c] = pc[c]
                            \/ pc[c] = "idle" /\ row[executionId(c)].status = "new"
    BY <1>4 DEF runEnqueuedExecutions, fresh
  <2>2. CASE pc[first] = "idle"
    <3>1. row[e].status # "new"
      BY <2>2 DEF FirstCallAlone
    <3>2. \A d \in callsOf(e) : pc'[d] = pc[d]
      BY <2>1, <3>1 DEF callsOf
    <3> QED  BY <2>1, <3>2, FirstCallKept
  <2>3. CASE pc[first] # "idle"
    <3>1. ~early(e) /\ pc'[first] = pc[first]
      BY <1>0, <2>1, <2>3 DEF FirstCallAlone
    <3> QED  BY <2>3, <3>1, FirstCallLater DEF early
  <2> QED  BY <2>2, <2>3
<1>5. CASE shutdown
  <2>1. UNCHANGED <<row, stopper, pc>> /\ phase' = "stopping" /\ ~timer'[e]
    BY <1>5 DEF shutdown
  <2>2. CASE early(e) \/ pc[first] = "idle"
    <3>1. active[e] # None => active[e].status = "running" /\ ~active[e].response
      BY <2>2 DEF FirstCallAlone
    <3>2. active'[e] = active[e]
      BY <1>5, <3>1 DEF shutdown, hasEntry
    <3> QED  BY <2>1, <3>2, FirstCallKept
  <2>3. CASE ~early(e) /\ pc[first] # "idle"
    BY <2>1, <2>3, FirstCallLater DEF early
  <2> QED  BY <2>2, <2>3
<1>6. CASE Exit \/ forceShutdown \/ Crash
  <2>1. /\ \A c \in Calls : pc'[c] = IF pc[c] = "idle" THEN "idle" ELSE "done"
        /\ row' = row /\ active'[e] = None /\ ~timer'[e]
        /\ stopper[e] = "none" => stopper'[e] = "none"
    BY <1>6 DEF Exit, forceShutdown, Crash, memoryLost
  <2>2. CASE pc[first] = "idle"
    <3>1. /\ \A d \in callsOf(e) : d # first => pc[d] = "idle"
          /\ ~row[e].waitTill /\ row[e].status \in {"none", "crashed"} /\ stopper[e] = "none"
      BY <2>2 DEF FirstCallAlone
    <3>2. \A d \in callsOf(e) : pc'[d] = "idle"
      BY <1>0, <2>1, <2>2, <3>1
    <3> QED  BY <1>0, <2>1, <3>1, <3>2 DEF FirstCallAlone, early, callsOf
  <2>3. CASE pc[first] # "idle"
    BY <1>0, <2>1, <2>3, FirstCallLater
  <2> QED  BY <2>2, <2>3
<1>7. CASE Restart \/ UNCHANGED vars
  <2>1. UNCHANGED <<row, active, stopper, timer, pc>>
        /\ (phase \in {"up", "stopping"} => phase' \in {"up", "stopping"})
    BY <1>7 DEF Restart, vars, callVars, processVars
  <2> QED  BY <2>1, FirstCallKept
<1>8. CASE Recover
  <2>1. UNCHANGED <<active, stopper, timer, pc>>
    BY <1>8 DEF Recover, callVars
  <2>2. CASE initialize
    <3>1. row' = row /\ phase = "booting"
      BY <2>2 DEF initialize
    <3> QED  BY <2>1, <3>1, FirstCallKept
  <2>3. CASE markAllAsCrashed
    <3>1. phase = "marking" /\ row'[e] \in {row[e], markAsCrashed(row[e])}
      BY <2>3 DEF markAllAsCrashed
    <3>2. ~early(e)
      BY <3>1 DEF FirstCallAlone
    <3>3. CASE row'[e] = row[e]
      BY <2>1, <3>1, <3>3, FirstCallKept
    <3>4. CASE row'[e] = markAsCrashed(row[e])
      <4>1. row'[e].status = "crashed"
        BY <1>0, <3>4 DEF markAsCrashed, Rows
      <4>2. ~row[e].waitTill => ~row'[e].waitTill
        BY <1>0, <3>4, WaitTillWrites
      <4> QED  BY <2>1, <3>2, <4>1, <4>2 DEF FirstCallAlone, early, callsOf
    <3> QED  BY <3>1, <3>3, <3>4
  <2> QED  BY <1>8, <2>2, <2>3, SimpleRecover
<1> QED  BY <1>1, <1>2, <1>3, <1>4, <1>5, <1>6, <1>7, <1>8, StepKinds

\* A call goes on to write the row while it stays where it is, whoever cancels it.
LEMMA WillWriteKept ==
    ASSUME NEW c \in Calls,
           pc'[c] = pc[c] \/ pc[c] \notin {"stored", "registered", "starting", "saving", "running"},
           cancelled'[c] => cancelled[c] \/ cancelSave'[c],
           cancelSave[c] => cancelSave'[c],
           willWrite(c)
    PROVE  willWrite(c)'
BY DEF willWrite

LEMMA CaredForKept ==
    ASSUME NEW e \in Executions, caredFor(e),
           stopper[e] \in {"before", "during"} => stopper'[e] \in {"before", "during"},
           \A c \in callsOf(e) : willWrite(c) => willWrite(c)'
    PROVE  caredFor(e)'
BY DEF caredFor, callsOf

\* No step of this kind makes a row running or leaves it alone.
LEMMA CareKept ==
    ASSUME NEW e \in Executions, RunningIsCaredFor(e),
           row'[e] = row[e], UNCHANGED processVars,
           stopper[e] \in {"before", "during"} => stopper'[e] \in {"before", "during"},
           \A c \in callsOf(e) : willWrite(c) => willWrite(c)'
    PROVE  RunningIsCaredFor(e)'
<1>1. phase' = phase /\ recovery' = recovery
  BY DEF processVars
<1>2. caredFor(e) => caredFor(e)'
  BY CaredForKept
<1> QED  BY <1>1, <1>2 DEF RunningIsCaredFor

\* A row with a later status needs no care.
LEMMA WrittenRow ==
    ASSUME NEW r \in Rows
    PROVE  /\ saveRow(r, "error").status # "running"
           /\ saveRow(r, "canceled").status # "running"
           /\ \A s \in Outcomes : saveRow(r, s).status # "running"
           /\ stopBeforeRun(r).status # "running"
           /\ stopDuringRun(r).status # "running"
           /\ markAsCrashed(r).status # "running"
           /\ [r EXCEPT !.status = "new"].status # "running"
BY DEF Rows, saveRow, determineFinalExecutionStatus, Outcomes, stopBeforeRun, stopDuringRun,
       markAsCrashed

\* The other calls still write what they would have written.
LEMMA OwnStepOthersWrite ==
    ASSUME LifecycleTypes, SignalsFollowCall, NEW c \in Calls, OwnStep(c),
           NEW d \in Calls, d # c, willWrite(d)
    PROVE  willWrite(d)'
<1>0. /\ cancelled \in [Calls -> BOOLEAN] /\ cancelSave \in [Calls -> BOOLEAN]
      /\ executionId(c) \in Executions
  BY CallHasExecution DEF LifecycleTypes
<1>1. pc'[d] = pc[d]
  BY OwnStepMoves
<1>2. \/ UNCHANGED <<cancelled, cancelSave>>
      \/ UNCHANGED cancelled /\ cancelSave' = [cancelSave EXCEPT ![c] = FALSE]
      \/ stopExecution(executionId(c))
  BY DEF OwnStep, CallStep, AddThrottle, AddStore, AddRegister, CheckPasses,
         FailedFinalize, StartEngine, EngineEnds, SaveResult, Finalize, CheckFails,
         nodeExecuteBefore, putExecutionToWait, CancelSave, ExecutionTimeout, callVars
<1>3. /\ cancelled'[d] => cancelled[d] \/ cancelSave'[d]
      /\ cancelSave[d] => cancelSave'[d]
  BY <1>0, <1>2, StopSignals
<1> QED  BY <1>1, <1>3, WillWriteKept

\* A call that sets its row running will write it, and it gives that up only when
\* it has written, or when a stop will.
LEMMA CareOwn ==
    ASSUME LifecycleTypes, SignalsFollowCall, NEW e \in Executions, FirstCallAlone(e),
           RunningIsCaredFor(e), NEW c \in callsOf(e), OwnStep(c), UNCHANGED processVars
    PROVE  RunningIsCaredFor(e)'
<1>0. /\ pc \in [Calls -> CallStates] /\ row \in [Executions -> Rows]
      /\ outcome \in [Calls -> Outcomes]
      /\ cancelled \in [Calls -> BOOLEAN] /\ cancelSave \in [Calls -> BOOLEAN]
      /\ c \in Calls /\ executionId(c) = e /\ callsOf(e) \subseteq Calls
  BY DEF LifecycleTypes, callsOf
<1>1. ASSUME willWrite(c)'
      PROVE  RunningIsCaredFor(e)'
  <2>1. caredFor(e)'
    BY <1>1 DEF caredFor, callsOf
  <2> QED  BY <2>1 DEF RunningIsCaredFor
<1>2. ASSUME row'[e].status # "running"
      PROVE  RunningIsCaredFor(e)'
  BY <1>2 DEF RunningIsCaredFor
<1>3. ASSUME row' = row, stopper' = stopper, willWrite(c) => willWrite(c)'
      PROVE  RunningIsCaredFor(e)'
  <2>1. \A d \in callsOf(e) : willWrite(d) => willWrite(d)'
    BY <1>0, <1>3, OwnStepOthersWrite
  <2> QED  BY <1>3, <2>1, CareKept
<1>4. CASE AddThrottle(c) \/ FailedFinalize(c) \/ Finalize(c)
  <2>1. /\ row' = row /\ stopper' = stopper /\ cancelled' = cancelled /\ cancelSave' = cancelSave
        /\ pc[c] \in {"created", "failed", "saved"}
    BY <1>4 DEF AddThrottle, FailedFinalize, Finalize
  <2>2. willWrite(c) => willWrite(c)'
    BY <1>0, <2>1, WillWriteKept
  <2> QED  BY <1>3, <2>1, <2>2
<1>5. CASE AddStore(c) \/ AddRegister(c)
  <2>1. pc'[c] \in {"stored", "registered"}
    BY <1>0, <1>5 DEF AddStore, AddRegister
  <2> QED  BY <1>1, <2>1 DEF willWrite
<1>6. CASE CheckPasses(c)
  <2>1. CASE pc'[c] = "starting"
    BY <1>1, <2>1 DEF willWrite
  <2>2. CASE pc'[c] # "starting"
    <3>1. c[2] = 1 /\ active[e] = None /\ pc[c] = "registered" /\ row' = row /\ stopper' = stopper
      BY <1>0, <1>6, <2>2 DEF CheckPasses, hasEntry
    <3>2. c = <<e, 1>>
      BY <1>0, <3>1 DEF Calls, executionId
    <3>3. stopper[e] = "during" \/ row[e].status # "running"
      BY <3>1, <3>2 DEF FirstCallAlone
    <3>4. caredFor(e)' \/ row'[e].status # "running"
      BY <3>1, <3>3 DEF caredFor
    <3> QED  BY <3>4 DEF RunningIsCaredFor
  <2> QED  BY <2>1, <2>2
<1>7. CASE CheckFails(c)
  <2>1. row'[e] = saveRow(row[e], "error")
    BY <1>0, <1>7 DEF CheckFails
  <2> QED  BY <1>0, <1>2, <2>1, WrittenRow
<1>8. CASE StartEngine(c)
  <2>1. pc[c] = "starting" /\ pc'[c] = "running" /\ cancelled' = cancelled
    BY <1>0, <1>8 DEF StartEngine
  <2>2. ~cancelled[c]
    BY <1>0, <2>1 DEF SignalsFollowCall
  <2> QED  BY <1>1, <2>1, <2>2 DEF willWrite
<1>9. CASE EngineEnds(c)
  <2>1. /\ row' = row /\ stopper' = stopper /\ cancelSave' = cancelSave
        /\ pc[c] = "running" /\ pc' = [pc EXCEPT ![c] = IF cancelled[c] THEN "saved" ELSE "saving"]
    BY <1>9 DEF EngineEnds
  <2>2. cancelled[c] \/ pc'[c] = "saving"
    BY <1>0, <2>1
  <2>3. willWrite(c) => willWrite(c)'
    BY <2>1, <2>2 DEF willWrite
  <2> QED  BY <1>3, <2>1, <2>3
<1>10. CASE SaveResult(c)
  <2>1. row'[e] = saveRow(row[e], outcome[c])
    BY <1>0, <1>10 DEF SaveResult
  <2> QED  BY <1>0, <1>2, <2>1, WrittenRow
<1>11. CASE CancelSave(c)
  <2>1. row'[e] = saveRow(row[e], "canceled")
    BY <1>0, <1>11 DEF CancelSave
  <2> QED  BY <1>0, <1>2, <2>1, WrittenRow
<1>12. CASE nodeExecuteBefore(c) \/ putExecutionToWait(c)
  <2>1. UNCHANGED <<row, stopper, pc, cancelled, cancelSave>>
    BY <1>12 DEF nodeExecuteBefore, putExecutionToWait, callVars
  <2> QED  BY <1>3, <2>1 DEF willWrite
<1>13. CASE ExecutionTimeout(c)
  <2>1. UNCHANGED <<row, stopper, pc>> /\ stopExecution(e)
    BY <1>0, <1>13 DEF ExecutionTimeout
  <2>2. willWrite(c) => willWrite(c)'
    BY <1>0, <2>1, StopSignals, WillWriteKept
  <2> QED  BY <1>3, <2>1, <2>2
<1> QED
  BY <1>4, <1>5, <1>6, <1>7, <1>8, <1>9, <1>10, <1>11, <1>12, <1>13 DEF OwnStep, CallStep

\* No step abandons a row that says running, and none but the recovery pass of
\* the next start deals with those the process left behind.
LEMMA CareStep ==
    ASSUME LifecycleTypes, crashRecoveryMode = "simple", SignalsFollowCall, SimpleRecovery,
           NEW e \in Executions, FirstCallAlone(e), RunningIsCaredFor(e), [LifecycleNext]_vars
    PROVE  RunningIsCaredFor(e)'
<1>0. /\ pc \in [Calls -> CallStates] /\ row \in [Executions -> Rows]
      /\ stopper \in [Executions -> StopStates]
      /\ callsOf(e) \subseteq Calls
  BY DEF LifecycleTypes, callsOf
<1>1. ASSUME NEW f \in Executions, RequestStep(f), UNCHANGED processVars
      PROVE  RunningIsCaredFor(e)'
  <2>1. CASE f = e /\ (Create(e) \/ StopWrite(e))
    <3>1. row'[e] \in {[row[e] EXCEPT !.status = "new"], stopBeforeRun(row[e]), stopDuringRun(row[e])}
      BY <1>0, <2>1 DEF Create, StopWrite
    <3>2. row'[e].status # "running"
      BY <1>0, <3>1, WrittenRow
    <3> QED  BY <3>2 DEF RunningIsCaredFor
  <2>2. CASE f = e /\ StopAct(e)
    <3>1. stopper'[e] \in {"before", "during"}
      BY <1>0, <2>2 DEF StopAct
    <3> QED  BY <3>1 DEF RunningIsCaredFor, caredFor
  <2>3. CASE f = e /\ (getWaitingExecutions(e) \/ StopRead(e))
    <3>1. UNCHANGED <<row, pc, cancelled, cancelSave>>
          /\ (stopper' = stopper \/ stopper[e] = "none")
      BY <2>3 DEF getWaitingExecutions, StopRead, callVars
    <3>2. \A c \in callsOf(e) : willWrite(c) => willWrite(c)'
      BY <3>1 DEF willWrite
    <3> QED  BY <1>1, <3>1, <3>2, CareKept
  <2>4. CASE f # e
    <3>1. /\ row'[e] = row[e] /\ stopper'[e] = stopper[e]
          /\ \A c \in callsOf(e) : pc'[c] = pc[c]
      BY <1>1, <2>4, RequestElsewhere
    <3>2. UNCHANGED <<cancelled, cancelSave>> \/ stopExecution(f)
      BY <1>1 DEF RequestStep, Create, getWaitingExecutions, StopRead, StopAct, StopWrite, callVars
    <3>3. \A c \in callsOf(e) : /\ cancelled'[c] => cancelled[c] \/ cancelSave'[c]
                                /\ cancelSave[c] => cancelSave'[c]
      BY <1>0, <3>2, StopSignals
    <3>4. \A c \in callsOf(e) : willWrite(c) => willWrite(c)'
      BY <1>0, <3>1, <3>3, WillWriteKept
    <3> QED  BY <1>1, <3>1, <3>4, CareKept
  <2> QED  BY <1>1, <2>1, <2>2, <2>3, <2>4 DEF RequestStep
<1>2. ASSUME NEW c \in Calls, OwnStep(c), UNCHANGED processVars
      PROVE  RunningIsCaredFor(e)'
  <2>1. CASE executionId(c) = e
    <3>1. c \in callsOf(e)
      BY <2>1 DEF callsOf
    <3> QED  BY <1>2, <3>1, CareOwn
  <2>2. CASE executionId(c) # e
    <3>1. \A d \in callsOf(e) : d \in Calls /\ d # c
      BY <2>2 DEF callsOf
    <3>2. \A d \in callsOf(e) : willWrite(d) => willWrite(d)'
      BY <1>2, <3>1, OwnStepOthersWrite
    <3>3. row'[e] = row[e] /\ stopper' = stopper
      BY <1>2, <2>2, OwnStepElsewhere
    <3> QED  BY <1>2, <3>2, <3>3, CareKept
  <2> QED  BY <2>1, <2>2
<1>3. ASSUME \A c \in callsOf(e) : pc'[c] = pc[c] \/ pc[c] = "idle",
             UNCHANGED <<row, stopper, cancelled, cancelSave>>
      PROVE  /\ row'[e] = row[e]
             /\ \A c \in callsOf(e) : willWrite(c) => willWrite(c)'
             /\ caredFor(e) => caredFor(e)'
  <2>1. \A c \in callsOf(e) : willWrite(c) => willWrite(c)'
    BY <1>0, <1>3, WillWriteKept
  <2> QED  BY <1>3, <2>1, CaredForKept
<1>4. ASSUME NEW c \in Calls, startExecution(c) \/ executeWebhook(c), UNCHANGED processVars
      PROVE  RunningIsCaredFor(e)'
  <2>1. /\ UNCHANGED <<row, stopper, cancelled, cancelSave>>
        /\ UNCHANGED pc \/ (pc[c] = "idle" /\ pc' = [pc EXCEPT ![c] = "created"])
    BY <1>4 DEF startExecution, executeWebhook, fresh
  <2>2. \A d \in callsOf(e) : pc'[d] = pc[d] \/ pc[d] = "idle"
    BY <1>0, <2>1
  <2> QED  BY <1>3, <1>4, <2>1, <2>2, CareKept
<1>5. CASE runEnqueuedExecutions
  <2>1. /\ phase = "starting" /\ UNCHANGED <<row, stopper, cancelled, cancelSave>>
        /\ \A c \in Calls : pc'[c] = pc[c] \/ pc[c] = "idle"
    BY <1>5 DEF runEnqueuedExecutions, fresh
  <2> QED  BY <1>0, <1>3, <2>1 DEF RunningIsCaredFor
<1>6. CASE shutdown
  <2>1. phase = "up" /\ UNCHANGED <<row, stopper, pc>> /\ \E C : cancelEngines(C)
    BY <1>6 DEF shutdown
  <2>2. \A c \in callsOf(e) : willWrite(c) => willWrite(c)'
    BY <1>0, <2>1, CancelSignals, WillWriteKept
  <2>3. caredFor(e) => caredFor(e)'
    BY <2>1, <2>2, CaredForKept
  <2> QED  BY <2>1, <2>3 DEF RunningIsCaredFor
<1>7. CASE Exit \/ forceShutdown \/ Crash \/ Restart
  <2>1. phase' \in {"down", "booting"}
    BY <1>7 DEF Exit, forceShutdown, Crash, memoryLost, Restart
  <2> QED  BY <2>1 DEF RunningIsCaredFor
<1>8. CASE Recover
  <2>1. UNCHANGED <<stopper, pc, cancelled, cancelSave>>
    BY <1>8 DEF Recover, callVars
  <2>2. CASE initialize
    <3> SUFFICES ASSUME row'[e].status = "running"
                 PROVE  phase' = "marking" /\ e \in recovery'.left
      BY DEF RunningIsCaredFor
    <3>1. row[e].status = "running"
      BY <2>2 DEF initialize
    <3> QED  BY <2>2, <3>1 DEF initialize
  <2>3. CASE markAllAsCrashed
    <3>1. CASE e \in recovery.left
      <4>1. row'[e] = markAsCrashed(row[e])
        BY <2>3, <3>1 DEF markAllAsCrashed
      <4>2. row'[e].status # "running"
        BY <1>0, <4>1, WrittenRow
      <4> QED  BY <4>2 DEF RunningIsCaredFor
    <3>2. CASE e \notin recovery.left
      <4>1. row'[e] = row[e] /\ phase = "marking"
        BY <2>3, <3>2 DEF markAllAsCrashed
      <4>2. \A c \in callsOf(e) : willWrite(c) => willWrite(c)'
        BY <2>1 DEF willWrite
      <4>3. caredFor(e) => caredFor(e)'
        BY <2>1, <4>2, CaredForKept
      <4> QED  BY <3>2, <4>1, <4>3 DEF RunningIsCaredFor
    <3> QED  BY <3>1, <3>2
  <2> QED  BY <1>8, <2>2, <2>3, SimpleRecover
<1>9. CASE UNCHANGED vars
  <2>1. UNCHANGED <<row, stopper, pc, cancelled, cancelSave>> /\ UNCHANGED processVars
    BY <1>9 DEF vars, callVars
  <2> QED  BY <1>3, <2>1, CareKept
<1> QED  BY <1>1, <1>2, <1>4, <1>5, <1>6, <1>7, <1>8, <1>9, StepKinds

LEMMA RunningInit == Init => RunningInv
<1> SUFFICES ASSUME Init
             PROVE  RunningInv
  OBVIOUS
<1>1. /\ \A c \in Calls : pc[c] = "idle" /\ ~armed[c] /\ ~cancelled[c] /\ ~cancelSave[c]
      /\ \A e \in Executions : /\ active[e] = None /\ ~timer[e] /\ stopper[e] = "none"
                               /\ row[e] = NoRow
      /\ recovery = NoRecovery /\ recoveryInProgress = FALSE /\ phase = "booting"
  BY DEF Init, RecoveryInit
<1>2. CallsInOrder
  BY LeakInit DEF LeakInv
<1>3. SignalsFollowCall
  BY <1>1 DEF SignalsFollowCall
<1>4. SimpleRecovery
  BY <1>1 DEF SimpleRecovery, NoRecovery
<1>5. ASSUME NEW e \in Executions
      PROVE  FirstCallAlone(e) /\ RunningIsCaredFor(e)
  <2>1. <<e, 1>> \in Calls /\ callsOf(e) \subseteq Calls
    BY FirstIsCall DEF callsOf
  <2>2. row[e].status = "none" /\ ~row[e].waitTill
    BY <1>1 DEF NoRow
  <2>3. \A c \in callsOf(e) : pc[c] = "idle"
    BY <1>1, <2>1
  <2>4. FirstCallAlone(e)
    BY <1>1, <2>1, <2>2, <2>3 DEF FirstCallAlone, early
  <2>5. RunningIsCaredFor(e)
    BY <2>2 DEF RunningIsCaredFor
  <2> QED  BY <2>4, <2>5
<1> QED  BY <1>2, <1>3, <1>4, <1>5 DEF RunningInv

\* If requests do not arrive before startup is over and recovery is in simple
\* mode, every row that says running is under the care of a call of this process,
\* of a pending save or stop, or of the recovery pass, across stops, timeouts,
\* waits and resumptions, failures, shutdowns and crashes.
THEOREM RunningInvariant ==
    ASSUME quietStartup, crashRecoveryMode = "simple"
    PROVE  LifecycleSpec => []RunningInv
<1>1. ASSUME LifecycleTypes, RunningInv, [LifecycleNext]_vars
      PROVE  RunningInv'
  <2>1. CallsInOrder /\ SignalsFollowCall /\ SimpleRecovery
    BY <1>1 DEF RunningInv
  <2>2. CallsInOrder' /\ SignalsFollowCall' /\ SimpleRecovery'
    BY <1>1, <2>1, CallsInOrderStep, SignalsStep, SimpleRecoveryStep
  <2>3. ASSUME NEW e \in Executions
        PROVE  (FirstCallAlone(e) /\ RunningIsCaredFor(e))'
    <3>1. FirstCallAlone(e) /\ RunningIsCaredFor(e)
      BY <1>1 DEF RunningInv
    <3> QED  BY <1>1, <2>1, <3>1, FirstCallStep, CareStep
  <2> QED  BY <2>2, <2>3 DEF RunningInv
<1> QED  BY <1>1, RunningInit, LifecycleTypesInvariant, PTL DEF LifecycleSpec

\* So a row says running only while something is left that will write a later
\* status.  (Extensive recovery leaves a row running whose execution had started
\* and not come to its first node; an execution requested during startup may be
\* run twice, and one run removes the entry without which the other gives up.)
THEOREM RunningIsLiveHolds ==
    ASSUME quietStartup, crashRecoveryMode = "simple"
    PROVE  LifecycleSpec => []RunningIsLive
<1>1. RunningInv => RunningIsLive
  <2> SUFFICES ASSUME RunningInv, NEW e \in Executions, row[e].status = "running",
                      phase \notin {"down", "booting", "recovering", "marking"},
                      stopper[e] \notin {"before", "during"}
               PROVE  \E c \in callsOf(e) :
                         \/ pc[c] \in {"stored", "registered", "starting", "running", "saving"}
                         \/ cancelSave[c]
    BY DEF RunningIsLive
  <2>1. caredFor(e)
    BY DEF RunningInv, RunningIsCaredFor
  <2> QED  BY <2>1 DEF caredFor, willWrite
<1> QED  BY <1>1, RunningInvariant, PTL

=============================================================================
