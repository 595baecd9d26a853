-------------------------- MODULE WorkflowActivation --------------------------
(***************************************************************************)
(* Activation of a workflow with triggers: MultiMainSetup (which main is   *)
(* the leader), ActiveWorkflowManager (adding, removing, the queue of      *)
(* activations to retry), ActiveWorkflows (the triggers in memory) and the *)
(* update of a workflow by the API.                                        *)
(*                                                                         *)
(* One workflow: managers treat workflows independently.  The triggers and *)
(* pollers that one activation starts are one trigger, named by a number   *)
(* per main; an activation may fail with none of them started, some, or    *)
(* all but a poller.  An operation on the triggers in memory is in flight  *)
(* from the await on the trigger to its end.  Webhooks, which live in the  *)
(* database, are left out.                                                 *)
(***************************************************************************)
EXTENDS Integers, Sequences, FiniteSets, FiniteSetsExt, SequencesExt

CONSTANTS
    Mains,       \* main processes
    Setups,      \* values of instanceSettings.isMultiMain
    MaxEdits,    \* how often the API changes the workflow
    MaxFaults,   \* failing triggers, lost leader keys, stops and crashes
    NoMain,
    GoneMain     \* the hostId of a main that crashed: a new process has a new one

ASSUME ActivationAssumption ==
    /\ IsFiniteSet(Mains) /\ Mains # {} /\ {NoMain, GoneMain} \cap Mains = {} /\ NoMain # GoneMain
    /\ Setups \subseteq BOOLEAN
    /\ MaxEdits \in Nat /\ MaxFaults \in Nat

VARIABLES
    multiMain,  \* instanceSettings.isMultiMain
    up,         \* up[m]: "down", "starting", "up" or "stopping"
    leader,     \* leader[m]: instanceSettings.isLeader
    leaderKey,  \* the key in Redis
    trying,     \* trying[m]: between stepdown and tryBecomeLeader in checkLeader
    active,     \* the column "active" of the workflow
    listening,  \* listening[m]: the triggers that run
    entry,      \* entry[m]: the trigger in activeWorkflows, 0 for none
    left,       \* left[m]: those that a failed activation or removal left running (history)
    queued,     \* queued[m]: queuedActivations: "no", "armed", or "fired"
    ops,        \* ops[m]: operations in flight
    inbox,      \* inbox[m]: commands that m has not received yet
    api,        \* the update of the workflow that is under way
    excused,    \* operations on the workflow overlapped (history)
    edits, faults

mainVars == <<multiMain, up, leader, leaderKey, trying>>
triggerVars == <<listening, entry, left, queued, ops>>
activationVars == <<mainVars, triggerVars, active, inbox, api, excused, edits, faults>>

NoCall == [pc |-> "idle", main |-> NoMain, want |-> FALSE]

Up(m) == up[m] # "down"

Triggers == 1..(3 + MaxEdits + MaxFaults)

\* What runs on m by an activation that ended well and is not removed yet, and that in memory.
own(m) == listening[m] \ left[m]
kept(m) == IF entry[m] \in left[m] THEN 0 ELSE entry[m]

\* A number no trigger of m has, closing ones included.
freshTrigger(m) == Min(Triggers \ (listening[m] \cup {op.trigger : op \in ops[m]}))

ActivationInit ==
    /\ multiMain \in Setups
    /\ up = [m \in Mains |-> "down"] /\ leader = [m \in Mains |-> FALSE]
    /\ leaderKey = NoMain /\ trying = [m \in Mains |-> FALSE]
    /\ active \in BOOLEAN
    /\ listening = [m \in Mains |-> {}] /\ entry = [m \in Mains |-> 0]
    /\ left = [m \in Mains |-> {}]
    /\ queued = [m \in Mains |-> "no"] /\ ops = [m \in Mains |-> {}]
    /\ inbox = [m \in Mains |-> <<>>] /\ api = NoCall
    /\ excused = FALSE /\ edits = 0 /\ faults = 0

-----------------------------------------------------------------------------
(* Operations in flight                                                    *)

\* From here on the workflow may end up in the wrong state: see TriggersFollowLeader.
overlap(condition) == excused' = (excused \/ condition)

inFlight(m) == ops[m] # {}

\* With several mains any of them may retry, and the leader is told.
retryElsewhere == multiMain /\ \E m \in Mains : queued[m] = "armed"

\* A main that may still take itself for the leader, and is not.
lostKey(m) == multiMain /\ leaderKey # m

Busy ==
    \/ api.pc # "idle" \/ retryElsewhere
    \/ \E m \in Mains : inFlight(m) \/ inbox[m] # <<>>

addOp(m, by) ==
    [kind |-> "add", by |-> by, trigger |-> 0,
     id |-> Min(1..10 \ {op.id : op \in ops[m]})]

\* ActiveWorkflowManager.add up to runTrigger: only the leader adds triggers.
beginAdd(m, by) ==
    ops' = [ops EXCEPT ![m] = IF leader'[m] THEN @ \cup {addOp(m, by)} ELSE @]

removeOp(m, by) == [addOp(m, by) EXCEPT !.kind = "remove", !.trigger = entry[m]]

\* Mutant: the check whether the workflow is in memory is missing.
beginRemove_Unchecked(m, by) == ops' = [ops EXCEPT ![m] = @ \cup {removeOp(m, by)}]

\* ActiveWorkflows.remove up to closeTrigger: nothing if the workflow is not in memory.
beginRemove(m, by) ==
    ops' = [ops EXCEPT ![m] = IF entry[m] # 0 THEN @ \cup {removeOp(m, by)} ELSE @]

\* Redis hands a command to every main that is subscribed, the sender included.
publishCommand(command) ==
    inbox' = [m \in Mains |-> IF Up(m) THEN Append(inbox[m], command) ELSE inbox[m]]

fault == faults < MaxFaults /\ faults' = faults + 1

endOp(m, op) == ops' = [ops EXCEPT ![m] = @ \ {op}]

\* The update waits for its own operation.
apiEnds(op) == api' = IF op.by = "api" THEN NoCall ELSE api

\* The trigger runs, and is what the workflow has in memory from now on.
AddSucceeds(m, op) ==
    LET t == freshTrigger(m)
    IN  /\ op \in ops[m] /\ op.kind = "add"
        /\ listening' = [listening EXCEPT ![m] = @ \cup {t}]
        /\ entry' = [entry EXCEPT ![m] = t]
        /\ queued' = [queued EXCEPT ![m] = "no"]
        /\ endOp(m, op) /\ apiEnds(op)
        /\ UNCHANGED <<mainVars, left, active, inbox, excused, edits, faults>>

\* How far an activation that throws came: its first trigger failed, a later one did and
\* those before it run on without an entry, or a poller did and the triggers have one.
Progress == {"none", "some", "triggers"}

leaveRunning(m, progress) ==
    LET t == freshTrigger(m)
    IN  /\ listening' = [listening EXCEPT ![m] = IF progress = "none" THEN @ ELSE @ \cup {t}]
        /\ left' = [left EXCEPT ![m] = IF progress = "none" THEN @ ELSE @ \cup {t}]
        /\ entry' = [entry EXCEPT ![m] = IF progress = "triggers" THEN t ELSE @]

\* runTrigger or activatePolling throws; what becomes of that depends on the caller.  A
\* retry whose place in the queue is gone fails on reading it.  After an authorization
\* error nothing is queued.
AddFails(m, op, progress, authorization) ==
    /\ op \in ops[m] /\ op.kind = "add" /\ fault
    /\ leaveRunning(m, progress)
    /\ authorization => op.by \in {"init", "takeover"}
    /\ queued' = [queued EXCEPT ![m] =
                    CASE op.by \in {"init", "takeover"} /\ ~authorization -> "armed"
                      [] op.by = "retry" /\ @ # "no" -> "armed"
                      [] OTHER -> @]
    /\ active' = IF op.by \in {"command", "api"} THEN FALSE ELSE active
    /\ overlap(authorization \/ lostKey(m))
    /\ endOp(m, op) /\ apiEnds(op)
    /\ UNCHANGED <<mainVars, inbox, edits>>

\* The trigger is closed, and the workflow is deleted from memory, whatever it has there.
RemoveEnds(m, op) ==
    /\ op \in ops[m] /\ op.kind = "remove"
    /\ listening' = [listening EXCEPT ![m] = @ \ {op.trigger}]
    /\ left' = [left EXCEPT ![m] = @ \ {op.trigger}]
    /\ entry' = [entry EXCEPT ![m] = 0]
    /\ endOp(m, op)
    /\ api' = IF op.by = "api" THEN [api EXCEPT !.pc = "save"] ELSE api
    /\ UNCHANGED <<mainVars, queued, active, inbox, excused, edits, faults>>

\* closeTrigger throws: trigger and entry stay, and so does the workflow as it is stored
\* if that was the removal of an update.
RemoveFails(m, op) ==
    /\ op \in ops[m] /\ op.kind = "remove" /\ fault
    /\ left' = [left EXCEPT ![m] = @ \cup (listening[m] \cap {op.trigger})]
    /\ endOp(m, op) /\ apiEnds(op)
    /\ overlap(op.by = "api")
    /\ UNCHANGED <<mainVars, listening, entry, queued, active, inbox, edits>>

\* A trigger that runs reports an error (emitError): it is removed, and added again later,
\* also if it runs for a workflow whose activation failed.
TriggerError(m, t) ==
    /\ Up(m) /\ t \in listening[m] /\ fault
    /\ beginRemove(m, "error")
    /\ queued' = [queued EXCEPT ![m] = "armed"]
    /\ overlap(Busy \/ lostKey(m) \/ t \in left[m])
    /\ UNCHANGED <<mainVars, listening, entry, left, active, inbox, api, edits>>

\* The timer of a queued activation: with several mains the leader is told to add it.
RetryActivation(m) ==
    /\ queued[m] = "armed"
    /\ queued' = [queued EXCEPT ![m] = "fired"]
    /\ IF multiMain
         THEN publishCommand("add") /\ UNCHANGED ops
         ELSE ops' = [ops EXCEPT ![m] = @ \cup {addOp(m, "retry")}] /\ UNCHANGED inbox
    /\ overlap(inFlight(m) \/ api.pc # "idle" \/ \E other \in Mains : inbox[other] # <<>>)
    /\ UNCHANGED <<mainVars, listening, entry, left, active, api, edits, faults>>

-----------------------------------------------------------------------------
(* Commands, received by every main and handled by leaders                 *)

handleAddWebhooksTriggersAndPollers(m) ==
    beginAdd(m, "command") /\ overlap(inFlight(m) \/ lostKey(m))

handleRemoveTriggersAndPollers(m) ==
    beginRemove(m, "command") /\ overlap(inFlight(m) \/ lostKey(m))

ReceiveCommand(m) ==
    /\ Up(m) /\ inbox[m] # <<>>
    /\ inbox' = [inbox EXCEPT ![m] = Tail(@)]
    /\ leader' = leader
    /\ IF ~leader[m] THEN UNCHANGED <<ops, excused>>
       ELSE IF Head(inbox[m]) = "add" THEN handleAddWebhooksTriggersAndPollers(m)
       ELSE handleRemoveTriggersAndPollers(m)
    /\ UNCHANGED <<multiMain, up, leaderKey, trying, listening, entry, left, queued, active,
                   api, edits, faults>>

-----------------------------------------------------------------------------
(* WorkflowService.update: activating, deactivating or editing a workflow; *)
(* archiving and deleting it begin in the same way.                        *)

UpdateWorkflow(m, want) ==
    /\ up[m] \in {"starting", "up"} /\ api.pc = "idle" /\ edits < MaxEdits /\ edits' = edits + 1
    /\ overlap(Busy)
    /\ IF active /\ ~multiMain
         THEN /\ queued' = [queued EXCEPT ![m] = "no"]
              /\ beginRemove(m, "api") /\ UNCHANGED inbox
         ELSE /\ IF active THEN publishCommand("remove") ELSE UNCHANGED inbox
              /\ UNCHANGED <<ops, queued>>
    /\ api' = [pc |-> IF ops' = ops THEN "save" ELSE "remove", main |-> m, want |-> want]
    /\ UNCHANGED <<mainVars, listening, entry, left, active, faults>>

SaveWorkflow ==
    /\ api.pc = "save"
    /\ active' = api.want
    /\ api' = IF api.want THEN [api EXCEPT !.pc = "add"] ELSE NoCall
    /\ UNCHANGED <<mainVars, triggerVars, inbox, excused, edits, faults>>

\* Without several mains, a failure is the caller's: AddFails sets the workflow inactive.
ActivateWorkflow ==
    /\ api.pc = "add"
    /\ leader' = leader
    /\ IF multiMain
         THEN publishCommand("add") /\ api' = NoCall /\ UNCHANGED ops
         ELSE beginAdd(api.main, "api") /\ api' = [api EXCEPT !.pc = "adding"] /\ UNCHANGED inbox
    /\ overlap(~multiMain /\ inFlight(api.main))
    /\ UNCHANGED <<multiMain, up, leaderKey, trying, listening, entry, left, queued, active, edits,
                   faults>>

-----------------------------------------------------------------------------
(* MultiMainSetup                                                          *)

\* Mutant: workflows are added when a main starts, not when it takes over.
addActiveWorkflows_OnlyInit(m, by) ==
    /\ IF active /\ by = "init" THEN beginAdd(m, by) ELSE UNCHANGED ops
    /\ UNCHANGED excused

\* addActiveWorkflows: the workflow is added if it is stored as active.
addActiveWorkflows(m, by) ==
    /\ IF active THEN beginAdd(m, by) ELSE UNCHANGED ops
    /\ overlap(leader'[m] /\ (\/ inFlight(m) \/ kept(m) # 0 \/ inbox[m] # <<>>
                              \/ api.pc # "idle" \/ retryElsewhere))

\* setIfNotExists; a main that becomes leader adds the active workflows.
tryBecomeLeader(m) ==
    /\ leaderKey' = IF leaderKey = NoMain THEN m ELSE leaderKey
    /\ leader' = [leader EXCEPT ![m] = (leaderKey = NoMain)]

\* Start.init: the role of the main.  Without several mains it is the leader.
StartMain(m) ==
    /\ up[m] = "down" /\ (multiMain \/ \A other \in Mains : ~Up(other))
    /\ up' = [up EXCEPT ![m] = "starting"]
    /\ IF multiMain THEN tryBecomeLeader(m)
       ELSE leader' = [leader EXCEPT ![m] = TRUE] /\ UNCHANGED leaderKey
    /\ UNCHANGED <<multiMain, trying, triggerVars, active, inbox, api, excused, edits, faults>>

\* ActiveWorkflowManager.init; with a takeover since, the workflow is added twice.
InitActiveWorkflows(m) ==
    /\ up[m] = "starting"
    /\ up' = [up EXCEPT ![m] = "up"]
    /\ leader' = leader
    /\ addActiveWorkflows(m, "init")
    /\ UNCHANGED <<multiMain, leaderKey, trying, listening, entry, left, queued, active, inbox, api,
                   edits, faults>>

\* Mutant: the triggers stay.
stepDown_KeepTriggers(m) ==
    leader' = [leader EXCEPT ![m] = FALSE] /\ UNCHANGED <<ops, excused>>

\* "leader-stepdown": every workflow is removed from memory.
stepDown(m) ==
    /\ leader' = [leader EXCEPT ![m] = FALSE]
    /\ beginRemove(m, "stepdown")
    /\ overlap(inFlight(m))

\* Mutant: only a vacant leadership is noticed.
StepDown_Never(m) == FALSE /\ UNCHANGED activationVars

\* checkLeader, while the key is another main's.
StepDown(m) ==
    /\ Up(m) /\ leader[m] /\ leaderKey \notin {m, NoMain} /\ ~trying[m]
    /\ stepDown(m)
    /\ UNCHANGED <<multiMain, up, leaderKey, trying, listening, entry, left, queued, active, inbox,
                   api, edits, faults>>

\* checkLeader, while there is no leader: a leader steps down first, too.
LeadershipVacant(m) ==
    /\ multiMain /\ Up(m) /\ leaderKey = NoMain /\ ~trying[m]
    /\ trying' = [trying EXCEPT ![m] = TRUE]
    /\ stepDown(m)
    /\ UNCHANGED <<multiMain, up, leaderKey, listening, entry, left, queued, active, inbox,
                   api, edits, faults>>

TakeOver(m) ==
    /\ trying[m]
    /\ trying' = [trying EXCEPT ![m] = FALSE]
    /\ tryBecomeLeader(m)
    /\ IF leaderKey = NoMain
         THEN addActiveWorkflows(m, "takeover")
         ELSE UNCHANGED <<ops, excused>>
    /\ UNCHANGED <<multiMain, up, listening, entry, left, queued, active, inbox, api, edits, faults>>

\* The key of a leader that is up expires if it is not renewed in time.
LeaderKeyExpires ==
    /\ leaderKey # NoMain
    /\ leaderKey' = NoMain
    /\ IF leaderKey \in Mains THEN fault ELSE UNCHANGED faults
    /\ UNCHANGED <<multiMain, up, leader, trying, triggerVars, active, inbox, api, excused, edits>>

-----------------------------------------------------------------------------
(* The end of a main                                                       *)

gone(m) ==
    /\ up' = [up EXCEPT ![m] = "down"] /\ leader' = [leader EXCEPT ![m] = FALSE]
    /\ trying' = [trying EXCEPT ![m] = FALSE]
    /\ listening' = [listening EXCEPT ![m] = {}] /\ entry' = [entry EXCEPT ![m] = 0]
    /\ left' = [left EXCEPT ![m] = {}]
    /\ queued' = [queued EXCEPT ![m] = "no"] /\ ops' = [ops EXCEPT ![m] = {}]
    /\ inbox' = [inbox EXCEPT ![m] = <<>>]
    /\ api' = IF api.main = m THEN NoCall ELSE api
    /\ overlap(api.main = m)
    /\ UNCHANGED <<multiMain, active, edits>>

Crash(m) ==
    /\ Up(m) /\ fault /\ gone(m)
    /\ leaderKey' = IF leaderKey = m THEN GoneMain ELSE leaderKey

\* stopProcess: retries are dropped and triggers closed ...
StopMain(m) ==
    /\ up[m] = "up" /\ fault
    /\ up' = [up EXCEPT ![m] = "stopping"]
    /\ queued' = [queued EXCEPT ![m] = "no"]
    /\ beginRemove(m, "stop")
    /\ overlap(inFlight(m))
    /\ UNCHANGED <<multiMain, leader, leaderKey, trying, listening, entry, left, active, inbox,
                   api, edits>>

\* ... then MultiMainSetup.shutdown deletes the key, if the main takes itself for the leader.
ExitMain(m) ==
    /\ up[m] = "stopping" /\ ops[m] = {} /\ gone(m)
    /\ leaderKey' = IF multiMain /\ leader[m] THEN NoMain ELSE leaderKey
    /\ UNCHANGED faults

-----------------------------------------------------------------------------
\* Bound: a behaviour is followed up to the first overlap; nothing is claimed after it.
ActivationNext ==
    /\ ~excused
    /\ \/ \E m \in Mains :
             \/ \E op \in ops[m] : AddSucceeds(m, op) \/ RemoveEnds(m, op) \/ RemoveFails(m, op)
             \/ \E op \in ops[m], progress \in Progress, authorization \in BOOLEAN :
                   AddFails(m, op, progress, authorization)
             \/ \E t \in listening[m] : TriggerError(m, t)
             \/ RetryActivation(m) \/ ReceiveCommand(m) \/ InitActiveWorkflows(m)
             \/ StepDown(m) \/ LeadershipVacant(m) \/ TakeOver(m) \/ ExitMain(m)
             \/ StartMain(m) \/ Crash(m) \/ StopMain(m)
             \/ \E want \in BOOLEAN : UpdateWorkflow(m, want)
       \/ SaveWorkflow \/ ActivateWorkflow \/ LeaderKeyExpires

\* Triggers start and close, timers fire, commands arrive, each main checks the leader key
\* in an interval, and the key of a main that is gone expires.
ActivationFairness ==
    /\ \A m \in Mains :
          /\ WF_activationVars(~excused /\ \E op \in ops[m] : AddSucceeds(m, op) \/ RemoveEnds(m, op))
          /\ WF_activationVars(~excused /\ RetryActivation(m))
          /\ WF_activationVars(~excused /\ ReceiveCommand(m))
          /\ WF_activationVars(~excused /\ InitActiveWorkflows(m))
          /\ WF_activationVars(~excused /\ (StepDown(m) \/ LeadershipVacant(m)))
          /\ WF_activationVars(~excused /\ TakeOver(m))
          /\ WF_activationVars(~excused /\ ExitMain(m))
    /\ WF_activationVars(~excused /\ (SaveWorkflow \/ ActivateWorkflow))
    /\ WF_activationVars(~excused /\ leaderKey = GoneMain /\ LeaderKeyExpires)

ActivationSpec == ActivationInit /\ [][ActivationNext]_activationVars /\ ActivationFairness

-----------------------------------------------------------------------------
(* Properties                                                              *)

\* Types: triggers run on mains that are up; a closing trigger is the one its operation
\* found in memory.
ActivationTypeOK ==
    /\ up \in [Mains -> {"down", "starting", "up", "stopping"}]
    /\ leader \in [Mains -> BOOLEAN] /\ trying \in [Mains -> BOOLEAN]
    /\ leaderKey \in Mains \cup {NoMain, GoneMain} /\ active \in BOOLEAN
    /\ queued \in [Mains -> {"no", "armed", "fired"}]
    /\ api.pc \in {"idle", "remove", "save", "add", "adding"}
    /\ \A m \in Mains :
          /\ listening[m] \subseteq Triggers /\ entry[m] \in Triggers \cup {0}
          /\ left[m] \subseteq listening[m]
          /\ \A op \in ops[m] : op.kind = "remove" <=> op.trigger # 0
          /\ up[m] = "down" => /\ listening[m] = {} /\ ops[m] = {} /\ inbox[m] = <<>>
                               /\ queued[m] = "no" /\ ~leader[m]

Settled ==
    /\ ~Busy /\ ~excused
    /\ \A m \in Mains : up[m] \in {"up", "down"} /\ ~trying[m]
    /\ \E m \in Mains : leader[m]
    /\ \A m \in Mains : leader[m] => ~multiMain \/ leaderKey = m

\* "Only the leader is allowed to manage triggers and pollers in memory, to ensure they are
\* not duplicated" (shouldAddTriggersAndPollers): once all is settled, and if operations on
\* the workflow never overlapped, the triggers of an active workflow run once, on the
\* leader, where they can be removed, or wait for the next try; those of an inactive one
\* run nowhere.  That is apart from what failed activations and removals left running:
\* ActiveWorkflows.add and remove do not undo what they did when they throw.
TriggersFollowLeader ==
    Settled =>
        \A m \in Mains :
            IF active /\ leader[m] /\ queued[m] # "armed"
              THEN kept(m) # 0 /\ own(m) = {kept(m)}
              ELSE own(m) = {}

\* The same of everything that runs, for a workflow with several triggers or a poller.
NotDuplicated == Settled => \A m \in Mains : Cardinality(listening[m]) <= 1

\* An active workflow gets its triggers, after failures, changes of the leader and crashes,
\* unless operations overlapped, no main is left, or it is set inactive: by the user, or by
\* the code when an activation fails that an update or a command asked for.  With several
\* mains every retry is such a command, so there a second failure ends the tries.
ActiveIsRun ==
    active ~> \/ ~active \/ excused \/ \A m \in Mains : ~Up(m)
              \/ \E m \in Mains : leader[m] /\ own(m) # {}

\* "it will keep on trying to activate it in regular amounts indefinitely"
\* (addQueuedWorkflowActivation): while a workflow is queued for another try only a user
\* sets it inactive.
KeepsTrying ==
    [][active /\ ~active' /\ (\E m \in Mains : queued[m] # "no") => api.pc = "save"]_activationVars

\* Two mains that take themselves for the leader do not stay so: one that lost the key
\* finds out and steps down, and a vacant leadership is taken ("checkLeader").
LeadershipSettles ==
    multiMain /\ (\E m \in Mains : Up(m)) ~>
        \/ excused \/ \A m \in Mains : ~Up(m)
        \/ \A m \in Mains : Up(m) => (leader[m] <=> leaderKey = m)

===============================================================================
