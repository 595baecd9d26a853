----------------------------- MODULE TaskRunner -----------------------------
(***************************************************************************)
(* The process that executes Code node tasks (packages/@n8n/task-runner):  *)
(* it offers its free slots to the task broker, takes the tasks the broker *)
(* places on its offers, waits for their settings and runs them.           *)
(*                                                                         *)
(* A runner has one WebSocket to the broker: a FIFO channel each way that  *)
(* is lost with the runner.  An id <<r, k>> names an offer of runner r and *)
(* the task that an accepted offer turns into (both are fresh nanoids in   *)
(* the code, and an offer is accepted at most once); an id that nothing    *)
(* refers to any more may be drawn again.                                  *)
(*                                                                         *)
(* The operators below are the handlers of one runner; TaskBroker composes *)
(* them with the broker.                                                   *)
(***************************************************************************)
EXTENDS Integers, Sequences, FiniteSets, Functions

CONSTANTS
    Runners,         \* runner ids
    Requests,        \* task requests, one per Code node execution
    NoRequest,       \* what stands where there is no request
    maxConcurrency,  \* slots of a runner
    MaxIds           \* bound: ids in use for one runner at a time

ASSUME TaskRunnerAssumption ==
    /\ IsFiniteSet(Runners)
    /\ NoRequest \notin Requests
    /\ maxConcurrency \in Nat \ {0}
    /\ MaxIds \in Nat

Ids == Runners \X (1..MaxIds)

runnerOf(id) == id[1]

ofRunner(r, S) == {id \in S : runnerOf(id) = r}

VARIABLES
    process,        \* process[r]: "new", "up", "stopping" or "gone"
    canSendOffers,  \* canSendOffers[r]
    openOffers,     \* ids of the offers in some runner's openOffers
    outdated,       \* open offers whose validUntil has passed at the runner
    taskStatus,     \* taskStatus[t]: status in runningTasks, "none" if absent
    settings,       \* settings[t]: the request whose settings the task runs
    toBroker,       \* toBroker[r]: messages of r under way to the broker
    toRunner        \* toRunner[r]: messages under way to r

runnerVars == <<process, canSendOffers, openOffers, outdated, taskStatus, settings>>

TaskStatuses == {"waitingForSettings", "running", "aborting:cancelled",
                 "aborting:timeout"}

alive(r) == process[r] \in {"up", "stopping"}

runningTasks == {t \in Ids : taskStatus[t] # "none"}

ToBroker == [type: {"offer", "accepted", "rejected", "deferred", "done", "error"},
             id: Ids]

ToRunner == [type: {"registered"}] \cup
            [type: {"offeraccept", "cancel"}, id: Ids] \cup
            [type: {"settings"}, id: Ids, request: Requests]

RunnerInit ==
    /\ process = [r \in Runners |-> "new"]
    /\ canSendOffers = [r \in Runners |-> FALSE]
    /\ openOffers = {}
    /\ outdated = {}
    /\ taskStatus = [t \in Ids |-> "none"]
    /\ settings = [t \in Ids |-> NoRequest]
    /\ toBroker = [r \in Runners |-> <<>>]
    /\ toRunner = [r \in Runners |-> <<>>]

\* A runner's next message from the broker is of this type.
receives(r, type) ==
    /\ alive(r)
    /\ toRunner[r] # <<>>
    /\ Head(toRunner[r]).type = type

consume(r) == toRunner' = [toRunner EXCEPT ![r] = Tail(@)]

-----------------------------------------------------------------------------
(* Offers                                                                  *)

\* offersToSend ids out of the free ones, in the order they are sent.
drawIds(r, free, n) ==
    {ids \in [1..n -> ofRunner(r, free)] :
        /\ \A i, j \in 1..n : i < j => ids[i][2] < ids[j][2]
        /\ \A id \in ofRunner(r, free) :
              id \in Range(ids) \/ \A i \in 1..n : ids[i][2] < id[2]}

\* Mutant: the slots of running tasks are offered as well.
sendOffers_IgnoreRunning(r, free, open, tasks, sent) ==
    LET kept == open \ ofRunner(r, outdated)
        offersToSend == maxConcurrency - Cardinality(ofRunner(r, kept))
    IN  /\ outdated' = outdated \ ofRunner(r, outdated)
        /\ IF ~canSendOffers[r]
             THEN /\ openOffers' = kept
                  /\ toBroker' = [toBroker EXCEPT ![r] = @ \o sent]
             ELSE \E ids \in drawIds(r, free, offersToSend) :
                     /\ openOffers' = kept \cup Range(ids)
                     /\ toBroker' = [toBroker EXCEPT ![r] = @ \o sent \o
                           [i \in 1..offersToSend |-> [type |-> "offer", id |-> ids[i]]]]

\* open and tasks are the runner's open offers and running tasks when the
\* handler gets here, sent what the handler sent before.
sendOffers(r, free, open, tasks, sent) ==
    LET kept == open \ ofRunner(r, outdated)
        offersToSend == maxConcurrency - (Cardinality(ofRunner(r, kept)) +
                                          Cardinality(ofRunner(r, tasks)))
    IN  /\ outdated' = outdated \ ofRunner(r, outdated)
        /\ IF ~canSendOffers[r]
             THEN /\ openOffers' = kept
                  /\ toBroker' = [toBroker EXCEPT ![r] = @ \o sent]
             ELSE \E ids \in drawIds(r, free, offersToSend) :
                     /\ openOffers' = kept \cup Range(ids)
                     /\ toBroker' = [toBroker EXCEPT ![r] = @ \o sent \o
                           [i \in 1..offersToSend |-> [type |-> "offer", id |-> ids[i]]]]

\* The timer of startTaskOffers.
offerInterval(r, free) ==
    /\ alive(r)
    /\ canSendOffers[r]
    /\ sendOffers(r, free, openOffers, runningTasks, <<>>)
    /\ UNCHANGED <<process, canSendOffers, taskStatus, settings, toRunner>>

runnerRegistered(r) ==
    /\ receives(r, "registered")
    /\ consume(r)
    /\ canSendOffers' = [canSendOffers EXCEPT ![r] = TRUE]
    /\ UNCHANGED <<process, openOffers, outdated, taskStatus, settings, toBroker>>

\* Without an open slot, or if the offer is no longer open, the task is
\* rejected; in either case and if it is accepted the offer is used up.
offerAccepted(r) ==
    /\ receives(r, "offeraccept")
    /\ consume(r)
    /\ LET id == Head(toRunner[r]).id
           hasOpenTaskSlots == Cardinality(ofRunner(r, runningTasks)) < maxConcurrency
           accepts == hasOpenTaskSlots /\ id \in openOffers
       IN  /\ openOffers' = openOffers \ {id}
           /\ outdated' = outdated \ {id}
           /\ taskStatus' = IF accepts THEN [taskStatus EXCEPT ![id] = "waitingForSettings"]
                                       ELSE taskStatus
           /\ toBroker' = [toBroker EXCEPT ![r] =
                  Append(@, [type |-> IF accepts THEN "accepted" ELSE "rejected", id |-> id])]
    /\ UNCHANGED <<process, canSendOffers, settings>>

-----------------------------------------------------------------------------
(* Tasks                                                                   *)

\* The task leaves runningTasks and its slot is offered again.
finishTask(t, free, sent) ==
    /\ taskStatus' = [taskStatus EXCEPT ![t] = "none"]
    /\ settings' = [settings EXCEPT ![t] = NoRequest]
    /\ sendOffers(runnerOf(t), free, openOffers, runningTasks \ {t}, sent)

taskCancelled(r, free) ==
    /\ receives(r, "cancel")
    /\ consume(r)
    /\ LET t == Head(toRunner[r]).id
       IN  CASE taskStatus[t] = "waitingForSettings" -> finishTask(t, free, <<>>)
             [] taskStatus[t] = "running" ->
                  /\ taskStatus' = [taskStatus EXCEPT ![t] = "aborting:cancelled"]
                  /\ UNCHANGED <<openOffers, outdated, settings, toBroker>>
             [] OTHER -> UNCHANGED <<openOffers, outdated, taskStatus, settings, toBroker>>
    /\ UNCHANGED <<process, canSendOffers>>

\* In a state other than waitingForSettings the code throws, see
\* SettingsExpected; nothing changes then.
receivedSettings(r) ==
    /\ receives(r, "settings")
    /\ consume(r)
    /\ LET t == Head(toRunner[r]).id
       IN  IF taskStatus[t] = "waitingForSettings"
             THEN /\ taskStatus' = [taskStatus EXCEPT ![t] = "running"]
                  /\ settings' = [settings EXCEPT ![t] = Head(toRunner[r]).request]
             ELSE UNCHANGED <<taskStatus, settings>>
    /\ UNCHANGED <<process, canSendOffers, openOffers, outdated, toBroker>>

\* Mutant: a task that waits for settings is aborted but not finished.
taskTimedOut_AbortWaiting(t, free) ==
    /\ alive(runnerOf(t))
    /\ taskStatus[t] \in {"waitingForSettings", "running"}
    /\ taskStatus' = [taskStatus EXCEPT ![t] = "aborting:timeout"]
    /\ UNCHANGED <<process, canSendOffers, openOffers, outdated, settings, toBroker, toRunner>>

\* Mutant: the timer has no effect before the settings arrive.
taskTimedOut_OnlyRunning(t, free) ==
    /\ alive(runnerOf(t))
    /\ taskStatus[t] = "running"
    /\ taskStatus' = [taskStatus EXCEPT ![t] = "aborting:timeout"]
    /\ UNCHANGED <<process, canSendOffers, openOffers, outdated, settings, toBroker, toRunner>>

\* The timer of TaskState, which cleanup() clears; it fires once.
taskTimedOut(t, free) ==
    /\ alive(runnerOf(t))
    /\ \/ /\ taskStatus[t] = "waitingForSettings"
          /\ finishTask(t, free, <<[type |-> "error", id |-> t]>>)
       \/ /\ taskStatus[t] = "running"
          /\ taskStatus' = [taskStatus EXCEPT ![t] = "aborting:timeout"]
          /\ UNCHANGED <<openOffers, outdated, settings, toBroker>>
    /\ UNCHANGED <<process, canSendOffers, toRunner>>

\* taskExecutionSucceeded and taskExecutionFailed; a cancelled task sends
\* nothing.
taskExecutionEnds(t, free) ==
    /\ alive(runnerOf(t))
    /\ taskStatus[t] \in TaskStatuses \ {"waitingForSettings"}
    /\ \E type \in {"done", "error"} :
          finishTask(t, free, IF taskStatus[t] = "aborting:cancelled" THEN <<>>
                                ELSE <<[type |-> type, id |-> t]>>)
    /\ UNCHANGED <<process, canSendOffers, toRunner>>

-----------------------------------------------------------------------------
(* The process                                                             *)

\* stop(), on a signal or when idle, as far as it waits for running tasks:
\* no more offers, those open stay open.
stop(r) ==
    /\ process[r] = "up"
    /\ process' = [process EXCEPT ![r] = "stopping"]
    /\ canSendOffers' = [canSendOffers EXCEPT ![r] = FALSE]
    /\ UNCHANGED <<openOffers, outdated, taskStatus, settings, toBroker, toRunner>>

\* The process ends or is cut off: what it held and what was sent to it is lost.
gone(r) ==
    /\ alive(r)
    /\ process' = [process EXCEPT ![r] = "gone"]
    /\ canSendOffers' = [canSendOffers EXCEPT ![r] = FALSE]
    /\ openOffers' = openOffers \ ofRunner(r, openOffers)
    /\ outdated' = outdated \ ofRunner(r, outdated)
    /\ taskStatus' = [t \in Ids |-> IF runnerOf(t) = r THEN "none" ELSE taskStatus[t]]
    /\ settings' = [t \in Ids |-> IF runnerOf(t) = r THEN NoRequest ELSE settings[t]]
    /\ toRunner' = [toRunner EXCEPT ![r] = <<>>]
    /\ UNCHANGED toBroker

\* stop() goes on once no task is running: the connection is closed.
closeConnection(r) ==
    /\ process[r] = "stopping"
    /\ ofRunner(r, runningTasks) = {}
    /\ gone(r)

=============================================================================
