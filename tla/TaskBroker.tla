----------------------------- MODULE TaskBroker -----------------------------
(***************************************************************************)
(* The task broker of the main process (packages/cli/src/task-runners)     *)
(* with the requester it serves and the runners connected to it.           *)
(*                                                                         *)
(* Requests wait in pendingTaskRequests and offers in pendingTaskOffers    *)
(* until settleTasks pairs them; an accepted offer becomes a task once its *)
(* runner confirms within two seconds.  The requester lives in the same    *)
(* process and answers without a macrotask in between, so from the         *)
(* runner's confirmation to sending the settings is one step.              *)
(*                                                                         *)
(* Delays that break the intended timing (an accept that takes longer than *)
(* two seconds, an offer that is outdated at its runner before the broker  *)
(* drops it) may happen MaxDelays times.                                   *)
(***************************************************************************)
EXTENDS TaskRunner, FiniteSetsExt, SequencesExt

CONSTANTS
    Launchers,      \* runners that only defer: they offer, and defer tasks
    Mortal,         \* runners that may be stopped or die
    runnersMode,    \* TaskRunnersConfig.mode: "internal" or "external"
    MaxDelays       \* bound: how often the timing is off

ASSUME TaskBrokerAssumption ==
    /\ Launchers \subseteq Runners
    /\ Mortal \subseteq Runners
    /\ runnersMode \in {"internal", "external"}
    /\ MaxDelays \in Nat

VARIABLES
    knownRunners,         \* runner ids
    pendingTaskOffers,    \* ids of offers, in order of arrival
    expired,              \* pending offers whose validUntil has passed here
    pendingTaskRequests,  \* requests, in order of arrival
    acceptInProgress,     \* acceptInProgress[q]
    runnerAcceptRejects,  \* runnerAcceptRejects[t]: the request that awaits
                          \* the runner's answer; settled promises are left out
    tasks,                \* tasks[t]: the request it serves; timeout: timer set
    request,              \* request[q]: what became of the requester's startTask
    taskAcceptRejects,    \* taskAcceptRejects[t]: request awaiting its result
    delays                \* how often the timing was off

brokerVars == <<knownRunners, pendingTaskOffers, expired, pendingTaskRequests,
                acceptInProgress, runnerAcceptRejects, tasks>>
requesterVars == <<request, taskAcceptRejects>>
channels == <<toBroker, toRunner>>
vars == <<runnerVars, channels, brokerVars, requesterVars, delays>>

NoTask == [request |-> NoRequest, timeout |-> FALSE]

BrokerInit ==
    /\ RunnerInit
    /\ knownRunners = {}
    /\ pendingTaskOffers = <<>>
    /\ expired = {}
    /\ pendingTaskRequests = <<>>
    /\ acceptInProgress = [q \in Requests |-> FALSE]
    /\ runnerAcceptRejects = [t \in Ids |-> NoRequest]
    /\ tasks = [t \in Ids |-> NoTask]
    /\ request = [q \in Requests |-> "idle"]
    /\ taskAcceptRejects = [t \in Ids |-> NoRequest]
    /\ delays = 0

\* Messages to a runner whose socket is closed are dropped.
withMessages(r, messages) ==
    IF alive(r) THEN toRunner[r] \o messages ELSE toRunner[r]

messageRunner(r, message) ==
    toRunner' = [toRunner EXCEPT ![r] = withMessages(r, <<message>>)]

\* Ids that no variable and no message refers to.
free ==
    {id \in Ids :
        /\ id \notin openOffers \cup runningTasks \cup Range(pendingTaskOffers)
        /\ runnerAcceptRejects[id] = NoRequest
        /\ tasks[id] = NoTask
        /\ taskAcceptRejects[id] = NoRequest
        /\ \A m \in Range(toBroker[runnerOf(id)]) : m.id # id
        /\ \A m \in Range(toRunner[runnerOf(id)]) : m.type = "registered" \/ m.id # id}

\* A known runner's next message to the broker is of this type.
hears(r, type) ==
    /\ r \in knownRunners
    /\ toBroker[r] # <<>>
    /\ Head(toBroker[r]).type = type

heard(r) == toBroker' = [toBroker EXCEPT ![r] = Tail(@)]

\* The numbers in P in ascending order.
ascending(P) ==
    CHOOSE p \in [1..Cardinality(P) -> P] :
        \A i, j \in 1..Cardinality(P) : i < j => p[i] < p[j]

\* What s has at the positions in P, in the order of s.
filter(s, P) == [k \in 1..Cardinality(P) |-> s[ascending(P)[k]]]

-----------------------------------------------------------------------------
(* Pairing offers and requests                                             *)

\* Requests the loop of settleTasks does not skip: a request that is pending
\* twice is in progress when the loop meets it again.
unaccepted(requests) ==
    LET first(i) == \A j \in 1..(i - 1) : requests[j] # requests[i]
    IN  filter(requests, {i \in 1..Len(requests) :
                             first(i) /\ ~acceptInProgress[requests[i]]})

\* expireTasks, then every request that has no accept in progress takes the
\* oldest offer, and acceptOffer tells the runner.
settleTasks(offers, requests) ==
    LET valid == filter(offers, {i \in 1..Len(offers) : offers[i] \notin expired})
        next == unaccepted(requests)
        n == Min({Len(valid), Len(next)})
        accepted(r) == filter(valid, {i \in 1..n : runnerOf(valid[i]) = r})
    IN  /\ expired' = {}
        /\ pendingTaskOffers' = SubSeq(valid, n + 1, Len(valid))
        /\ pendingTaskRequests' = requests
        /\ acceptInProgress' = [q \in Requests |->
              acceptInProgress[q] \/ \E i \in 1..n : next[i] = q]
        /\ runnerAcceptRejects' = [id \in Ids |->
              IF \E i \in 1..n : valid[i] = id
                THEN next[CHOOSE i \in 1..n : valid[i] = id]
                ELSE runnerAcceptRejects[id]]
        /\ toRunner' = [r \in Runners |->
              withMessages(r, [i \in 1..Len(accepted(r)) |->
                                  [type |-> "offeraccept", id |-> accepted(r)[i]]])]

\* TaskRequester.startTask and taskRequested.
taskRequested(q) ==
    /\ request[q] = "idle"
    /\ request' = [request EXCEPT ![q] = "requested"]
    /\ settleTasks(pendingTaskOffers, Append(pendingTaskRequests, q))
    /\ UNCHANGED <<runnerVars, toBroker, knownRunners, tasks, taskAcceptRejects, delays>>

taskOffered(r) ==
    /\ hears(r, "offer")
    /\ heard(r)
    /\ settleTasks(Append(pendingTaskOffers, Head(toBroker[r]).id), pendingTaskRequests)
    /\ UNCHANGED <<runnerVars, knownRunners, tasks, requesterVars, delays>>

-----------------------------------------------------------------------------
(* acceptOffer after the runner's answer                                   *)

\* Mutant: an answer counts although its promise is settled.
handleRunnerAccept_NoGuard(r) ==
    /\ hears(r, "accepted")
    /\ heard(r)
    /\ LET t == Head(toBroker[r]).id
           q == runnerAcceptRejects[t]
       IN  /\ runnerAcceptRejects' = [runnerAcceptRejects EXCEPT ![t] = NoRequest]
           /\ pendingTaskRequests' = RemoveFirst(pendingTaskRequests, q)
           /\ tasks' = [tasks EXCEPT ![t] = [request |-> q, timeout |-> TRUE]]
           /\ request' = [x \in Requests |-> IF x = q THEN "awaiting" ELSE request[x]]
           /\ taskAcceptRejects' = [taskAcceptRejects EXCEPT ![t] = q]
           /\ messageRunner(r, [type |-> "settings", id |-> t, request |-> q])
    /\ UNCHANGED <<runnerVars, knownRunners, pendingTaskOffers, expired,
                   acceptInProgress, delays>>

\* Mutant: the mark is taken off the request once its task is created.
handleRunnerAccept_ClearsMark(r) ==
    /\ hears(r, "accepted")
    /\ heard(r)
    /\ LET t == Head(toBroker[r]).id
           q == runnerAcceptRejects[t]
       IN  IF q = NoRequest
             THEN UNCHANGED <<brokerVars, requesterVars, toRunner>>
             ELSE /\ runnerAcceptRejects' = [runnerAcceptRejects EXCEPT ![t] = NoRequest]
                  /\ pendingTaskRequests' = RemoveFirst(pendingTaskRequests, q)
                  /\ tasks' = [tasks EXCEPT ![t] = [request |-> q, timeout |-> TRUE]]
                  /\ request' = [request EXCEPT ![q] = "awaiting"]
                  /\ taskAcceptRejects' = [taskAcceptRejects EXCEPT ![t] = q]
                  /\ messageRunner(r, [type |-> "settings", id |-> t, request |-> q])
                  /\ acceptInProgress' = [acceptInProgress EXCEPT ![q] = FALSE]
                  /\ UNCHANGED <<knownRunners, pendingTaskOffers, expired>>
    /\ UNCHANGED <<runnerVars, delays>>

\* An answer whose promise is settled is ignored.  Otherwise the task is
\* created; if its request is still pending, the requester is told and, unless
\* it does not know the request, sends the settings, which go to the runner.
handleRunnerAccept(r) ==
    /\ hears(r, "accepted")
    /\ heard(r)
    /\ LET t == Head(toBroker[r]).id
           q == runnerAcceptRejects[t]
           pending == q \in Range(pendingTaskRequests)
           ready == pending /\ request[q] = "requested"
       IN  IF q = NoRequest
             THEN UNCHANGED <<brokerVars, requesterVars, toRunner>>
             ELSE /\ runnerAcceptRejects' = [runnerAcceptRejects EXCEPT ![t] = NoRequest]
                  /\ pendingTaskRequests' = RemoveFirst(pendingTaskRequests, q)
                  /\ tasks' = IF pending /\ ~ready THEN tasks
                              ELSE [tasks EXCEPT ![t] = [request |-> q, timeout |-> ready]]
                  /\ request' = IF ready THEN [request EXCEPT ![q] = "awaiting"] ELSE request
                  /\ taskAcceptRejects' = IF ready THEN [taskAcceptRejects EXCEPT ![t] = q]
                                                   ELSE taskAcceptRejects
                  /\ CASE ready -> messageRunner(r, [type |-> "settings", id |-> t, request |-> q])
                       [] pending /\ ~ready -> messageRunner(r, [type |-> "cancel", id |-> t])
                       [] OTHER -> UNCHANGED toRunner
                  /\ UNCHANGED <<knownRunners, pendingTaskOffers, expired, acceptInProgress>>
    /\ UNCHANGED <<runnerVars, delays>>

\* Mutant: the request stays marked, so that no offer is taken for it again.
acceptRejected_KeepMark(t) ==
    /\ runnerAcceptRejects' = [runnerAcceptRejects EXCEPT ![t] = NoRequest]
    /\ UNCHANGED acceptInProgress

\* The promise that acceptOffer awaits is rejected.
acceptRejected(t) ==
    /\ runnerAcceptRejects' = [runnerAcceptRejects EXCEPT ![t] = NoRequest]
    /\ acceptInProgress' = [q \in Requests |->
          acceptInProgress[q] /\ q # runnerAcceptRejects[t]]

handleRunnerReject(r) ==
    /\ hears(r, "rejected")
    /\ heard(r)
    /\ acceptRejected(Head(toBroker[r]).id)
    /\ UNCHANGED <<runnerVars, toRunner, knownRunners, pendingTaskOffers, expired,
                   pendingTaskRequests, tasks, requesterVars, delays>>

\* The request is pushed again although it is still pending.
handleRunnerDeferred(r) ==
    /\ hears(r, "deferred")
    /\ heard(r)
    /\ LET q == runnerAcceptRejects[Head(toBroker[r]).id]
       IN  pendingTaskRequests' = IF q = NoRequest THEN pendingTaskRequests
                                                   ELSE Append(pendingTaskRequests, q)
    /\ acceptRejected(Head(toBroker[r]).id)
    /\ UNCHANGED <<runnerVars, toRunner, knownRunners, pendingTaskOffers, expired,
                   tasks, requesterVars, delays>>

\* Mutant: the request may be offered out again, but a late answer still counts.
acceptTimeout_KeepPromise(t) ==
    /\ runnerAcceptRejects[t] # NoRequest
    /\ IF alive(runnerOf(t))
         THEN delays < MaxDelays /\ delays' = delays + 1
         ELSE UNCHANGED delays
    /\ acceptInProgress' = [acceptInProgress EXCEPT ![runnerAcceptRejects[t]] = FALSE]
    /\ UNCHANGED <<runnerVars, channels, knownRunners, pendingTaskOffers, expired,
                   pendingTaskRequests, runnerAcceptRejects, tasks, requesterVars>>

\* Two seconds passed without an answer.
acceptTimeout(t) ==
    /\ runnerAcceptRejects[t] # NoRequest
    /\ IF alive(runnerOf(t))
         THEN delays < MaxDelays /\ delays' = delays + 1
         ELSE UNCHANGED delays
    /\ acceptRejected(t)
    /\ UNCHANGED <<runnerVars, channels, knownRunners, pendingTaskOffers, expired,
                   pendingTaskRequests, tasks, requesterVars>>

-----------------------------------------------------------------------------
(* Results                                                                 *)

\* taskDoneHandler, taskErrorHandler and failTask: the requester's promise of
\* each task in T settles and the broker forgets the tasks.
settleRequests(T, result) ==
    /\ request' = [q \in Requests |->
          IF \E t \in T : tasks[t] # NoTask /\ taskAcceptRejects[t] = q THEN result
                                                                        ELSE request[q]]
    /\ taskAcceptRejects' = [t \in Ids |->
          IF t \in T /\ tasks[t] # NoTask THEN NoRequest ELSE taskAcceptRejects[t]]
    /\ tasks' = [t \in Ids |-> IF t \in T THEN NoTask ELSE tasks[t]]

taskDoneHandler(r) ==
    /\ hears(r, "done")
    /\ heard(r)
    /\ settleRequests({Head(toBroker[r]).id}, "ok")
    /\ UNCHANGED <<runnerVars, toRunner, knownRunners, pendingTaskOffers, expired,
                   pendingTaskRequests, acceptInProgress, runnerAcceptRejects, delays>>

taskErrorHandler(r) ==
    /\ hears(r, "error")
    /\ heard(r)
    /\ settleRequests({Head(toBroker[r]).id}, "error")
    /\ UNCHANGED <<runnerVars, toRunner, knownRunners, pendingTaskOffers, expired,
                   pendingTaskRequests, acceptInProgress, runnerAcceptRejects, delays>>

\* Mutant: the timed-out task is dropped without telling the requester.
handleTaskTimeout_Silent(t) ==
    /\ tasks[t].timeout
    /\ tasks' = [tasks EXCEPT ![t] = NoTask]
    /\ UNCHANGED <<runnerVars, channels, requesterVars, knownRunners, pendingTaskOffers,
                   expired, pendingTaskRequests, acceptInProgress, runnerAcceptRejects,
                   delays>>

\* Mutant: the request of a timed-out task is queued again.
handleTaskTimeout_Retry(t) ==
    LET q == tasks[t].request
    IN  /\ tasks[t].timeout
        /\ tasks' = [tasks EXCEPT ![t] = NoTask]
        /\ taskAcceptRejects' = [taskAcceptRejects EXCEPT ![t] = NoRequest]
        /\ request' = [request EXCEPT ![q] = "requested"]
        /\ pendingTaskRequests' = Append(pendingTaskRequests, q)
        /\ acceptInProgress' = [acceptInProgress EXCEPT ![q] = FALSE]
        /\ messageRunner(runnerOf(t), [type |-> "cancel", id |-> t])
        /\ UNCHANGED <<runnerVars, toBroker, knownRunners, pendingTaskOffers, expired,
                       runnerAcceptRejects, delays>>

\* In internal mode the runner process of the moment is killed and started
\* again, an external runner is asked to cancel the task; the task fails.
handleTaskTimeout(t) ==
    /\ tasks[t].timeout
    /\ settleRequests({t}, "error")
    /\ \/ /\ runnersMode = "internal"
          /\ \E r \in Runners : gone(r)
       \/ /\ runnersMode = "internal"
          /\ \A r \in Runners : ~alive(r)
          /\ UNCHANGED <<runnerVars, channels>>
       \/ /\ runnersMode = "external"
          /\ messageRunner(runnerOf(t), [type |-> "cancel", id |-> t])
          /\ UNCHANGED <<runnerVars, toBroker>>
    /\ UNCHANGED <<knownRunners, pendingTaskOffers, expired, pendingTaskRequests,
                   acceptInProgress, runnerAcceptRejects, delays>>

-----------------------------------------------------------------------------
(* Connections and time                                                    *)

\* TaskBrokerWsServer: the runner has sent its info.  In internal mode the
\* runners are successive child processes of this one (TaskRunnerProcess).
registerRunner(r) ==
    /\ process[r] = "new"
    /\ runnersMode = "internal" => \A x \in Runners : ~alive(x)
    /\ process' = [process EXCEPT ![r] = "up"]
    /\ knownRunners' = knownRunners \cup {r}
    /\ toRunner' = [toRunner EXCEPT ![r] = <<[type |-> "registered"]>>]
    /\ UNCHANGED <<canSendOffers, openOffers, outdated, taskStatus, settings, toBroker,
                   pendingTaskOffers, expired, pendingTaskRequests, acceptInProgress,
                   runnerAcceptRejects, tasks, requesterVars, delays>>

\* The socket closed or failed the heartbeat check: the offers of the runner
\* are dropped and its tasks fail.  No accept is pending for a task, so
\* handleRunnerReject finds nothing.
deregisterRunner(r) ==
    /\ process[r] = "gone" /\ r \in knownRunners
    /\ knownRunners' = knownRunners \ {r}
    /\ pendingTaskOffers' = filter(pendingTaskOffers,
                                   {i \in 1..Len(pendingTaskOffers) :
                                       runnerOf(pendingTaskOffers[i]) # r})
    /\ expired' = expired \ ofRunner(r, expired)
    /\ settleRequests(ofRunner(r, {t \in Ids : tasks[t] # NoTask}), "error")
    /\ toBroker' = [toBroker EXCEPT ![r] = <<>>]
    /\ UNCHANGED <<runnerVars, toRunner, pendingTaskRequests, acceptInProgress,
                   runnerAcceptRejects, delays>>

runnerStops(r) ==
    /\ r \in Mortal
    /\ stop(r)
    /\ UNCHANGED <<brokerVars, requesterVars, delays>>

\* The runner dies, or its socket breaks.
runnerGone(r) ==
    /\ r \in Mortal
    /\ gone(r)
    /\ UNCHANGED <<brokerVars, requesterVars, delays>>

\* A pending offer has reached the end of its validity at the broker.
offerExpires(id) ==
    /\ id \in Range(pendingTaskOffers) \ expired
    /\ runnerOf(id) \notin Launchers
    /\ expired' = expired \cup {id}
    /\ UNCHANGED <<runnerVars, channels, knownRunners, pendingTaskOffers,
                   pendingTaskRequests, acceptInProgress, runnerAcceptRejects, tasks,
                   requesterVars, delays>>

\* An open offer has reached the end of its validity at its runner, which is
\* later by OFFER_VALID_EXTRA_MS than at the broker unless a message is slow.
offerOutdated(id) ==
    LET early == \/ id \in Range(pendingTaskOffers) \ expired
                 \/ runnerAcceptRejects[id] # NoRequest
                 \/ \E m \in Range(toBroker[runnerOf(id)]) : m = [type |-> "offer", id |-> id]
    IN  /\ id \in openOffers \ outdated
        /\ runnerOf(id) \notin Launchers
        /\ IF early THEN delays < MaxDelays /\ delays' = delays + 1
                    ELSE UNCHANGED delays
        /\ outdated' = outdated \cup {id}
        /\ UNCHANGED <<process, canSendOffers, openOffers, taskStatus, settings, channels,
                       brokerVars, requesterVars>>

\* A launcher answers an accepted offer by deferring the task until the runner
\* it then starts is ready, and offers nothing from then on.
launcherDefers(r) ==
    /\ r \in Launchers
    /\ receives(r, "offeraccept")
    /\ consume(r)
    /\ LET id == Head(toRunner[r]).id
       IN  /\ openOffers' = openOffers \ {id}
           /\ toBroker' = [toBroker EXCEPT ![r] = Append(@, [type |-> "deferred", id |-> id])]
    /\ canSendOffers' = [canSendOffers EXCEPT ![r] = FALSE]
    /\ UNCHANGED <<process, outdated, taskStatus, settings, brokerVars,
                   requesterVars, delays>>

\* The runner handles its next message.
RunnerReceives(r) ==
    /\ \/ runnerRegistered(r)
       \/ r \notin Launchers /\ offerAccepted(r)
       \/ taskCancelled(r, free)
       \/ receivedSettings(r)
    /\ UNCHANGED <<brokerVars, requesterVars, delays>>

\* A timer of the runner, the end of a task or of the runner's shutdown.
RunnerOffers(r) ==
    /\ offerInterval(r, free)
    /\ UNCHANGED <<brokerVars, requesterVars, delays>>

TaskTimesOut(t) ==
    /\ taskTimedOut(t, free)
    /\ UNCHANGED <<brokerVars, requesterVars, delays>>

TaskEnds(t) ==
    /\ taskExecutionEnds(t, free)
    /\ UNCHANGED <<brokerVars, requesterVars, delays>>

RunnerCloses(r) ==
    /\ closeConnection(r)
    /\ UNCHANGED <<brokerVars, requesterVars, delays>>

-----------------------------------------------------------------------------
\* onRunnerMessage.
RunnerMessage(r) ==
    \/ taskOffered(r) \/ handleRunnerAccept(r) \/ handleRunnerReject(r)
    \/ handleRunnerDeferred(r) \/ taskDoneHandler(r) \/ taskErrorHandler(r)

BrokerNext ==
    \/ \E q \in Requests : taskRequested(q)
    \/ \E r \in Runners :
          \/ RunnerMessage(r) \/ RunnerReceives(r) \/ launcherDefers(r) \/ RunnerOffers(r)
          \/ registerRunner(r) \/ deregisterRunner(r)
          \/ runnerStops(r) \/ RunnerCloses(r) \/ runnerGone(r)
    \/ \E id \in Ids :
          \/ acceptTimeout(id) \/ handleTaskTimeout(id)
          \/ TaskTimesOut(id) \/ TaskEnds(id)
          \/ offerExpires(id) \/ offerOutdated(id)

BrokerSpec == BrokerInit /\ [][BrokerNext]_vars

\* Messages arrive, timers fire, tasks end (a timed-out one is aborted) and
\* closed sockets are noticed.  No request, stop or death is forced.
BrokerFairness ==
    /\ \A r \in Runners :
          /\ WF_vars(RunnerMessage(r)) /\ WF_vars(RunnerReceives(r) \/ launcherDefers(r))
          /\ WF_vars(RunnerOffers(r)) /\ WF_vars(RunnerCloses(r))
          /\ WF_vars(registerRunner(r)) /\ WF_vars(deregisterRunner(r))
    /\ \A id \in Ids :
          /\ WF_vars(acceptTimeout(id)) /\ WF_vars(handleTaskTimeout(id))
          /\ WF_vars(TaskTimesOut(id)) /\ WF_vars(TaskEnds(id))
          /\ WF_vars(offerExpires(id)) /\ WF_vars(offerOutdated(id))

FairBrokerSpec == BrokerSpec /\ BrokerFairness

-----------------------------------------------------------------------------
(* Properties                                                              *)

\* Types: outdated offers are open ones, and a task of the broker always serves
\* a request (TaskBroker.tasks).
BrokerTypeOK ==
    /\ process \in [Runners -> {"new", "up", "stopping", "gone"}]
    /\ canSendOffers \in [Runners -> BOOLEAN]
    /\ openOffers \subseteq Ids
    /\ outdated \subseteq openOffers
    /\ taskStatus \in [Ids -> TaskStatuses \cup {"none"}]
    /\ settings \in [Ids -> Requests \cup {NoRequest}]
    /\ toBroker \in [Runners -> Seq(ToBroker)]
    /\ toRunner \in [Runners -> Seq(ToRunner)]
    /\ knownRunners \subseteq Runners
    /\ pendingTaskOffers \in Seq(Ids)
    /\ expired \subseteq Ids
    /\ pendingTaskRequests \in Seq(Requests)
    /\ acceptInProgress \in [Requests -> BOOLEAN]
    /\ runnerAcceptRejects \in [Ids -> Requests \cup {NoRequest}]
    /\ tasks \in [Ids -> [request: Requests, timeout: BOOLEAN] \cup {NoTask}]
    /\ request \in [Requests -> {"idle", "requested", "awaiting", "ok", "error"}]
    /\ taskAcceptRejects \in [Ids -> Requests \cup {NoRequest}]
    /\ delays \in 0..MaxDelays

\* A runner never commits to more than it can run: its open offers and its
\* running tasks together fit into maxConcurrency, however offers expire, are
\* accepted late or are sent again (sendOffers, offerAccepted, finishTask).
RunnerCapacity ==
    \A r \in Runners :
        Cardinality(ofRunner(r, openOffers)) + Cardinality(ofRunner(r, runningTasks))
            <= maxConcurrency

\* At most one runner is being asked to take a request, and only while the
\* request is pending and marked: so acceptOffer finds it when the runner
\* accepts ("This shouldn't happen, and might be a race condition").
OneAcceptPerRequest ==
    \A t \in Ids :
        LET q == runnerAcceptRejects[t]
        IN  q # NoRequest =>
               /\ acceptInProgress[q]
               /\ q \in Range(pendingTaskRequests)
               /\ request[q] = "requested"
               /\ \A u \in Ids : runnerAcceptRejects[u] = q => u = t

\* Ids of tasks that run the request or are about to receive its settings.
executes(q) ==
    {t \in Ids : \/ settings[t] = q
                 \/ [type |-> "settings", id |-> t, request |-> q]
                       \in Range(toRunner[runnerOf(t)])}

\* No Code node runs twice: a request is executed by one task at most, and a
\* request that is still waiting for a runner is executed by none, so that a
\* retry after a timeout, rejection or disconnect never repeats work.
ExecutedOnce ==
    \A q \in Requests :
        /\ Cardinality(executes(q)) <= 1
        /\ request[q] \in {"idle", "requested"} => executes(q) = {}

\* "These states should never happen" (TaskRunner.receivedSettings): settings
\* reach a task that waits for them, or that the runner already dropped.
SettingsExpected ==
    \A r \in Runners : \A m \in Range(toRunner[r]) :
        m.type = "settings" => taskStatus[m.id] \in {"waitingForSettings", "none"}

\* Nobody waits for a task the broker has forgotten: startTask awaits a result
\* exactly for the tasks the broker keeps, and their runners are known, so that
\* a disconnect or a timeout settles every one of them.
NoOrphanedRequest ==
    /\ \A t \in Ids :
          /\ tasks[t].request = taskAcceptRejects[t]
          /\ tasks[t] # NoTask => runnerOf(t) \in knownRunners
    /\ \A q \in Requests :
          request[q] = "awaiting" => \E t \in Ids : tasks[t] = [request |-> q, timeout |-> TRUE]

\* Every request is answered in the end, by a result or an error, as long as
\* runners are left to serve it.
RequestAnswered ==
    \A q \in Requests :
        request[q] # "idle" ~> \/ request[q] \in {"ok", "error"}
                               \/ \A r \in Runners \ Launchers : process[r] = "gone"

\* A deferred request is pushed while it is still pending, and its second entry
\* outlives the answer (acceptOffer removes one).  It does no harm: an entry of a
\* request that is no longer waiting for a runner is never paired again.
LeftoverIsInert ==
    \A q \in Range(pendingTaskRequests) :
        request[q] # "requested" => acceptInProgress[q]

=============================================================================
