# TLA+ models of n8n's execution control

n8n runs workflows. This directory models the parts of it that decide *whether,
when, where and how often* a workflow execution, a node in it, a trigger or a Code
node task runs, and what is left of it after a stop, a shutdown or a crash. Those parts are concurrent (every
`await` lets other handlers in), talk over sockets, keep state in memory and in
the database, and are hard to test for the orders of events nobody wrote down.

Source paths below are relative to `src/packages/`; `cli` stands for `cli/src`.

## 1. Inventory

### Admission: concurrency control (`cli/concurrency/`)

* State: `isEnabled`; per execution type (production, evaluation) a
  `ConcurrencyQueue` with a counter `capacity` that goes negative and a list of
  `{executionId, resolve}`.
* Operations: `throttle`, `release`, `remove`, `removeAll`, `has`, `disable`.
* Callers: `ActiveExecutions.add` (throttle), the `.finally` of the promise of an
  active execution (release), `ExecutionService.stop` (remove), `ActiveExecutions.shutdown`.
* Hard: a promise is resolved only by somebody else's release; two items may have
  the same execution id; disabling while calls are queued.
* Correct if: queue and pending promises agree, the counter accounts for everything
  held and queued, nobody waits while capacity is spare, order is kept, nothing
  starts after `disable`.

### Executions in the main process

`cli/active-executions.ts`, `cli/workflow-runner.ts`, `cli/wait-tracker.ts`,
`cli/webhooks/waiting-webhooks.ts`, `cli/executions/execution.service.ts`,
`cli/commands/start.ts`, `cli/commands/base-command.ts`,
`cli/execution-lifecycle/`, `@n8n/db/src/repositories/execution.repository.ts`,
and the outside of `core/src/execution-engine/workflow-execute.ts`.

* State: `activeExecutions` (entry per execution: promise, engine, response promise,
  status), the engines themselves, `waitingExecutions` (timers), workflow timeouts,
  the rows of the database (status, `waitTill`, error).
* Operations: create and run; permission check; start the engine; go to wait; be
  resumed by timer or webhook; end and save; stop; time out; start up, with the
  executions found enqueued; shut down; be killed.
* Hard: each of these is a chain of awaits on the same row and the same entry.
* Correct if: capacity comes back, a row says running only while somebody will
  write a later status, a wait ends, an enqueued execution is run, no execution is
  run by two engines, shutdown ends.

### Event log and recovery

`cli/eventbus/message-event-bus*`, `cli/events/relays/log-streaming.event-relay.ts`,
`cli/executions/execution-recovery.service.ts`.

* State: two log files on disk, a flag file `recoveryInProgress`.
* Operations: append what happens to workflows and nodes; at startup read and
  archive the log, then mark or amend the rows of unfinished executions.
* Hard: it runs after the wait tracker started, over several awaits per execution;
  the process may die in the middle.
* Correct if: interrupted executions end up crashed, finished ones are left alone,
  waiting ones are still resumed.

### Task broker, task requester and task runners

`cli/task-runners/task-broker/`, `cli/task-runners/task-managers/`,
`@n8n/task-runner/src/`.

* State: broker: known runners, pending offers and requests, accepts in progress,
  tasks with timers; runner: open offers, running tasks with their status; requester:
  promises; two message channels per runner.
* Operations: register, offer, request, settle, accept, reject, defer, send settings,
  result, error, cancel, timeouts on both sides, disconnect, graceful stop.
* Hard: late, lost and crossing messages; a runner that dies at any point.
* Correct if: a runner is never overcommitted, a request is offered to one runner at a
  time and executed once, and is always answered.

### Scaling mode

`cli/scaling/scaling.service.ts`, `cli/scaling/job-processor.ts`, the queue mode of
`cli/workflow-runner.ts` and `cli/executions/execution.service.ts`.

* State: jobs in a Bull queue (waiting, active under a lock, or gone); in the main process
  an entry per execution and a promise that awaits `job.finished()`; in a worker the jobs
  it processes and `runningJobs`, those whose engine was started; the rows.
* Operations: add a job, take it, read and check the row, run, save, complete or fail;
  stop (abort message, fail or remove the job); Bull's stalled check; graceful stop of a
  worker; recovery of executions that left the queue.
* Hard: the main process, the worker and recovery write the same row; every step is an
  await on Redis or the database; a worker may die holding a job, or be taken for dead and go on.
* Correct if: a job is in one worker's hands at a time while its lock is renewed, and taken a
  bounded number of times, a success that was saved is not replaced by a late error, every
  execution gets a final status, and whoever waits for it in the main process is answered.

### The engine inside, and partial execution

`core/src/execution-engine/workflow-execute.ts`,
`core/src/execution-engine/partial-execution-utils/`.

* State: `nodeExecutionStack`; `waitingExecution` and `waitingExecutionSource`, the
  entries of nodes that wait for data on several inputs; `runData` with the source of each
  task; the node under execution and its tries.
* Operations: run a node, pass its outputs on, run a node that waits when the stack is
  empty, retry on fail, continue on fail, put back and end on an error or a wait, cancel;
  start again by resuming, retrying, or running a part of the workflow up to a node.
* Hard: which of several waiting entries a datum goes to, and when a merge may run with
  an input empty; what is on the stack when a run is interrupted; which old results a
  partial run may keep.
* Correct if: every output is consumed exactly once, a source leads to the data it is
  the source of, a merge neither runs before its inputs can be there nor is forgotten,
  and a partial run reaches its destination.

### Activation of workflows, and the leader

`cli/active-workflow-manager.ts`, `core/src/execution-engine/active-workflows.ts`,
`cli/workflows/workflow.service.ts`, `cli/scaling/multi-main-setup.ee.ts`,
`cli/scaling/pubsub/`.

* State: per main process the triggers that run, `activeWorkflows`, `queuedActivations`
  and `isLeader`; the leader key in Redis with its TTL; the column `active`; commands on
  their way.
* Operations: activate and deactivate by a user, add and remove by command, startup,
  failure and retry of an activation, an error of a running trigger, leader check,
  stepdown, takeover, shutdown and crash.
* Hard: adding and removing take time, may fail half way and are not serialized; a leader learns late that
  it is none any more; commands and retries outlive the state they were made in.
* Correct if: the triggers of an active workflow run once, on the leader, and those of an
  inactive one nowhere; leadership settles.

### Other components

Task runner process supervision, webhook registration, insights, event bus
destinations, cache, collaboration and push, pruning, users, credentials and API,
source control, the nodes and the editor. PROJECT.json lists each with its reason
for being left out or its place in the plan.

## 2. Modules

| module | models | extends |
|---|---|---|
| `ConcurrencyControl` | `ConcurrencyControlService`, `ConcurrencyQueue` | |
| `SequenceFacts` | lemmas about numbers and sequences that the proofs share | |
| `ConcurrencyControlProofs` | proofs about it | `ConcurrencyControl`, `SequenceFacts` |
| `ExecutionRecovery` | rows, event log, recovery pass | `ConcurrencyControl` |
| `ExecutionLifecycle` | the main process in regular mode | `ExecutionRecovery` |
| `ExecutionLifecycleProofs` | proofs about it | `ExecutionLifecycle`, `ConcurrencyControlProofs` |
| `TaskRunner` | one runner: its handlers as operators | |
| `TaskBroker` | broker, requester, channels, composed with runners | `TaskRunner` |
| `TaskRunnerProofs` | proofs about the composition: the runner's capacity | `TaskBroker` |
| `TaskBrokerProofs` | proofs about the composition: the broker's invariants | `TaskRunnerProofs`, `SequenceFacts` |
| `JobLease` | abstract: what a job queue promises about an execution | |
| `ScalingMode` | main process, Bull queue, workers, recovery in queue mode | |
| `ScalingModeProofs` | proofs about it | `ScalingMode` |
| `WorkflowGraph` | a workflow as a graph, and the names of its data | |
| `PartialExecution` | graph and run data algorithms of a partial execution, as operators | `WorkflowGraph` |
| `WorkflowEngine` | `WorkflowExecute`: stack, waiting entries, run data, restarts | `WorkflowGraph` |
| `WorkflowEngineProofs` | proofs about it | `WorkflowEngine`, `SequenceFacts` |
| `WorkflowActivation` | active workflow manager, leader election, commands, API updates | |
| `WorkflowActivationProofs` | proofs about it | `WorkflowActivation`, `SequenceFacts` |
| `MCConcurrencyControl`, `MCExecutionLifecycle`, `MCTaskBroker`, `MCScalingMode`, `MCWorkflowEngine` | constants for TLC | |

`ConcurrencyControl` serves twice: as a specification of its own, and as the
abstract specification the lifecycle implements. `ExecutionLifecycle` uses the same
operators `throttle`, `release`, `remove` inside its handlers, and the property
`ImplementsConcurrencyControl` says that whatever the handlers do, each of their
steps is one the service's protocol allows (every call throttled once and
released at most once, after it was let through) or leaves the service alone.

`JobLease` is the other abstract specification: an execution is taken by a worker, which
finishes or is lost, a bounded number of times, and never after it was closed. One worker has it
at a time, unless a lease ran out under a worker that went on (`split`).
`ScalingMode` implements it under the mapping of `Lease == INSTANCE JobLease WITH ...`: busy
are the workers that are inside `processJob`, the takes are Bull's stalls and the present
take, open is a job that is waiting or active, or not added yet, and split is `expired`. The queue's
part of this is Bull's; what the code could break is that a stop, a shutdown, a crash or the handling
of a failure in the main process hands an execution out twice or again.

### How code becomes actions

JavaScript runs one stretch of code between two awaits without interruption. So a
method without `await` is one action (all of `ConcurrencyControl`), and a longer
one is one action per stretch. `ActiveExecutions.add` is `Create`, `AddThrottle`,
`AddStore`, `AddRegister`; `WorkflowRunner.run` goes on with `CheckFails` /
`FailedFinalize` or `CheckPasses`, `StartEngine`, `EngineEnds`, `SaveResult`,
`Finalize`; `ExecutionService.stop` is `StopRead`, `StopAct`, `StopWrite`.

A *call* `<<e, n>>` is the n-th `WorkflowRunner.run` for execution e. An entry of
`activeExecutions` names the call that made it (`owner`), because its `.finally`
releases the capacity that call was given; `settled` says that its promise is
settled.

The engine is seen from outside: it logs node messages, may be put to wait, may be
cancelled (which starts a save nobody awaits, `CancelSave`), ends with success or
error. A workflow of `Waiters` has one node that waits.

The process goes through `booting` (wait tracker started), `recovering` or
`marking` (event bus), `starting` (the server is up, `runEnqueuedExecutions` is
next), `up`, `stopping`, `down`. `served` says whether requests arrive; the server
listens before recovery starts, which `quietStartup = FALSE` lets happen.

In the event log, the messages about an execution are reduced to what the reader
of the log makes of them: silent, ended, started, nodes.

In `ScalingMode`, `pc[e]` is the place of `run` and `enqueueExecution` with an execution,
`stopPc` and `cancelPc` those of a stop and of the cancellation it triggers, `work[w][e]` that
of `processJob` on a worker. Bull is external and modelled from its use: a job is locked by
the worker that took it, leaving the queue needs the lock, and the stalled check gives back or fails
a job whose worker is gone (`StalledCheck`) or did not renew its lock and goes on with it
(`LockExpires`, the case of Bull's issue 1415 that `workflow-runner.ts:93` is written for; `expired`
remembers it). The start of an execution fails before its job exists (`AddJobFails`), or after, when
the `workflowExecuteBefore` hook throws while a worker may already process the job
(`BeforeHookFails`). The queue may hold jobs of other
executions (`otherJobs`), which decides whether recovery goes on.

In `WorkflowEngine` a node execution is two steps, `StartNode` and one of its ends, so that a
cancellation falls before, during or after it. Everything between two node executions
(run data, outputs, waiting entries, the choice of a waiting node) has no await that
matters and is one action, `finishNode`. A datum is named by the task and output that
emitted it, so that it can be followed. A workflow is a record that also says which
nodes may fail, wait, return null or choose their outputs. What a partial run starts with is
the constant operator `partialState`; the configurations give it `runPartialWorkflow2` of
`PartialExecution`: disabled nodes, subgraph, cleaning, start nodes, cycles, stack. So the
proofs about the engine do not meet the recursive operators of `PartialExecution`.
Nodes are numbered by their position, which is what the engine sorts by. The indexes of the
entries of a node are sorted as text (`workflow-execute.ts:2003`), so 10 comes before 2
(`firstRunIndex`, right for indexes below a million); `getParentNodes` never returns the
node itself, in a loop neither. Two variables are history: `branchEnds`, what was executed by
nodes that returned null, and `outOfTurn`, that an entry was made at an index not beyond
the others of its node or run before one with a smaller index.

`WorkflowActivation` follows one workflow; managers treat workflows independently. The triggers and
pollers that one activation starts have one name. An activation that fails (`AddFails`) leaves nothing
running, or the triggers before the one that failed, which have no entry, or all triggers with an
entry, when a poller failed after them (`Progress`); a removal that fails (`RemoveFails`) leaves the
trigger and the entry. `left` remembers what was left in this way, `own` and `kept` are what a main runs
and has in memory apart from it. An operation (`ops`) is in flight from the await on the trigger to
its end, and remembers the trigger it found. Commands are delivered in order to
every main that is up.

In the task protocol an id stands for an offer and the task it becomes. Ids that
nothing refers to any more may be used again, so `MaxIds` bounds what is alive at
a time, not the length of a behaviour.

## 3. Runs

Passing runs (distinct states, two workers):

| run | instance | checks |
|---|---|---|
| `concurrency_control` (47,460) | two webhook executions run twice, one evaluation execution, limits 1 | `TypeOK`, `QueueMatchesPending`, `CapacityAccounting`, `WorkConserving`, `NoResumeAfterDisable`, `AdmittedInOrder`, `EventuallyAdmitted` |
| `lifecycle_restart` (80,242) | two executions, limit 1, one with response, stoppable and with a timeout; one crash or shutdown; simple recovery | `LifecycleTypeOK`, `NoCapacityLeak`, `RunningIsLive`, `EnqueuedIsRun`, `ShutdownCompletes` |
| `lifecycle_wait` (3,715) | one execution that waits, resumed by timer or webhook, one that competes; limit 1 | `NoCapacityLeak`, `WaitingIsResumed`, `ImplementsConcurrencyControl` |
| `lifecycle_recovery` (18,176) | one execution that waits; one crash, shutdown or forced shutdown anywhere; extensive recovery | `WaitingIsResumed` |
| `task_broker` (399,654) | two requests, two runners with one slot, one may die; external mode, one delay | `BrokerTypeOK`, `RunnerCapacity`, `OneAcceptPerRequest`, `ExecutedOnce`, `SettingsExpected`, `NoOrphanedRequest` |
| `task_restart` (22,547) | the same in internal mode without delays | `RequestAnswered` |
| `task_deferred` (51,612) | one runner and one launcher that defers, one delay | `LeftoverIsInert`, `RequestAnswered` |
| `scaling` (385,829) | one execution that may be stopped, two workers with one place, `maxStalledCount` 1, two faults (crashes, shutdowns, lost locks, a failing hook) | `ScalingTypeOK`, `SuccessStands`, `ImplementsJobLease`, `ExecutionEnds`, `EntryIsReleased` |
| `engine` (11,050) | nine workflows of four to six nodes, two restarts, two tries, two iterations of a loop | `EngineTypeOK`, `SourceMatchesData`, `NothingLost`, `NothingReadyAtEnd`, `MergeNotEarly`, `DestinationIsRun` |
| `activation` (189,444) | one and two mains, two edits, two faults (activations and removals that fail at the start or half way, trigger errors, lost keys, lost processes) | `ActivationTypeOK`, `TriggersFollowLeader`, `ActiveIsRun`, `LeadershipSettles` |

Runs that find a disagreement between the code and what the repository says of it:

| run | what happens |
|---|---|
| `double_resume` | the poll finds an execution whose resumption is under way: two engines |
| `engine_overfull` | a third output on one input of a merge replaces the one that still waits |

Eight more configurations end with a counterexample. They reproduce what the passing runs leave
out or their properties except, and are kept beside the runs:

| configuration | module | what happens |
|---|---|---|
| `ConcurrencyLimit.cfg` | `MCConcurrencyControl` | removing a queued execution lets the next one through (`cli/concurrency/concurrency-queue.ts:51`): more run than "Max production executions allowed to run concurrently" (`cli/config/schema.ts:15`) |
| `StartupTwice.cfg` | `MCExecutionLifecycle` | a request served during startup is taken for an enqueued execution and run twice (`cli/commands/start.ts:323`) |
| `StopWhileWaiting.cfg` | `MCExecutionLifecycle` | a stop between the wait node and the save deletes an entry whose promise is pending: a slot is lost (`cli/active-executions.ts:168`) |
| `ShutdownHangs.cfg` | `MCExecutionLifecycle` | an execution that goes to wait during shutdown keeps it from ending (`cli/active-executions.ts:279`) |
| `SplitSuccess.cfg` | `MCScalingMode` | a job is reported as failed although a worker goes on with it or can still take it; its success is saved between the check of `processError` (`cli/workflow-runner.ts:97`) and its save (line 128), and replaced by the error, which the check is there to prevent: "by Bull even though it executed successfully" (line 94) |
| `TriggersDuplicated.cfg` | `WorkflowActivation` | an activation that fails half way leaves triggers running (`core/src/execution-engine/active-workflows.ts:79-99`), and the next one starts them again, although they are managed so as "to ensure they are not duplicated" (`cli/active-workflow-manager.ts:974`) |
| `ActivationGivesUp.cfg` | `WorkflowActivation` | with several mains a retry that fails sets the workflow inactive (`cli/active-workflow-manager.ts:666`), although "it will keep on trying to activate it in regular amounts indefinitely" (line 751) |
| `PartialDisabled.cfg` | `MCWorkflowEngine` | a partial run skips a disabled node that leads to the destination, which is never run: the filter is made of the graph without disabled nodes (`workflow-execute.ts:480`), the workflow runs with them (line 499); the filter "avoids the problem that it executes leaves that are parallel to a selected destinationNode" (line 1520) |

### Conditions under which the passing runs hold

The models reach more states of this kind. They mark the conditions that the
configurations of the passing runs make:

* `quietStartup = TRUE`: otherwise the duplicates of `StartupTwice.cfg` break the others.
* `NoCapacityLeak` holds with waiting executions only while the limit is one. With spare
  capacity (`MClimitTwo` in `LifecycleWait.cfg`) a webhook can resume an execution after its
  wait is saved and before the first run is finalized; `add` replaces the entry, and the
  promise of the first run never settles (`cli/active-executions.ts:103`).
* `RunningIsLive` holds in simple mode. In extensive mode `amend` skips an execution
  that crashed before its first node, and its row goes on saying running
  (`cli/executions/execution-recovery.service.ts:68`).
* `WaitingIsResumed` holds across restarts in extensive mode. In simple mode every start
  marks the executions that wait as crashed, after a graceful shutdown too, since the end of
  a run that waits is not logged (`cli/eventbus/message-event-bus/message-event-bus.ts:177`).
* `ShutdownCompletes` holds without waiting executions.
* `SuccessStands` excepts the two cases in which a worker can save a success while the main process
  is between the check and the save of `processError`: a live worker lost the lock of the job, or the
  start failed with the job queued (`SplitSuccess.cfg`). It says that there is no third.
  It is about errors: a stop and `markAsCrashed` do overwrite a success that was saved after
  they read the row.
* `ExecutionEnds` excuses an execution that is `Abandoned`: out of the queue, and its main
  process died while it handled it or gave it up when its start failed, or a stop took its job
  while a worker was picking it up, or a worker that had lost the lock set it running after its end was
  written. Nothing in the code ends such an execution for certain; recovery does when it finds
  another job in the queue (`cli/scaling/scaling.service.ts:497`).
* `EntryIsReleased` excepts a start that failed after a worker had saved a success: `processError`
  returns early, `enqueueExecution` throws, and the entry is never finalized.
* `TriggersFollowLeader` is about the triggers of activations that ended well. What a failed activation
  or removal left running stays (`TriggersDuplicated.cfg`) until the entry that names it, if there is one,
  is removed. A removal that fails in an update (`RemoveFails` by the API) ends the behaviour, as an
  overlap does: the update stops there, and the row still says what it said.
* `ActiveIsRun` ends with a workflow that is set inactive. With several mains that is what a second
  failure in a row does (`ActivationGivesUp.cfg`), so there the property covers one retry.
* `DestinationIsRun` asks that the destination is run if data came to it over a connection of the
  workflow, or over a disabled node from results of earlier runs. Over a disabled node that a node of
  this run leads to, it is not (`PartialDisabled.cfg`).
* `WorkflowActivation` ends a behaviour at the first *overlap* (`excused`): two operations on the
  workflow in flight on one main, an update while another, a retry or a command is under
  way, a failure on a main that lost the leader key, an error of a trigger that was left
  running. The code does not serialize them, and what it
  leaves is wrong in several ways: `remove` deletes an entry made meanwhile
  (`core/src/execution-engine/active-workflows.ts:208`), a second `add` forgets the first trigger
  (line 102), a stepdown misses an add in flight (line 214) or removes what its own takeover
  added (`cli/scaling/multi-main-setup.ee.ts:105`), a retry adds a workflow that was
  deactivated (`cli/active-workflow-manager.ts:767`). An activation that fails with an authorization error
  is not retried (line 481), and ends a behaviour too. So the properties are
  about what one operation after another leaves, across failures, retries, crashes and
  changes of the leader.
* The workflows of `engine` deliver at most twice on an input (`engine_overfull` has the third), have no null
  result and no filter before a merge (the `continue` of `workflow-execute.ts:1666` and 1523 skips the nodes
  that wait when the stack is empty), and merges have all their inputs connected.
  `SourceMatchesData` looks at old tasks only where the workflow has no loop and no disabled
  node: there `cleanRunData` keeps tasks whose sources it dropped. A partial run starts from
  an execution that succeeded or was cancelled.

Seen while modelling, and without a property so far: a waiting entry rebuilt for a partial run
names its own index as the run of its source
(`core/src/execution-engine/partial-execution-utils/recreate-node-execution-stack.ts:203`), and
a complete group with a source that emitted nothing has data and sources of different length (lines 146-158);
a node that continues on fail and is the last one makes the execution fail, and its
retry runs nothing (`workflow-execute.ts:2109`, `cli/executions/execution.service.ts:185`);
a leader that lost its key and shuts down deletes the key of
its successor (`cli/scaling/multi-main-setup.ee.ts:68`); `setRunning` that throws after `throttle` let
the call through leaks a slot (`cli/active-executions.ts:73`); a stop writes canceled over the result
of a run that ended meanwhile (`cli/executions/execution.service.ts:477`); recovery writes
crashed over the result of an execution the wait tracker resumed during startup
(`cli/executions/execution-recovery.service.ts:44`); an execution with a response promise
that waits at shutdown is not canceled, because `removeAll` returns at once
(`cli/active-executions.ts:275`).

### Bounds, and why they are enough

* Limits of one, with two or three calls: the smallest instance in which somebody
  is queued, in which a release hands capacity on, and in which two calls of one
  execution are queued at once. The proofs lift the properties of the queue to any
  limit and any number of calls.
* `MaxRuns` bounds how often an execution is started or resumed. `runEnqueuedExecutions`
  and the resumptions need a free call; `WaitingIsResumed` excuses an execution that has
  used its calls up (`usedUp`), which only happens after it was resumed several times.
* `MaxBoots = 2`: one end of the process at any point, and one recovery. A second
  crash *during* recovery is out of these runs; it makes the next start mark everything
  as crashed, which is what simple mode does.
* Two runners, two requests, one slot each: enough for a request to move from one runner
  to another and for two requests to compete. `MaxDelays` counts how often the timing
  the two second and five second timeouts intend is off; with none, late accepts do not
  happen.
* Scaling: one execution, since nothing but `concurrency` couples executions; two workers
  so that a job can move; two faults so that a job can stall once too often, or a worker
  and the main process both be lost. The safety properties and the refinement were also
  checked for two executions and one fault, without a stop (360,313 states up to the symmetry of the
  workers).
* Engine: the workflows are the smallest of their shapes; the nine cover a merge that
  waits on a branch with nothing, nested merges, required inputs, two outputs to one input,
  two deliveries on each input, a branch that ends, a loop, disabled and pinned nodes.
  `MaxRestarts = 2` gives a wait or failure after a restart.
* Activation: two edits are a deactivation and a new activation; two faults are a failure
  and a retry that fails, or a failure around a change of the leader. One edit with three
  faults was checked as well, for the invariants.
* Deadlock is not checked: executions, requests, edits and faults are finite in number,
  and a system in which all of them ended stops.

### Fairness

* Concurrency control: whatever holds capacity releases it. Executions end.
* Lifecycle: promises that are awaited settle, engines end, the poll and the timers
  fire, the process is started again and its startup goes through. Weak fairness
  suffices, since nothing but the step itself, or the end of the process, disables such a
  step. Nothing is assumed of users, webhooks, crashes or shutdown.
* Scaling: awaited promises settle, engines end, lost processes are started again (by their
  supervisor), Bull hands out jobs and checks for stalled ones. Nothing is assumed of requests,
  of faults, of abort messages, or of recovery.
* Activation: triggers start and close, retries fire, commands arrive, every main checks the
  leader key in its interval, the key of a dead main expires. Weak fairness on the end of the
  operations together: a main may fail an activation only as often as there are faults.
* Task protocol: messages of a live connection arrive in order (WebSocket), timers fire,
  a task ends or is aborted by its timeout, closed sockets are noticed (`close` event or
  heartbeat). No request, stop or death is assumed.

## 4. Proofs

`ConcurrencyControlProofs`, for every finite set of executions, every assignment of
modes and every configuration of limits (`ConcurrencyAssumption`: limits are not 0,
which the constructor refuses):

* `ConcurrencyInvariant`: the inductive invariant `ConcurrencyInv`.
* `TypeOKHolds`, `QueueMatchesPendingHolds`, `CapacityAccountingHolds`, `WorkConservingHolds`,
  `NoResumeAfterDisableHolds`: the properties of the run, from it.
* `AdmittedInOrderHolds`: the action property `AdmittedInOrder`: a step that lets a queued
  call through lets the head of its queue through, and keeps the order of the others.

`WorkConserving` is not inductive: it speaks of calls, while `enqueue` and `resolveNext`
look at the counter. `NoSpareCapacity` (a non-empty queue means that counter plus queue
length is at most 0) is what the code maintains; with `CapacityAccounting` it gives
`WorkConserving`. `CapacityAccounting` needs `QueueMatchesPending`, so that a call taken
out of the queue becomes held exactly once, and `UncountedAreUnlimited`, so that a
release never gives back a unit nobody took. The lemmas count the held calls (adding
one, removing one) and describe `splice` and `shift` as removals from a sequence;
`FreeOneInv` is the common part of `dequeue` and `remove`.

`ExecutionLifecycleProofs`, for every finite set of executions, modes, limits, sets of
waiting, responding and stoppable executions, bounds on calls and starts, and ways for the
process to end. Four layers; the upper two rest on the first two, not on each other. All four
invariants were checked by TLC on instances with waits, stops, responses, shutdowns and crashes first:

* `LifecycleTypesInvariant`: the types of everything but the service.
* `ProtocolInvariant`: `ConcurrencyInv` of the service inside the process, with
  `SlotFollowsCall` (a call goes on only when its promise is resolved, and is throttled
  once) and `EntryHoldsSlot` (an entry whose promise is pending was made by a call of the
  same execution that has not been released). The second is what makes the release in the
  `.finally` legal: without it a release could meet a call that is queued or was released already.
  `LifecycleTypeOKHolds`, `CapacityAccountingInProcess` and `WorkConservingInProcess` follow.
* `CallersKeepProtocol`: every step of the process is a step of `ConcurrencyControl`, a stutter,
  or `processEnds`. The refinement `ImplementsConcurrencyControl` itself
  (`LifecycleImplementsConcurrencyControl`) has the hypothesis that the process does not end: a
  shutdown and a crash start the service anew, which its specification does not know.
* `LeakInvariant`, about executions that do not wait, next to others that may:
  `NeverWaits` (nothing puts them to wait, so nothing resumes them), `OneCallAtATime` and
  `CapacityIsKept` (a call that holds capacity is on its way to its entry or owns it, and
  the owner of an entry has not ended). `NoCapacityLeakHolds` follows for workflows without nodes that
  wait. Both hypotheses are needed: with a node that waits the property is false
  (`StopWhileWaiting`), and a request during startup may run an execution twice
  (`StartupTwice`), whose second entry replaces the first.
* `RunningInvariant`: `RunningIsCaredFor` (a row that says running was found by the recovery pass, or
  a stop, a call or a pending save will write it) with what it needs: `SignalsFollowCall` (only an
  engine that runs is cancelled, so an engine does not start cancelled), `FirstCallAlone`
  (until its permission check the first call is the only one, so only a stop can have
  removed the entry whose absence makes `attachResponsePromise` throw), `CallsInOrder` and `SimpleRecovery`.
  `RunningIsLiveHolds` follows, also for executions that wait and are resumed, stopped or
  answered. It has two hypotheses, and TLC finds a counterexample without either. Extensive recovery
  leaves alone an execution whose log says it started and names no node (`amend` returns
  without a write), so its row stays running. And an execution requested during startup may be run
  twice: the run that fails removes the entry, and the other gives up at `attachResponsePromise`
  after the row was set running.

`TaskRunnerProofs`, for any number of runners, requests, slots and delays:

* `CapacityInvariant`, `RunnerCapacityHolds`: open offers and running tasks of a runner
  fit into `maxConcurrency`, whatever the broker, the network and the timers do.
  `RunnerCapacity` is inductive only together with "no id is both an open offer and a
  running task": accepting an offer moves its id from one to the other. New ids come
  from `free`, which excludes both.

`TaskBrokerProofs`, under the same assumptions, in three layers, each inductive given the
ones below it (all three were checked by TLC on the three task configurations first):

* `BrokerTypesInvariant`: the types, a channel carries only ids of its own runner
  (`OwnMessages`), a launcher's offers do not expire. It uses `CapacityInvariant`.
  `BrokerTypeOKHolds` follows.
* `AcceptInvariant`: `OneAcceptPerRequest` and `LeftoverIsInert` (also theorems of their own)
  with `AwaitedOnce`. A request is marked while a runner is asked, and the marks are cleared
  only where the ask ends; a deferral pushes a second entry of a request that stays
  pending, and that entry is inert because the mark stays once the request was answered.
* `StageInvariant`: the life of an id. An offer is under way, pending at the broker or
  being accepted, in one of these stages at most; until it leaves them it names no task of
  the broker, and no settings are under way for it; nothing is offered or sent
  twice; and a result is awaited exactly for the tasks the broker keeps.
  `SettingsExpectedHolds` and `NoOrphanedRequestHolds` follow.
* `ExecutedOnceHolds`, from all three: a request that is handed to a task leaves "requested", and
  neither its task nor its settings can come into being a second time.

What `settleTasks` computes is a filter over sequences. `ascending` and `filter` choose the
ordered listing of a set of positions; `ListExists` shows there is one. The proofs
need no induction principle of the library: where one is needed they take the least
counterexample (`LeastNumber` in `SequenceFacts`) and show there is a smaller one.

`ScalingModeProofs`, for any executions, workers, concurrency, `maxStalledCount` and number of faults:

* `ScalingInvariant`: the inductive invariant `ScalingInv`.
* `ScalingTypeHolds`, `OneWorkerHolds`, `SuccessStandsHolds`: from it.
* `ScalingImplementsJobLease`: the refinement `ImplementsJobLease`, for the whole
  specification without fairness.

Two workers process an execution only if its lock ran out under a live worker (`OneWorker`): otherwise
a worker that is busy has the job locked, or a stop took the job out of the queue under it
(`WorkIsLocked`), and in both cases nobody else can pick it up. When a late error meets no success
needs more than the check in `processError`, since the row is written in a later step: while the
main process saves the error of a job that failed, the job has left the queue, and no worker is at it
unless one lost its lock (`MainKnows`), so nobody can save a success in between; and a worker that
runs an execution again has written running first (`UnderWay`). Of a start that failed the
invariant says nothing, since the job is in the queue. These are the two exceptions of `SuccessStands`, and
TLC finds a counterexample without either (`SplitSuccess.cfg` without both). In the refinement `Pickup` is `Take`, the end of `processJob` is
`Finish`, the end of a worker is `Lose`, a stop and the last stall are `Close`, a lock that runs out under
a live worker is `Expire`; a stall
that puts the job back only moves a take from the lock to Bull's count. The proof needs
`None` to be no worker, which `ScalingAssumption` says.

`WorkflowActivationProofs`, for one or any number of mains, edits and faults:

* `ActivationInvariant`: the inductive invariant `ActivationInv`, checked by TLC with up to
  three mains first.
* `ActivationTypeOKHolds` and `TriggersFollowLeaderHolds`: the invariants of the run, from it.

`TriggersFollowLeader` speaks of settled states only, so the invariant has to say what leads
to one. `MemoryIsTrue`: a main has one operation in flight at most, what it has in memory is
what runs, apart from what failed activations and removals left, and a main that is no leader is
removing what it has. Those leftovers are not tied to anything, so the invariant only counts them
(`LeftIsCounted`: no more than faults), and all other parts speak of `own` and `kept`. `holds` tells the main that
has the leader key from one that only takes itself for the leader: the latter may have
triggers, but adds none without an overlap. `LeaderGetsTriggers` and `LeaderIsInTurn` are about
the former. It has the triggers of an active workflow, or adds them, or a command, an update or a
retry will; and it is not told to add while it has them, since the removal of the update
before was received first (`CommandsInTurn`), an update begins only when nothing else is under
way (otherwise it overlaps), and a retry waits only while the leader has nothing (`RetryIsAlone`). A main that has taken the key and is still starting
is exempt: `InitActiveWorkflows` adds what it needs. That there is always a free name for a trigger
(`freshTrigger`) follows from the count, as nothing else runs when one is added in turn. After an overlap
the specification stops, so there the theorems only say that types hold in the first such state.

`WorkflowEngineProofs`, for every finite workflow (any nodes, connections, required inputs, and nodes
that fail, wait, loop, return null or continue on fail), every number of tries, restarts and
iterations, and any `partialState`. All but the second have `destination = 0` as a hypothesis, the
second has it in the property: they are about full runs, their resumptions and their retries, since
the state of a partial run is a parameter.

* `EngineTypes`: `EngineTypeOK`.
* `NoneReadyAtEnd`: `NothingReadyAtEnd`, if no node returned null (`branchEnds = {}`). After a null the
  engine goes to the head of the loop and does not look at the nodes that wait
  (`workflow-execute.ts:1666`).
* `SourcesMatch`: `SourceMatchesData`, before the first restart; after it, if nodes that continue on fail
  feed only nodes with one input (`ErrorsFeedOne`). A retry drops the last task, which may be the error
  of such a node, while a merge that got its output still waits and names that task as its source.
* `MergesNotEarly`: `MergeNotEarly`, if no node with several inputs is on a loop (`NoMergeInLoop`) and
  the entries of every node kept their order (`~outOfTurn`). A merge on a loop is not its own
  parent, so it is run while its other input is still to come.
* `NothingIsLost`: `NothingLost`, with `~outOfTurn`, and after a restart if no node that continues on
  fail may fail (`NoErrorRetried`). The third delivery of `engine_overfull` is what `outOfTurn`
  excludes: a new entry gets the number of entries as its index, which may be taken. The text order
  of eleven or more entries is excluded with it. A retry after an error that was continued after
  drops the task that had consumed the item.

Stated without the hypotheses, TLC refutes all but the types on small workflows drawn at random;
with them the inductive invariants passed on more than a thousand such workflows before they were
proved. The hypotheses do not exclude the merges, loops, failures and waits of the run `engine`.

The argument has layers. `Base` (with `WaitsOnLast`) gives the types of items, entries and tasks: one datum and one source
for each input, an entry lacks an input and has one, `waitingNodes` lists the nodes with entries. It rests
on lemmas that say what the operators do to the state, each once: `addNodeToBeExecuted` pushes an item,
fills an entry, completes one or opens one (`AddedOne`), `addNodes` is a chain of these (`AddsAll`),
`runWaitingNode` takes an entry of a node that may run, or there is none (`Taken`).
`NoneReady` adds that with an empty stack between two nodes no waiting node may run: an action that leaves
the stack empty has called `runWaitingNode`, and only a null does not. `SourceInv` adds that data anywhere leads
to its task, and that a task which a retry would drop is nobody's source. `MergeInv` has two ideas. The entries of
a node are stairs: an earlier one has every input that a later one has, since data goes to the first entry
that lacks it. And an input on which an item or a task of a node is empty is dead: no ancestor of the
node is on the stack, waiting or executed, and no entry or item has data there. An entry is taken with an
input empty only with the stack empty and no parent waiting, which makes the input dead, and dead
it stays because only ancestors could feed it. `LostInv` counts: `total` is the number of places of a
datum on the stack, in entries, in tasks, in ended branches and in execution, which is 0 for serials yet to come
and 1 for each connection of an output that was emitted. `CountAll` shows that `addNodes`
adds one for each connection it handles, and the actions move what they count.

Only model-checked: all liveness (`EventuallyAdmitted`, `EnqueuedIsRun`, `WaitingIsResumed`,
`ShutdownCompletes`, `RequestAnswered`, `ExecutionEnds`, `EntryIsReleased`, `LeadershipSettles`,
`ActiveIsRun`), which is out of the prover's reach; `NoCapacityLeak` with an execution that waits,
on the one configuration where it holds (`LifecycleWait`, limit one, nobody stops); and
`DestinationIsRun` with everything else about partial runs: `PartialExecution` uses recursive operators for
the graph searches, and what they compute is out of the prover's reach.

## 5. What is left out of the modelled parts

* Failing database writes, and failing hooks but for `workflowExecuteBefore` in queue mode.
* Save settings other than the defaults: with "do not save" the row is deleted instead.
* Error workflows, sub-workflows, and the resumption of a parent execution.
* Waiting executions in queue mode, and the wait tracker under leader takeover and stepdown
  (`stopTracking` clears its timers and keeps the entries, `cli/wait-tracker.ts:138`).
* Scaling mode: webhook responses and chunks. A worker does not take a job again that it still
  processes itself, which with one place (`concurrency`) it cannot. Crashes, shutdowns, lost locks and
  failing hooks share one bound, `MaxFaults`.
* Engine: required inputs are those of the connected ones (all inputs of a merge are connected);
  execution order v0, `alwaysOutputData`, error outputs, tool nodes and agents, the
  old `runPartialWorkflow`, partial runs without a trigger before the destination.
* Activation: webhooks, a takeover before the event handlers of a starting main are registered. The
  crons of pollers that a failed activation left are not told from its triggers; in the code the
  next removal of an entry ends them even if it ends no trigger. Closing the triggers, deleting the leader key
  and the exit of a main are one sequence, where the code runs the shutdown handlers beside `stopProcess`.
* Lifecycle: `stopTracking` and `ActiveExecutions.shutdown` are one step, with an external hook between
  them in `cli/commands/start.ts:98-115`.
* Manual executions beyond their mode (they are not limited).
* The thread that writes the event log: the model writes at once. Rotation by size, and
  the reconstruction of node data in `amend` beyond whether it adds an error.
* Task data requests, RPC calls and node type requests; the idle timer and the drain state
  of a runner process.

## 6. Plan

1. Proofs: more action properties of the modelled parts, and the engine's theorems for partial
   runs, from what `PartialExecution` is assumed to return.
2. Task runner process: restart loop, `SlidingWindowSignal`, `forceRestart`, OOM detection;
   data and RPC requests of a running task.
3. Properties of a stop request, of responses across restarts and of what recovery may
   overwrite; failing writes; a lost tail of the event log; waiting executions in queue
   mode and the wait tracker under takeover.
4. Activation beyond overlaps: what the code guarantees once the operations ended, and
   webhook registration.
5. Insights compaction, event bus destinations, cache refresh, pruning.

## 7. Running

    tlc -workers 2 -config LifecycleWait.cfg MCExecutionLifecycle
    tlapm ConcurrencyControlProofs.tla

`ConcurrencyLimit.cfg`, `DoubleResume.cfg`, `EngineOverfull.cfg`, `StartupTwice.cfg`,
`StopWhileWaiting.cfg`, `ShutdownHangs.cfg`, `SplitSuccess.cfg`, `TriggersDuplicated.cfg`,
`ActivationGivesUp.cfg` and `PartialDisabled.cfg` end with a counterexample; all others pass.
