------------------------- MODULE ConcurrencyControl -------------------------
(***************************************************************************)
(* Admission of executions in regular mode: ConcurrencyControlService and  *)
(* the ConcurrencyQueue it keeps for each limited type of execution        *)
(* (packages/cli/src/concurrency).                                         *)
(*                                                                         *)
(* A "call" is one invocation of ActiveExecutions.add: <<e, n>> is the     *)
(* n-th time execution e is started or resumed by this process, so two     *)
(* calls may carry the same execution id.  slot[c] records what became of  *)
(* the promise that throttle() returned to the call:                       *)
(*   "idle"      throttle was not called yet                               *)
(*   "queued"    the promise is pending, its resolve function is queued    *)
(*   "held"      let through, one unit of capacity is taken                *)
(*   "through"   let through without being counted                         *)
(*   "released"  capacity was given back (or the service is disabled)      *)
(*   "removed"   taken out of the queue; the promise never settles         *)
(* Every method of the service runs to completion without yielding, so     *)
(* each is one action.                                                     *)
(***************************************************************************)
EXTENDS Integers, Sequences, FiniteSets, SequencesExt

CONSTANTS
    Executions,   \* execution ids
    MaxRuns,      \* how often one execution is started or resumed
    mode,         \* mode[e]: the WorkflowExecuteMode of execution e
    limits        \* limits[t]: the configured limit of execution type t

Types == {"production", "evaluation"}

Modes == {"cli", "error", "integrated", "internal", "manual", "retry",
          "trigger", "webhook", "evaluation"}

\* A limit of 0 is refused with InvalidConcurrencyLimitError; every negative
\* limit stands for "unlimited".
ASSUME ConcurrencyAssumption ==
    /\ IsFiniteSet(Executions)
    /\ MaxRuns \in Nat \ {0}
    /\ mode \in [Executions -> Modes]
    /\ limits \in [Types -> Int \ {0}]

Calls == Executions \X (1..MaxRuns)

executionId(c) == c[1]

\* The queues the constructor creates.
queues == {t \in Types : limits[t] > 0}

\* getQueue(mode): the type whose queue throttles this call, if it has one.
getQueue(c) ==
    CASE mode[executionId(c)] \in {"webhook", "trigger"} -> "production"
      [] mode[executionId(c)] = "evaluation"             -> "evaluation"
      [] OTHER                                           -> "none"

isUnlimited(c) == getQueue(c) \notin queues

VARIABLES
    isEnabled,   \* ConcurrencyControlService.isEnabled
    capacity,    \* capacity[t]: ConcurrencyQueue.capacity
    queue,       \* queue[t]: the calls whose resolve functions are queued
    slot         \* slot[c]: what became of the call's throttle promise

concurrencyVars == <<isEnabled, capacity, queue, slot>>

SlotStates == {"idle", "queued", "held", "through", "released", "removed"}

ConcurrencyInit ==
    /\ isEnabled = (queues # {})
    /\ capacity = [t \in queues |-> limits[t]]
    /\ queue = [t \in queues |-> <<>>]
    /\ slot = [c \in Calls |-> "idle"]

-----------------------------------------------------------------------------
(* ConcurrencyQueue                                                        *)

\* Mutant: the execution id is queued without its resolve function.
enqueue_IdOnly(t, c) ==
    /\ capacity' = [capacity EXCEPT ![t] = @ - 1]
    /\ queue' = [queue EXCEPT ![t] = Append(@, executionId(c))]
    /\ slot' = [slot EXCEPT ![c] = "queued"]

\* Mutant: off by one, the last unit of capacity is never handed out.
enqueue_OffByOne(t, c) ==
    /\ capacity' = [capacity EXCEPT ![t] = @ - 1]
    /\ IF capacity[t] - 1 <= 0
         THEN /\ queue' = [queue EXCEPT ![t] = Append(@, c)]
              /\ slot' = [slot EXCEPT ![c] = "queued"]
         ELSE /\ slot' = [slot EXCEPT ![c] = "held"]
              /\ UNCHANGED queue

enqueue(t, c) ==
    /\ capacity' = [capacity EXCEPT ![t] = @ - 1]
    /\ IF capacity[t] - 1 < 0
         THEN /\ queue' = [queue EXCEPT ![t] = Append(@, c)]
              /\ slot' = [slot EXCEPT ![c] = "queued"]
         ELSE /\ slot' = [slot EXCEPT ![c] = "held"]
              /\ UNCHANGED queue

\* Mutant: pop() instead of shift().
resolveNext_Last(t, q, s) ==
    IF q = <<>>
      THEN /\ queue' = [queue EXCEPT ![t] = q]
           /\ slot' = s
      ELSE /\ queue' = [queue EXCEPT ![t] = SubSeq(q, 1, Len(q) - 1)]
           /\ slot' = [s EXCEPT ![q[Len(q)]] = "held"]

\* q is the queue of type t and s the slots when the head of q is shifted.
resolveNext(t, q, s) ==
    IF q = <<>>
      THEN /\ queue' = [queue EXCEPT ![t] = q]
           /\ slot' = s
      ELSE /\ queue' = [queue EXCEPT ![t] = Tail(q)]
           /\ slot' = [s EXCEPT ![Head(q)] = "held"]

\* Mutant: capacity is given back but the next item is not resolved.
dequeue_NoResolve(t, c) ==
    /\ capacity' = [capacity EXCEPT ![t] = @ + 1]
    /\ slot' = [slot EXCEPT ![c] = "released"]
    /\ UNCHANGED queue

dequeue(t, c) ==
    /\ capacity' = [capacity EXCEPT ![t] = @ + 1]
    /\ resolveNext(t, queue[t], [slot EXCEPT ![c] = "released"])

\* Mutant: the item is not spliced out of the queue.
removeFromQueue_NoSplice(t, index) ==
    /\ capacity' = [capacity EXCEPT ![t] = @ + 1]
    /\ resolveNext(t, queue[t], [slot EXCEPT ![queue[t][index]] = "removed"])

\* Mutant: the capacity the item had reserved is not given back.
removeFromQueue_NoCapacity(t, index) ==
    /\ UNCHANGED capacity
    /\ resolveNext(t, RemoveAt(queue[t], index),
                   [slot EXCEPT ![queue[t][index]] = "removed"])

\* index is the position findIndex reports for the execution id.
removeFromQueue(t, index) ==
    /\ capacity' = [capacity EXCEPT ![t] = @ + 1]
    /\ resolveNext(t, RemoveAt(queue[t], index),
                   [slot EXCEPT ![queue[t][index]] = "removed"])

-----------------------------------------------------------------------------
(* ConcurrencyControlService                                               *)

\* The first position of execution e in the queue of type t, if it is there.
findIndex(t, e) ==
    {i \in 1..Len(queue[t]) :
        /\ executionId(queue[t][i]) = e
        /\ \A j \in 1..(i - 1) : executionId(queue[t][j]) # e}

has(e) ==
    /\ isEnabled
    /\ \E t \in queues : \E i \in 1..Len(queue[t]) : executionId(queue[t][i]) = e

throttle(c) ==
    /\ UNCHANGED isEnabled
    /\ IF ~isEnabled \/ isUnlimited(c)
         THEN /\ slot' = [slot EXCEPT ![c] = "through"]
              /\ UNCHANGED <<capacity, queue>>
         ELSE enqueue(getQueue(c), c)

\* Mutant: release() does not look at isEnabled.
release_Always(c) ==
    /\ UNCHANGED isEnabled
    /\ IF isUnlimited(c)
         THEN /\ slot' = [slot EXCEPT ![c] = "released"]
              /\ UNCHANGED <<capacity, queue>>
         ELSE dequeue(getQueue(c), c)

release(c) ==
    /\ UNCHANGED isEnabled
    /\ IF ~isEnabled \/ isUnlimited(c)
         THEN /\ slot' = [slot EXCEPT ![c] = "released"]
              /\ UNCHANGED <<capacity, queue>>
         ELSE dequeue(getQueue(c), c)

\* Called by ExecutionService.stopInRegularMode when has(e); the mode of the
\* execution selects the queue.
remove(e) ==
    LET t == getQueue(<<e, 1>>)
    IN  /\ has(e)
        /\ \E index \in findIndex(t, e) : removeFromQueue(t, index)
        /\ UNCHANGED isEnabled

disable ==
    /\ isEnabled' = FALSE
    /\ UNCHANGED <<capacity, queue, slot>>

-----------------------------------------------------------------------------
(* The service with its callers reduced to what they owe it: a call is     *)
(* throttled once, and released once after it was let through.             *)

Throttle(c) ==
    /\ slot[c] = "idle"
    /\ throttle(c)

Release(c) ==
    /\ slot[c] \in {"held", "through"}
    /\ release(c)

Disable == isEnabled /\ disable

Next ==
    \/ \E c \in Calls : Throttle(c) \/ Release(c)
    \/ \E e \in Executions : remove(e)
    \/ Disable

Spec == ConcurrencyInit /\ [][Next]_concurrencyVars

\* Executions finish: whatever holds capacity gives it back in the end.
FairSpec == Spec /\ \A c \in Calls : WF_concurrencyVars(Release(c))

-----------------------------------------------------------------------------
(* Properties                                                              *)

\* Calls of type t that have taken a unit of capacity and not returned it.
Held(t) == {c \in Calls : slot[c] = "held" /\ getQueue(c) = t}

\* Types: a queue holds calls with their resolve functions, capacity may be
\* negative (ConcurrencyQueue.queue and capacity).
TypeOK ==
    /\ isEnabled \in BOOLEAN
    /\ capacity \in [queues -> Int]
    /\ queue \in [queues -> Seq(Calls)]
    /\ slot \in [Calls -> SlotStates]

\* No throttled execution is forgotten or released twice: the queue of a
\* type lists, once each, exactly the calls of that type whose promise is
\* pending (ConcurrencyQueue.queue against the promises enqueue returned).
QueueMatchesPending ==
    \A t \in queues :
        /\ \A c \in Calls :
              (\E i \in 1..Len(queue[t]) : queue[t][i] = c)
                 <=> (slot[c] = "queued" /\ getQueue(c) = t)
        /\ \A i, j \in 1..Len(queue[t]) : queue[t][i] = queue[t][j] => i = j

\* ConcurrencyQueue.capacity is a counter that goes negative: at every moment
\* it is the limit minus the calls that hold capacity minus those queued,
\* through any sequence of enqueue, dequeue and remove.
CapacityAccounting ==
    isEnabled =>
        \A t \in queues :
            capacity[t] = limits[t] - Cardinality(Held(t)) - Len(queue[t])

\* Nobody is throttled while capacity is spare: if calls are queued then at
\* least the configured number of calls hold capacity.
WorkConserving ==
    isEnabled =>
        \A t \in queues :
            queue[t] # <<>> => Cardinality(Held(t)) >= limits[t]

\* "removal of active executions will no longer release capacity back, so
\* that throttled executions cannot resume during shutdown"
\* (active-executions.ts): once disabled, a queued call stays queued.
NoResumeAfterDisable ==
    [][~isEnabled => \A c \in Calls : slot[c] = "queued" => slot'[c] = "queued"]_concurrencyVars

\* First throttled, first admitted: a call is taken out of the queue to run
\* only if none of its type is still queued that was queued before it.
AdmittedInOrder ==
    [][\A t \in queues : \A i, j \in 1..Len(queue[t]) :
          (i < j /\ slot'[queue[t][j]] = "held")
             => slot'[queue[t][i]] # "queued"]_concurrencyVars

\* A throttled execution is eventually admitted, unless it is removed or the
\* service is disabled for shutdown.
EventuallyAdmitted ==
    \A c \in Calls :
        slot[c] = "queued" ~> (slot[c] # "queued" \/ ~isEnabled)

\* "Max production executions allowed to run concurrently" (config schema):
\* the calls let through and not yet released never exceed the limit.
ConcurrencyLimit ==
    isEnabled => \A t \in queues : Cardinality(Held(t)) <= limits[t]

=============================================================================
