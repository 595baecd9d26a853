-------------------------- MODULE TaskRunnerProofs --------------------------
(***************************************************************************)
(* A task runner never commits to more tasks than it has slots, for any    *)
(* number of runners, requests, slots and delays.                          *)
(*                                                                         *)
(* RunnerCapacity is not inductive by itself: accepting an offer moves its *)
(* id from the open offers to the running tasks, which keeps the sum only  *)
(* if no id is in both, and new offers must be drawn from ids that are in  *)
(* neither.                                                                *)
(***************************************************************************)
EXTENDS TaskBroker, FiniteSetTheorems, TLAPS

\* The inductive invariant.
CapacityInv ==
    /\ openOffers \subseteq Ids
    /\ taskStatus \in [Ids -> TaskStatuses \cup {"none"}]
    /\ openOffers \cap runningTasks = {}
    /\ RunnerCapacity

\* What CapacityInv says of any sets of open offers and running tasks.
Fits(open, running) ==
    /\ open \subseteq Ids
    /\ running \subseteq Ids
    /\ open \cap running = {}
    /\ \A r \in Runners :
          Cardinality(ofRunner(r, open)) + Cardinality(ofRunner(r, running))
             <= maxConcurrency

\* There are finitely many ids.
LEMMA IdsFinite == IsFiniteSet(Ids)
<1>1. IsFiniteSet(1..MaxIds)
  BY TaskRunnerAssumption, FS_Interval
<1> QED  BY <1>1, TaskRunnerAssumption, FS_Product DEF Ids

\* The ids of one runner in a set of ids: finite, and fewer in a smaller set.
LEMMA OfRunnerSize ==
  ASSUME NEW r, NEW S \in SUBSET Ids, NEW T \in SUBSET S
  PROVE  /\ IsFiniteSet(ofRunner(r, S))
         /\ Cardinality(ofRunner(r, S)) \in Nat
         /\ IsFiniteSet(ofRunner(r, T))
         /\ Cardinality(ofRunner(r, T)) \in Nat
         /\ Cardinality(ofRunner(r, T)) <= Cardinality(ofRunner(r, S))
<1>1. ofRunner(r, S) \in SUBSET Ids
  BY DEF ofRunner
<1>2. IsFiniteSet(ofRunner(r, S))
  BY <1>1, IdsFinite, FS_Subset
<1>3. ofRunner(r, T) \in SUBSET ofRunner(r, S)
  BY DEF ofRunner
<1> QED  BY <1>2, <1>3, FS_Subset, FS_CardinalityType

\* Dropping offers or tasks keeps what is left within capacity.
LEMMA FewerFit ==
  ASSUME NEW open, NEW running, Fits(open, running),
         NEW open2 \in SUBSET open, NEW running2 \in SUBSET running
  PROVE  Fits(open2, running2)
<1>1. /\ open2 \subseteq Ids
      /\ running2 \subseteq Ids
      /\ open2 \cap running2 = {}
  BY DEF Fits
<1>2. ASSUME NEW r \in Runners
      PROVE  Cardinality(ofRunner(r, open2)) + Cardinality(ofRunner(r, running2))
                <= maxConcurrency
  <2>1. /\ Cardinality(ofRunner(r, open2)) <= Cardinality(ofRunner(r, open))
        /\ Cardinality(ofRunner(r, open2)) \in Nat
        /\ Cardinality(ofRunner(r, open)) \in Nat
    BY OfRunnerSize DEF Fits
  <2>2. /\ Cardinality(ofRunner(r, running2)) <= Cardinality(ofRunner(r, running))
        /\ Cardinality(ofRunner(r, running2)) \in Nat
        /\ Cardinality(ofRunner(r, running)) \in Nat
    BY OfRunnerSize DEF Fits
  <2>3. Cardinality(ofRunner(r, open)) + Cardinality(ofRunner(r, running)) <= maxConcurrency
    BY DEF Fits
  <2> QED  BY <2>1, <2>2, <2>3, TaskRunnerAssumption
<1> QED  BY <1>1, <1>2 DEF Fits

\* Accepting an open offer turns it into a running task of the same runner.
LEMMA AcceptFits ==
  ASSUME NEW open, NEW running, Fits(open, running), NEW id \in open
  PROVE  Fits(open \ {id}, running \cup {id})
<1>1. /\ open \ {id} \subseteq Ids
      /\ running \cup {id} \subseteq Ids
      /\ (open \ {id}) \cap (running \cup {id}) = {}
  BY DEF Fits
<1>2. ASSUME NEW r \in Runners
      PROVE  Cardinality(ofRunner(r, open \ {id})) + Cardinality(ofRunner(r, running \cup {id}))
                <= maxConcurrency
  <2> DEFINE O == ofRunner(r, open)
             R == ofRunner(r, running)
  <2>1. /\ IsFiniteSet(O) /\ Cardinality(O) \in Nat
        /\ IsFiniteSet(R) /\ Cardinality(R) \in Nat
    BY OfRunnerSize DEF Fits
  <2>2. Cardinality(O) + Cardinality(R) <= maxConcurrency
    BY DEF Fits
  <2>3. CASE runnerOf(id) = r
    <3>1. /\ ofRunner(r, open \ {id}) = O \ {id}
          /\ ofRunner(r, running \cup {id}) = R \cup {id}
          /\ id \in O
          /\ id \notin R
      BY <2>3 DEF ofRunner, Fits
    <3> HIDE DEF O, R
    <3>2. Cardinality(O \ {id}) = Cardinality(O) - 1
      BY <2>1, <3>1, FS_RemoveElement
    <3>3. Cardinality(R \cup {id}) = Cardinality(R) + 1
      BY <2>1, <3>1, FS_AddElement
    <3>4. Cardinality(O \ {id}) + Cardinality(R \cup {id}) <= maxConcurrency
      BY <2>1, <2>2, <3>2, <3>3, TaskRunnerAssumption
    <3> QED  BY <3>1, <3>4
  <2>4. CASE runnerOf(id) # r
    <3>1. /\ ofRunner(r, open \ {id}) = O
          /\ ofRunner(r, running \cup {id}) = R
      BY <2>4 DEF ofRunner
    <3> QED  BY <2>2, <3>1
  <2> QED  BY <2>3, <2>4
<1> QED  BY <1>1, <1>2 DEF Fits

\* sendOffers fills the runner's free slots and no more.
LEMMA SendOffersFits ==
  ASSUME NEW r, NEW ids \in SUBSET Ids, NEW open, NEW running, NEW sent,
         Fits(open, running),
         ids \cap (open \cup running) = {},
         sendOffers(r, ids, open, running, sent)
  PROVE  Fits(openOffers', running)
<1> DEFINE kept == open \ ofRunner(r, outdated)
           K == ofRunner(r, kept)
           R == ofRunner(r, running)
           n == maxConcurrency - (Cardinality(K) + Cardinality(R))
<1>1. Fits(kept, running)
  BY FewerFit
<1>2. CASE ~canSendOffers[r]
  BY <1>1, <1>2 DEF sendOffers
<1>3. CASE canSendOffers[r]
  <2>1. PICK f \in drawIds(r, ids, n) : openOffers' = kept \cup Range(f)
    BY <1>3 DEF sendOffers
  <2>2. f \in [1..n -> ofRunner(r, ids)]
    BY <2>1 DEF drawIds
  <2>3. Range(f) \subseteq ofRunner(r, ids)
    BY <2>2 DEF Range
  <2>4. /\ kept \cup Range(f) \subseteq Ids
        /\ (kept \cup Range(f)) \cap running = {}
    BY <1>1, <2>3 DEF Fits, ofRunner
  <2>5. ASSUME NEW x \in Runners
        PROVE  Cardinality(ofRunner(x, kept \cup Range(f))) + Cardinality(ofRunner(x, running))
                  <= maxConcurrency
    <3>1. CASE x = r
      <4>1. /\ IsFiniteSet(K) /\ Cardinality(K) \in Nat
            /\ IsFiniteSet(R) /\ Cardinality(R) \in Nat
        BY <1>1, OfRunnerSize DEF Fits
      <4>2. Cardinality(K) + Cardinality(R) <= maxConcurrency
        BY <1>1, <3>1 DEF Fits
      <4>3. n \in Nat
        BY <4>1, <4>2, TaskRunnerAssumption
      <4>4. ofRunner(r, kept \cup Range(f)) = K \cup Range(f)
        BY <2>3 DEF ofRunner
      <4> HIDE DEF n
      <4>5. /\ IsFiniteSet(1..n) /\ Cardinality(1..n) = n
        BY <4>3, FS_Interval
      <4>6. f \in Surjection(1..n, Range(f))
        BY <2>2 DEF Surjection, Range
      <4>7. IsFiniteSet(Range(f)) /\ Cardinality(Range(f)) <= n
        BY <4>5, <4>6, FS_Surjection
      <4>8. Cardinality(Range(f)) \in Nat
        BY <4>7, FS_CardinalityType
      <4> HIDE DEF K, R
      <4>9. Cardinality(K \cup Range(f)) =
               Cardinality(K) + Cardinality(Range(f)) - Cardinality(K \cap Range(f))
        BY <4>1, <4>7, FS_Union
      <4>10. Cardinality(K \cap Range(f)) \in Nat
        BY <4>1, FS_Subset, FS_CardinalityType
      <4>11. Cardinality(K \cup Range(f)) <= Cardinality(K) + n
        BY <4>1, <4>3, <4>7, <4>8, <4>9, <4>10
      <4>12. Cardinality(K \cup Range(f)) \in Nat
        BY <4>1, <4>7, FS_Union, FS_CardinalityType
      <4> USE DEF n
      <4>13. Cardinality(K \cup Range(f)) + Cardinality(R) <= maxConcurrency
        BY <4>1, <4>11, <4>12, TaskRunnerAssumption
      <4> USE DEF K, R
      <4> QED  BY <3>1, <4>4, <4>13
    <3>2. CASE x # r
      <4>1. ofRunner(x, kept \cup Range(f)) = ofRunner(x, kept)
        BY <2>3, <3>2 DEF ofRunner
      <4> QED  BY <1>1, <4>1 DEF Fits
    <3> QED  BY <3>1, <3>2
  <2> QED  BY <2>1, <2>4, <2>5 DEF Fits
<1> QED  BY <1>2, <1>3

-----------------------------------------------------------------------------
(* Steps                                                                   *)

\* CapacityInv is Fits for the runners' own variables, with their type.
LEMMA CapacityInvFits ==
  CapacityInv <=> /\ taskStatus \in [Ids -> TaskStatuses \cup {"none"}]
                  /\ Fits(openOffers, runningTasks)
  BY DEF CapacityInv, Fits, RunnerCapacity, runningTasks

\* The same for the next state.
LEMMA CapacityInvFitsNext ==
  CapacityInv' <=> /\ taskStatus' \in [Ids -> TaskStatuses \cup {"none"}]
                   /\ Fits(openOffers', runningTasks')
  BY DEF CapacityInv, Fits, RunnerCapacity, runningTasks

\* Free ids are neither open offers nor running tasks.
LEMMA FreeIds == free \in SUBSET Ids /\ free \cap (openOffers \cup runningTasks) = {}
  BY DEF free

\* A step that changes neither open offers nor the status of tasks.
LEMMA SameRunners ==
  ASSUME CapacityInv, UNCHANGED <<openOffers, taskStatus>>
  PROVE  CapacityInv'
<1>1. runningTasks' = runningTasks
  BY DEF runningTasks
<1> QED  BY <1>1, CapacityInvFits, CapacityInvFitsNext

\* finishTask frees the slot of a task and offers it again.
LEMMA FinishTaskInv ==
  ASSUME CapacityInv, NEW t, NEW sent, finishTask(t, free, sent)
  PROVE  CapacityInv'
<1>1. /\ taskStatus \in [Ids -> TaskStatuses \cup {"none"}]
      /\ Fits(openOffers, runningTasks)
  BY CapacityInvFits
<1>2. taskStatus' = [taskStatus EXCEPT ![t] = "none"]
  BY DEF finishTask
<1>3. taskStatus' \in [Ids -> TaskStatuses \cup {"none"}]
  BY <1>1, <1>2
<1>4. runningTasks' = runningTasks \ {t}
  BY <1>1, <1>2 DEF runningTasks
<1>5. Fits(openOffers, runningTasks \ {t})
  BY <1>1, FewerFit
<1>6. free \cap (openOffers \cup (runningTasks \ {t})) = {}
  BY FreeIds
<1>7. sendOffers(runnerOf(t), free, openOffers, runningTasks \ {t}, sent)
  BY DEF finishTask
<1>8. Fits(openOffers', runningTasks \ {t})
  BY <1>5, <1>6, <1>7, FreeIds, SendOffersFits
<1> QED  BY <1>3, <1>4, <1>8, CapacityInvFitsNext

\* A change of status that keeps the task running.
LEMMA AbortInv ==
  ASSUME CapacityInv, NEW t, NEW s \in TaskStatuses, taskStatus[t] \in TaskStatuses,
         taskStatus' = [taskStatus EXCEPT ![t] = s], UNCHANGED openOffers
  PROVE  CapacityInv'
<1>1. /\ taskStatus \in [Ids -> TaskStatuses \cup {"none"}]
      /\ Fits(openOffers, runningTasks)
  BY CapacityInvFits
<1>2. taskStatus' \in [Ids -> TaskStatuses \cup {"none"}]
  BY <1>1
<1>3. runningTasks' = runningTasks
  BY <1>1 DEF runningTasks, TaskStatuses
<1> QED  BY <1>1, <1>2, <1>3, CapacityInvFitsNext

\* A runner that is gone leaves nothing behind.
LEMMA GoneInv ==
  ASSUME CapacityInv, NEW r, gone(r)
  PROVE  CapacityInv'
<1>1. /\ taskStatus \in [Ids -> TaskStatuses \cup {"none"}]
      /\ Fits(openOffers, runningTasks)
  BY CapacityInvFits
<1>2. /\ openOffers' = openOffers \ ofRunner(r, openOffers)
      /\ taskStatus' = [t \in Ids |-> IF runnerOf(t) = r THEN "none" ELSE taskStatus[t]]
  BY DEF gone
<1>3. taskStatus' \in [Ids -> TaskStatuses \cup {"none"}]
  BY <1>1, <1>2
<1>4. runningTasks' \subseteq runningTasks
  BY <1>2 DEF runningTasks
<1>5. Fits(openOffers', runningTasks')
  BY <1>1, <1>2, <1>4, FewerFit
<1> QED  BY <1>3, <1>5, CapacityInvFitsNext

\* offerAccepted moves an open offer to the running tasks, or drops it.
LEMMA OfferAcceptedInv ==
  ASSUME CapacityInv, NEW r, offerAccepted(r)
  PROVE  CapacityInv'
<1> DEFINE id == Head(toRunner[r]).id
           accepts == /\ Cardinality(ofRunner(r, runningTasks)) < maxConcurrency
                      /\ id \in openOffers
<1>1. /\ taskStatus \in [Ids -> TaskStatuses \cup {"none"}]
      /\ Fits(openOffers, runningTasks)
  BY CapacityInvFits
<1>2. /\ openOffers' = openOffers \ {id}
      /\ taskStatus' = IF accepts THEN [taskStatus EXCEPT ![id] = "waitingForSettings"]
                                  ELSE taskStatus
  BY DEF offerAccepted
<1> HIDE DEF id
<1>3. CASE accepts
  <2>1. id \in openOffers
    BY <1>3
  <2>2. id \in Ids
    BY <1>1, <2>1 DEF Fits
  <2>3. taskStatus' = [taskStatus EXCEPT ![id] = "waitingForSettings"]
    BY <1>2, <1>3
  <2>4. taskStatus' \in [Ids -> TaskStatuses \cup {"none"}]
    BY <1>1, <2>3 DEF TaskStatuses
  <2>5. runningTasks' = runningTasks \cup {id}
    BY <1>1, <2>2, <2>3 DEF runningTasks
  <2>6. Fits(openOffers', runningTasks')
    BY <1>1, <1>2, <2>1, <2>5, AcceptFits
  <2> QED  BY <2>4, <2>6, CapacityInvFitsNext
<1>4. CASE ~accepts
  <2>1. taskStatus' = taskStatus
    BY <1>2, <1>4
  <2>2. runningTasks' = runningTasks
    BY <2>1 DEF runningTasks
  <2>3. Fits(openOffers', runningTasks')
    BY <1>1, <1>2, <2>2, FewerFit
  <2> QED  BY <1>1, <2>1, <2>3, CapacityInvFitsNext
<1> QED  BY <1>3, <1>4

\* The periodic offers.
LEMMA OfferIntervalInv ==
  ASSUME CapacityInv, NEW r, offerInterval(r, free)
  PROVE  CapacityInv'
<1>1. /\ taskStatus \in [Ids -> TaskStatuses \cup {"none"}]
      /\ Fits(openOffers, runningTasks)
  BY CapacityInvFits
<1>2. sendOffers(r, free, openOffers, runningTasks, <<>>) /\ taskStatus' = taskStatus
  BY DEF offerInterval
<1>3. Fits(openOffers', runningTasks)
  BY <1>1, <1>2, FreeIds, SendOffersFits
<1>4. runningTasks' = runningTasks
  BY <1>2 DEF runningTasks
<1> QED  BY <1>1, <1>2, <1>3, <1>4, CapacityInvFitsNext

\* Every step of brokers and runners keeps CapacityInv.
LEMMA CapacityStep ==
  CapacityInv /\ [BrokerNext]_vars => CapacityInv'
<1> SUFFICES ASSUME CapacityInv, [BrokerNext]_vars
             PROVE  CapacityInv'
  OBVIOUS
<1>1. ASSUME NEW q \in Requests, taskRequested(q)
      PROVE  CapacityInv'
  BY <1>1, SameRunners DEF taskRequested, runnerVars
<1>2. ASSUME NEW r \in Runners, RunnerMessage(r)
      PROVE  CapacityInv'
  <2>1. UNCHANGED runnerVars
    BY <1>2 DEF RunnerMessage, taskOffered, handleRunnerAccept, handleRunnerReject,
                handleRunnerDeferred, taskDoneHandler, taskErrorHandler
  <2> QED  BY <2>1, SameRunners DEF runnerVars
<1>3. ASSUME NEW r \in Runners, RunnerReceives(r)
      PROVE  CapacityInv'
  <2>1. CASE runnerRegistered(r)
    BY <2>1, SameRunners DEF runnerRegistered
  <2>2. CASE offerAccepted(r)
    BY <2>2, OfferAcceptedInv
  <2>3. CASE taskCancelled(r, free)
    <3> DEFINE t == Head(toRunner[r]).id
    <3>1. CASE taskStatus[t] = "waitingForSettings"
      <4>1. finishTask(t, free, <<>>)
        BY <2>3, <3>1 DEF taskCancelled
      <4> QED  BY <4>1, FinishTaskInv
    <3>2. CASE taskStatus[t] = "running"
      <4>1. /\ taskStatus' = [taskStatus EXCEPT ![t] = "aborting:cancelled"]
            /\ UNCHANGED openOffers
        BY <2>3, <3>2 DEF taskCancelled
      <4> QED  BY <3>2, <4>1, AbortInv DEF TaskStatuses
    <3>3. CASE taskStatus[t] \notin {"waitingForSettings", "running"}
      <4>1. UNCHANGED <<openOffers, taskStatus>>
        BY <2>3, <3>3 DEF taskCancelled
      <4> QED  BY <4>1, SameRunners
    <3> QED  BY <3>1, <3>2, <3>3
  <2>4. CASE receivedSettings(r)
    <3> DEFINE t == Head(toRunner[r]).id
    <3>1. CASE taskStatus[t] = "waitingForSettings"
      <4>1. /\ taskStatus' = [taskStatus EXCEPT ![t] = "running"]
            /\ UNCHANGED openOffers
        BY <2>4, <3>1 DEF receivedSettings
      <4> QED  BY <3>1, <4>1, AbortInv DEF TaskStatuses
    <3>2. CASE taskStatus[t] # "waitingForSettings"
      <4>1. UNCHANGED <<openOffers, taskStatus>>
        BY <2>4, <3>2 DEF receivedSettings
      <4> QED  BY <4>1, SameRunners
    <3> QED  BY <3>1, <3>2
  <2> QED  BY <1>3, <2>1, <2>2, <2>3, <2>4 DEF RunnerReceives
<1>4. ASSUME NEW r \in Runners, launcherDefers(r)
      PROVE  CapacityInv'
  <2>1. openOffers' \subseteq openOffers /\ taskStatus' = taskStatus
    BY <1>4 DEF launcherDefers
  <2>2. runningTasks' = runningTasks
    BY <2>1 DEF runningTasks
  <2>3. Fits(openOffers', runningTasks')
    BY <2>1, <2>2, CapacityInvFits, FewerFit
  <2> QED  BY <2>1, <2>3, CapacityInvFits, CapacityInvFitsNext
<1>5. ASSUME NEW r \in Runners, RunnerOffers(r)
      PROVE  CapacityInv'
  BY <1>5, OfferIntervalInv DEF RunnerOffers
<1>6. ASSUME NEW r \in Runners, registerRunner(r) \/ deregisterRunner(r) \/ runnerStops(r)
      PROVE  CapacityInv'
  <2>1. UNCHANGED <<openOffers, taskStatus>>
    BY <1>6 DEF registerRunner, deregisterRunner, runnerStops, stop, runnerVars
  <2> QED  BY <2>1, SameRunners
<1>7. ASSUME NEW r \in Runners, RunnerCloses(r) \/ runnerGone(r)
      PROVE  CapacityInv'
  BY <1>7, GoneInv DEF RunnerCloses, closeConnection, runnerGone
<1>8. ASSUME NEW t \in Ids, acceptTimeout(t) \/ offerExpires(t) \/ offerOutdated(t)
      PROVE  CapacityInv'
  <2>1. UNCHANGED <<openOffers, taskStatus>>
    BY <1>8 DEF acceptTimeout, offerExpires, offerOutdated, runnerVars
  <2> QED  BY <2>1, SameRunners
<1>9. ASSUME NEW t \in Ids, handleTaskTimeout(t)
      PROVE  CapacityInv'
  <2>1. CASE \E r \in Runners : gone(r)
    BY <2>1, GoneInv
  <2>2. CASE UNCHANGED runnerVars
    BY <2>2, SameRunners DEF runnerVars
  <2> QED  BY <1>9, <2>1, <2>2 DEF handleTaskTimeout
<1>10. ASSUME NEW t \in Ids, TaskTimesOut(t)
       PROVE  CapacityInv'
  <2>1. CASE finishTask(t, free, <<[type |-> "error", id |-> t]>>)
    BY <2>1, FinishTaskInv
  <2>2. CASE /\ taskStatus[t] = "running"
             /\ taskStatus' = [taskStatus EXCEPT ![t] = "aborting:timeout"]
             /\ UNCHANGED openOffers
    BY <2>2, AbortInv DEF TaskStatuses
  <2> QED  BY <1>10, <2>1, <2>2 DEF TaskTimesOut, taskTimedOut
<1>11. ASSUME NEW t \in Ids, TaskEnds(t)
       PROVE  CapacityInv'
  BY <1>11, FinishTaskInv DEF TaskEnds, taskExecutionEnds
<1>12. CASE UNCHANGED vars
  BY <1>12, SameRunners DEF vars, runnerVars
<1> QED
  BY <1>1, <1>2, <1>3, <1>4, <1>5, <1>6, <1>7, <1>8, <1>9, <1>10, <1>11, <1>12 DEF BrokerNext

\* Nothing is offered and nothing runs at the start.
LEMMA CapacityInit == BrokerInit => CapacityInv
<1> SUFFICES ASSUME BrokerInit PROVE CapacityInv
  OBVIOUS
<1>1. openOffers = {} /\ taskStatus = [t \in Ids |-> "none"]
  BY DEF BrokerInit, RunnerInit
<1>2. runningTasks = {}
  BY <1>1 DEF runningTasks
<1>3. ASSUME NEW r PROVE ofRunner(r, {}) = {}
  BY DEF ofRunner
<1>4. RunnerCapacity
  BY <1>1, <1>2, <1>3, FS_EmptySet, TaskRunnerAssumption DEF RunnerCapacity
<1> QED  BY <1>1, <1>2, <1>4 DEF CapacityInv

\* The inductive invariant holds throughout.
THEOREM CapacityInvariant == BrokerSpec => []CapacityInv
  BY CapacityInit, CapacityStep, PTL DEF BrokerSpec

\* For every number of runners, requests and slots: the open offers and running
\* tasks of a runner never exceed maxConcurrency (sendOffers, offerAccepted,
\* finishTask), whatever the broker, the network and the timers do.
THEOREM RunnerCapacityHolds == BrokerSpec => []RunnerCapacity
<1>1. CapacityInv => RunnerCapacity
  BY DEF CapacityInv
<1> QED  BY <1>1, CapacityInvariant, PTL

=============================================================================
