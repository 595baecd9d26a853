---------------------- MODULE ConcurrencyControlProofs ----------------------
(***************************************************************************)
(* ConcurrencyControl, proved for every set of executions, every           *)
(* assignment of modes and every configuration of the limits.              *)
(***************************************************************************)
EXTENDS ConcurrencyControl, SequenceFacts, FiniteSetTheorems, SequenceTheorems, TLAPS

\* What holds of one queue q of type t, given the slots s of all calls.
Matches(q, s, t) ==
    /\ \A c \in Calls :
          (\E i \in 1..Len(q) : q[i] = c) <=> (s[c] = "queued" /\ getQueue(c) = t)
    /\ \A i, j \in 1..Len(q) : q[i] = q[j] => i = j

HeldIn(s, t) == {c \in Calls : s[c] = "held" /\ getQueue(c) = t}

\* While the service is enabled, a queue is non-empty only when its counter
\* shows that all capacity was taken before the first queued call.
NoSpareCapacity ==
    isEnabled =>
        \A t \in queues : queue[t] # <<>> => capacity[t] + Len(queue[t]) <= 0

\* While the service is enabled, only unlimited calls pass uncounted.
UncountedAreUnlimited ==
    isEnabled => \A c \in Calls : slot[c] = "through" => isUnlimited(c)

\* The inductive invariant.
ConcurrencyInv ==
    /\ TypeOK
    /\ QueueMatchesPending
    /\ CapacityAccounting
    /\ NoSpareCapacity
    /\ UncountedAreUnlimited

-----------------------------------------------------------------------------
(* Facts about the data the model is built from                            *)

\* Array.shift(), as Tail, removes the first element.
LEMMA TailIsRemoval ==
    ASSUME NEW q \in Seq(Calls), q # <<>>
    PROVE  /\ IsRemoval(Calls, q, 1, Tail(q))
           /\ Head(q) = q[1]
           /\ 1 \in 1..Len(q)
<1>1. /\ Tail(q) \in Seq(Calls)
      /\ Len(Tail(q)) = Len(q) - 1
      /\ \A i \in 1..Len(Tail(q)) : Tail(q)[i] = q[i + 1]
  BY HeadTailProperties
<1>2. Len(q) \in Nat \ {0}
  BY EmptySeq
<1> QED  BY <1>1, <1>2 DEF IsRemoval

\* The calls that hold capacity can be counted.
LEMMA HeldFinite ==
    ASSUME NEW s, NEW t
    PROVE  IsFiniteSet(HeldIn(s, t)) /\ Cardinality(HeldIn(s, t)) \in Nat
<1>1. IsFiniteSet(1..MaxRuns)
  BY FS_Interval, ConcurrencyAssumption
<1>2. IsFiniteSet(Calls)
  BY <1>1, FS_Product, ConcurrencyAssumption DEF Calls
<1>3. HeldIn(s, t) \in SUBSET Calls
  BY DEF HeldIn
<1>4. IsFiniteSet(HeldIn(s, t))
  BY <1>2, <1>3, FS_Subset
<1> QED  BY <1>4, FS_CardinalityType

\* A call that starts to hold capacity is counted once more.
LEMMA HeldAdd ==
    ASSUME NEW s \in [Calls -> SlotStates], NEW c \in Calls, s[c] # "held"
    PROVE  Cardinality(HeldIn([s EXCEPT ![c] = "held"], getQueue(c)))
             = Cardinality(HeldIn(s, getQueue(c))) + 1
<1> DEFINE t == getQueue(c)
<1>1. HeldIn([s EXCEPT ![c] = "held"], t) = HeldIn(s, t) \cup {c}
  BY DEF HeldIn
<1>2. c \notin HeldIn(s, t)
  BY DEF HeldIn
<1> QED  BY <1>1, <1>2, HeldFinite, FS_AddElement

\* A call that gives capacity back is counted no more.
LEMMA HeldSubtract ==
    ASSUME NEW s \in [Calls -> SlotStates], NEW c \in Calls, s[c] = "held"
    PROVE  Cardinality(HeldIn([s EXCEPT ![c] = "released"], getQueue(c)))
             = Cardinality(HeldIn(s, getQueue(c))) - 1
<1> DEFINE t == getQueue(c)
<1>1. HeldIn([s EXCEPT ![c] = "released"], t) = HeldIn(s, t) \ {c}
  BY DEF HeldIn
<1>2. c \in HeldIn(s, t)
  BY DEF HeldIn
<1> QED  BY <1>1, <1>2, HeldFinite, FS_RemoveElement

-----------------------------------------------------------------------------
(* Facts about one queue                                                   *)

\* Taking an element out of the queue, and its call out of "queued".
LEMMA MatchesRemoval ==
    ASSUME NEW s \in [Calls -> SlotStates], NEW t, NEW q \in Seq(Calls),
           Matches(q, s, t), NEW i \in 1..Len(q), NEW r, IsRemoval(Calls, q, i, r),
           NEW v, v # "queued"
    PROVE  Matches(r, [s EXCEPT ![q[i]] = v], t)
<1> DEFINE z == [s EXCEPT ![q[i]] = v]
<1>0. Len(q) \in Nat /\ q[i] \in Calls /\ Len(r) = Len(q) - 1
  BY LenProperties, ElementOfSeq DEF IsRemoval
<1>1. ASSUME NEW c \in Calls, NEW j \in 1..Len(r), r[j] = c
      PROVE  z[c] = "queued" /\ getQueue(c) = t
  <2>1. PICK k \in 1..Len(q) : k # i /\ q[k] = c
    BY <1>0, <1>1 DEF IsRemoval
  <2>2. s[c] = "queued" /\ getQueue(c) = t /\ c # q[i]
    BY <2>1 DEF Matches
  <2> QED  BY <2>2
<1>2. ASSUME NEW c \in Calls, z[c] = "queued", getQueue(c) = t
      PROVE  \E j \in 1..Len(r) : r[j] = c
  <2>1. c # q[i] /\ s[c] = "queued"
    BY <1>0, <1>2
  <2>2. PICK k \in 1..Len(q) : q[k] = c
    BY <1>2, <2>1 DEF Matches
  <2>3. k # i
    BY <2>1, <2>2
  <2>4. CASE k < i
    <3>1. k \in 1..Len(r) /\ r[k] = q[k]
      BY <1>0, <2>4 DEF IsRemoval
    <3> QED  BY <2>2, <3>1
  <2>5. CASE k > i
    <3>1. k - 1 \in 1..Len(r) /\ r[k - 1] = q[k]
      BY <1>0, <2>5 DEF IsRemoval
    <3> QED  BY <2>2, <3>1
  <2> QED  BY <2>3, <2>4, <2>5, <1>0
<1>3. ASSUME NEW j \in 1..Len(r), NEW k \in 1..Len(r), r[j] = r[k]
      PROVE  j = k
  <2> DEFINE up(m) == IF m < i THEN m ELSE m + 1
  <2>1. up(j) \in 1..Len(q) /\ up(k) \in 1..Len(q)
    BY <1>0
  <2>2. r[j] = q[up(j)] /\ r[k] = q[up(k)]
    BY DEF IsRemoval
  <2>3. \A x, y \in 1..Len(q) : q[x] = q[y] => x = y
    BY DEF Matches
  <2>4. q[up(j)] = q[up(k)]
    BY <1>3, <2>2
  <2> HIDE DEF up
  <2>5. up(j) = up(k)
    BY <2>1, <2>3, <2>4
  <2> QED  BY <1>0, <2>5 DEF up
<1> QED  BY <1>1, <1>2, <1>3 DEF Matches

\* Appending a call that becomes "queued".
LEMMA MatchesAppend ==
    ASSUME NEW s \in [Calls -> SlotStates], NEW q \in Seq(Calls), NEW c \in Calls,
           Matches(q, s, getQueue(c)), s[c] # "queued"
    PROVE  Matches(Append(q, c), [s EXCEPT ![c] = "queued"], getQueue(c))
<1> DEFINE r == Append(q, c)
<1>1. /\ Len(q) \in Nat
      /\ Len(r) = Len(q) + 1
      /\ \A i \in 1..Len(q) : r[i] = q[i]
      /\ r[Len(q) + 1] = c
  BY AppendProperties, LenProperties
<1> HIDE DEF r
<1>2. \A i \in 1..Len(q) : q[i] # c
  BY DEF Matches
<1>3. 1..Len(r) = 1..Len(q) \cup {Len(q) + 1}
  BY <1>1
<1> QED  BY <1>1, <1>2, <1>3 DEF Matches, r

\* A step of a call that is not queued, to a state other than "queued".
LEMMA MatchesSame ==
    ASSUME NEW s \in [Calls -> SlotStates], NEW q, NEW t, NEW c \in Calls, NEW v,
           Matches(q, s, t),
           getQueue(c) # t \/ (s[c] # "queued" /\ v # "queued")
    PROVE  Matches(q, [s EXCEPT ![c] = v], t)
BY DEF Matches

-----------------------------------------------------------------------------
(* The queue's methods                                                     *)

\* resolveNext() moves one call from the queue to "held", if there is one, and
\* leaves the other queues alone.  q and s are the queue and the slots at the
\* moment of the call, in the middle of dequeue() or remove().
LEMMA ResolveNext ==
    ASSUME TypeOK, NEW t \in queues, NEW q \in Seq(Calls),
           NEW s \in [Calls -> SlotStates],
           Matches(q, s, t), \A u \in queues \ {t} : Matches(queue[u], s, u),
           resolveNext(t, q, s)
    PROVE  /\ queue' \in [queues -> Seq(Calls)]
           /\ slot' \in [Calls -> SlotStates]
           /\ \A u \in queues : Matches(queue'[u], slot', u)
           /\ \A u \in queues \ {t} : /\ queue'[u] = queue[u]
                                      /\ HeldIn(slot', u) = HeldIn(s, u)
           /\ Cardinality(HeldIn(slot', t)) + Len(queue'[t])
                = Cardinality(HeldIn(s, t)) + Len(q)
           /\ Len(queue'[t]) = IF q = <<>> THEN 0 ELSE Len(q) - 1
           /\ \A c \in Calls : slot'[c] = "through" => s[c] = "through"
<1>1. CASE q = <<>>
  <2>1. queue' = [queue EXCEPT ![t] = q] /\ slot' = s
    BY <1>1 DEF resolveNext
  <2>2. queue'[t] = q /\ \A u \in queues \ {t} : queue'[u] = queue[u]
    BY <2>1 DEF TypeOK
  <2>3. Len(q) = 0
    BY <1>1, EmptySeq
  <2> QED  BY <1>1, <2>1, <2>2, <2>3 DEF TypeOK
<1>2. CASE q # <<>>
  <2>1. /\ queue' = [queue EXCEPT ![t] = Tail(q)]
        /\ slot' = [s EXCEPT ![Head(q)] = "held"]
    BY <1>2 DEF resolveNext
  <2>2. /\ IsRemoval(Calls, q, 1, Tail(q))
        /\ Head(q) = q[1]
        /\ 1 \in 1..Len(q)
    BY <1>2, TailIsRemoval
  <2>3. Head(q) \in Calls /\ s[Head(q)] = "queued" /\ getQueue(Head(q)) = t
    BY <2>2, ElementOfSeq DEF Matches
  <2>4. queue'[t] = Tail(q) /\ \A u \in queues \ {t} : queue'[u] = queue[u]
    BY <2>1 DEF TypeOK
  <2>5. queue' \in [queues -> Seq(Calls)] /\ slot' \in [Calls -> SlotStates]
    BY <2>1, <2>2, <2>3 DEF TypeOK, IsRemoval, SlotStates
  <2>6. Matches(queue'[t], slot', t)
    <3>1. "held" # "queued"
      OBVIOUS
    <3>2. Matches(Tail(q), [s EXCEPT ![q[1]] = "held"], t)
      BY <2>2, <3>1, MatchesRemoval, Zenon
    <3> QED  BY <2>1, <2>2, <2>4, <3>2
  <2>7. ASSUME NEW u \in queues \ {t}
        PROVE  Matches(queue'[u], slot', u) /\ HeldIn(slot', u) = HeldIn(s, u)
    <3>1. Matches(queue[u], s, u) /\ getQueue(Head(q)) # u /\ u # getQueue(Head(q))
      BY <2>3
    <3>2. Matches(queue[u], [s EXCEPT ![Head(q)] = "held"], u)
      BY <2>3, <3>1, MatchesSame, Zenon
    <3>3. HeldIn([s EXCEPT ![Head(q)] = "held"], u) = HeldIn(s, u)
      BY <2>3, <3>1 DEF HeldIn
    <3> QED  BY <2>1, <2>4, <3>2, <3>3
  <2>9. Cardinality(HeldIn(slot', t)) = Cardinality(HeldIn(s, t)) + 1
    BY <2>1, <2>3, HeldAdd
  <2>10. Len(queue'[t]) = Len(q) - 1
    BY <2>2, <2>4 DEF IsRemoval
  <2>11. \A c \in Calls : slot'[c] = "through" => s[c] = "through"
    BY <2>1, <2>3
  <2>12. Len(q) \in Nat /\ Cardinality(HeldIn(s, t)) \in Nat
    BY LenProperties, HeldFinite
  <2>13. Cardinality(HeldIn(slot', t)) + Len(queue'[t])
           = Cardinality(HeldIn(s, t)) + Len(q)
    BY <2>9, <2>10, <2>12
  <2> QED  BY <1>2, <2>4, <2>5, <2>6, <2>7, <2>10, <2>11, <2>13
<1> QED  BY <1>1, <1>2

\* The parts of the invariant that speak of one queue, for an enabled service.
Accounted(t) ==
    /\ capacity[t] = limits[t] - Cardinality(HeldIn(slot, t)) - Len(queue[t])
    /\ queue[t] # <<>> => capacity[t] + Len(queue[t]) <= 0

\* The invariant, queue by queue.
LEMMA InvByQueue ==
    ConcurrencyInv <=>
        /\ TypeOK
        /\ \A t \in queues : Matches(queue[t], slot, t)
        /\ isEnabled => \A t \in queues : Accounted(t)
        /\ UncountedAreUnlimited
BY DEF ConcurrencyInv, QueueMatchesPending, CapacityAccounting, NoSpareCapacity,
       Matches, Accounted, Held, HeldIn

\* The same for the next state.
LEMMA InvByQueueNext ==
    ConcurrencyInv' <=>
        /\ TypeOK'
        /\ \A t \in queues : Matches(queue'[t], slot', t)
        /\ isEnabled' => \A t \in queues : Accounted(t)'
        /\ UncountedAreUnlimited'
BY DEF ConcurrencyInv, QueueMatchesPending, CapacityAccounting, NoSpareCapacity,
       Matches, Accounted, Held, HeldIn

\* Every limited call belongs to one of the queues.
LEMMA LimitedHasQueue ==
    ASSUME NEW c \in Calls, ~isUnlimited(c)
    PROVE  getQueue(c) \in queues
BY DEF isUnlimited

\* The types of the counters and the queue of one type of execution.
LEMMA NumbersAreNumbers ==
    ASSUME TypeOK, NEW t \in queues
    PROVE  /\ capacity[t] \in Int
           /\ limits[t] \in Int
           /\ queue[t] \in Seq(Calls)
           /\ Len(queue[t]) \in Nat
           /\ queue[t] = <<>> <=> Len(queue[t]) = 0
           /\ Cardinality(HeldIn(slot, t)) \in Nat
<1>1. capacity[t] \in Int /\ queue[t] \in Seq(Calls) /\ limits[t] \in Int
  BY ConcurrencyAssumption DEF TypeOK, queues
<1>2. Len(queue[t]) \in Nat /\ (queue[t] = <<>> <=> Len(queue[t]) = 0)
  BY <1>1, LenProperties, EmptySeq
<1> QED  BY <1>1, <1>2, HeldFinite

-----------------------------------------------------------------------------
(* The service's methods preserve the invariant                            *)

\* A call passes the service uncounted: the service is disabled or the call
\* is of an unlimited type, and the call is not one that is queued.
LEMMA Uncounted ==
    ASSUME ConcurrencyInv, NEW c \in Calls, ~isEnabled \/ isUnlimited(c),
           slot[c] # "queued",
           NEW v \in {"through", "released"}, slot' = [slot EXCEPT ![c] = v],
           UNCHANGED <<isEnabled, capacity, queue>>
    PROVE  ConcurrencyInv'
<1> USE InvByQueue
<1>1. TypeOK'
  BY DEF TypeOK, SlotStates
<1>2. ASSUME NEW t \in queues
      PROVE  Matches(queue'[t], slot', t)
  <2>1. v # "queued" /\ Matches(queue[t], slot, t) /\ slot \in [Calls -> SlotStates]
    BY DEF TypeOK
  <2> QED  BY <2>1, MatchesSame, Zenon
<1>3. ASSUME isEnabled', NEW t \in queues
      PROVE  Accounted(t)'
  <2>1. t # getQueue(c)
    BY <1>3 DEF isUnlimited
  <2>2. HeldIn([slot EXCEPT ![c] = v], t) = HeldIn(slot, t)
    BY <2>1 DEF HeldIn, TypeOK
  <2> QED  BY <1>3, <2>2 DEF Accounted
<1>4. UncountedAreUnlimited'
  BY DEF UncountedAreUnlimited, TypeOK
<1> QED  BY <1>1, <1>2, <1>3, <1>4, InvByQueueNext

\* throttle() keeps the invariant: the call passes uncounted, takes a unit of
\* capacity, or is appended to the queue of its type.
LEMMA ThrottleInv ==
    ASSUME ConcurrencyInv, NEW c \in Calls, Throttle(c)
    PROVE  ConcurrencyInv'
<1> USE InvByQueue
<1>1. CASE ~isEnabled \/ isUnlimited(c)
  <2>1. /\ slot' = [slot EXCEPT ![c] = "through"]
        /\ UNCHANGED <<isEnabled, capacity, queue>>
        /\ slot[c] # "queued"
    BY <1>1 DEF Throttle, throttle
  <2> QED  BY <1>1, <2>1, Uncounted, Zenon
<1>2. CASE isEnabled /\ ~isUnlimited(c)
  <2> DEFINE t == getQueue(c)
  <2>1. /\ t \in queues
        /\ enqueue(t, c)
        /\ UNCHANGED isEnabled
        /\ slot[c] = "idle"
    BY <1>2, LimitedHasQueue DEF Throttle, throttle
  <2>2. /\ capacity' \in [queues -> Int]
        /\ capacity'[t] = capacity[t] - 1
        /\ \A u \in queues \ {t} : capacity'[u] = capacity[u]
    BY <2>1 DEF enqueue, TypeOK
  <2>3. slot \in [Calls -> SlotStates]
    BY DEF TypeOK
  <2>4. CASE capacity[t] - 1 < 0
    <3>1. /\ queue' = [queue EXCEPT ![t] = Append(@, c)]
          /\ slot' = [slot EXCEPT ![c] = "queued"]
      BY <2>1, <2>4 DEF enqueue
    <3>2. /\ queue'[t] = Append(queue[t], c)
          /\ \A u \in queues \ {t} : queue'[u] = queue[u]
      BY <2>1, <3>1 DEF TypeOK
    <3>3. TypeOK'
      BY <2>1, <2>2, <3>1 DEF TypeOK, SlotStates
    <3>4. Matches(queue'[t], slot', t)
      BY <2>1, <2>3, <3>1, <3>2, MatchesAppend DEF TypeOK
    <3>5. ASSUME NEW u \in queues \ {t}
          PROVE  Matches(queue'[u], slot', u)
      <4>1. Matches(queue[u], slot, u) /\ getQueue(c) # u
        OBVIOUS
      <4>2. Matches(queue[u], [slot EXCEPT ![c] = "queued"], u)
        BY <2>3, <4>1, MatchesSame, Zenon
      <4> QED  BY <3>1, <3>2, <4>2
    <3>6. \A u \in queues : HeldIn(slot', u) = HeldIn(slot, u)
      BY <2>1, <2>3, <3>1 DEF HeldIn
    <3>7. Accounted(t)'
      <4>1. Len(queue'[t]) = Len(queue[t]) + 1
        BY <2>1, <3>2, AppendProperties DEF TypeOK
      <4>2. Accounted(t)
        BY <1>2, <2>1
      <4> QED  BY <2>1, <2>2, <2>4, <3>6, <4>1, <4>2, NumbersAreNumbers DEF Accounted
    <3>8. \A u \in queues \ {t} : Accounted(u)'
      BY <1>2, <2>2, <3>2, <3>6 DEF Accounted
    <3>9. UncountedAreUnlimited'
      BY <1>2, <2>3, <3>1 DEF UncountedAreUnlimited
    <3> QED  BY <3>3, <3>4, <3>5, <3>7, <3>8, <3>9, InvByQueueNext
  <2>5. CASE ~(capacity[t] - 1 < 0)
    <3>1. queue' = queue /\ slot' = [slot EXCEPT ![c] = "held"]
      BY <2>1, <2>5 DEF enqueue
    <3>2. TypeOK'
      BY <2>1, <2>2, <3>1 DEF TypeOK, SlotStates
    <3>3. ASSUME NEW u \in queues
          PROVE  Matches(queue'[u], slot', u)
      <4>1. Matches(queue[u], slot, u) /\ slot[c] # "queued" /\ "held" # "queued"
        BY <2>1
      <4>2. Matches(queue[u], [slot EXCEPT ![c] = "held"], u)
        BY <2>3, <4>1, MatchesSame, Zenon
      <4> QED  BY <3>1, <4>2
    <3>4. Cardinality(HeldIn(slot', t)) = Cardinality(HeldIn(slot, t)) + 1
      BY <2>1, <2>3, <3>1, HeldAdd
    <3>5. \A u \in queues \ {t} : HeldIn(slot', u) = HeldIn(slot, u)
      BY <2>3, <3>1 DEF HeldIn
    <3>6. Accounted(t)'
      <4>1. Accounted(t)
        BY <1>2, <2>1
      <4>2. queue[t] = <<>>
        BY <2>1, <2>5, <4>1, NumbersAreNumbers DEF Accounted
      <4>3. /\ limits[t] \in Int
            /\ Cardinality(HeldIn(slot, t)) \in Nat
            /\ Len(queue[t]) \in Nat
        BY <2>1, NumbersAreNumbers
      <4>4. capacity[t] = limits[t] - Cardinality(HeldIn(slot, t)) - Len(queue[t])
        BY <4>1 DEF Accounted
      <4>5. capacity'[t] = limits[t] - Cardinality(HeldIn(slot', t)) - Len(queue'[t])
        <5>1. Len(queue'[t]) = Len(queue[t])
          BY <3>1
        <5>2. capacity'[t] = capacity[t] - 1
          BY <2>2
        <5> HIDE DEF t
        <5> QED  BY <3>4, <4>3, <4>4, <5>1, <5>2
      <4> QED  BY <3>1, <4>2, <4>5 DEF Accounted
    <3>7. \A u \in queues \ {t} : Accounted(u)'
      BY <1>2, <2>2, <3>1, <3>5 DEF Accounted
    <3>8. UncountedAreUnlimited'
      BY <1>2, <2>3, <3>1 DEF UncountedAreUnlimited
    <3> QED  BY <3>2, <3>3, <3>6, <3>7, <3>8, InvByQueueNext
  <2> QED  BY <2>4, <2>5
<1> QED  BY <1>1, <1>2

\* dequeue() and remove() alike: one call of type t leaves the count of queued
\* and held calls, capacity grows by one and resolveNext() runs on the rest.
LEMMA FreeOneInv ==
    ASSUME ConcurrencyInv, isEnabled, NEW t \in queues,
           NEW q \in Seq(Calls), NEW s \in [Calls -> SlotStates],
           Matches(q, s, t), \A u \in queues \ {t} : Matches(queue[u], s, u),
           \A u \in queues \ {t} : HeldIn(s, u) = HeldIn(slot, u),
           Cardinality(HeldIn(s, t)) + Len(q)
             = Cardinality(HeldIn(slot, t)) + Len(queue[t]) - 1,
           Len(q) <= Len(queue[t]),
           \A c \in Calls : s[c] = "through" => slot[c] = "through",
           capacity' = [capacity EXCEPT ![t] = @ + 1],
           resolveNext(t, q, s),
           UNCHANGED isEnabled
    PROVE  ConcurrencyInv'
<1>1. /\ TypeOK
      /\ \A u \in queues : Accounted(u)
      /\ UncountedAreUnlimited
  BY InvByQueue
<1>2. /\ queue' \in [queues -> Seq(Calls)]
      /\ slot' \in [Calls -> SlotStates]
      /\ \A u \in queues : Matches(queue'[u], slot', u)
      /\ \A u \in queues \ {t} : /\ queue'[u] = queue[u]
                                 /\ HeldIn(slot', u) = HeldIn(s, u)
      /\ Cardinality(HeldIn(slot', t)) + Len(queue'[t])
           = Cardinality(HeldIn(s, t)) + Len(q)
      /\ Len(queue'[t]) = IF q = <<>> THEN 0 ELSE Len(q) - 1
      /\ \A c \in Calls : slot'[c] = "through" => s[c] = "through"
  BY <1>1, ResolveNext
<1>3. /\ capacity' \in [queues -> Int]
      /\ capacity'[t] = capacity[t] + 1
      /\ \A u \in queues \ {t} : capacity'[u] = capacity[u]
  BY <1>1 DEF TypeOK
<1>4. TypeOK'
  BY <1>1, <1>2, <1>3 DEF TypeOK
<1>5. Accounted(t)'
  <2>1. /\ capacity[t] = limits[t] - Cardinality(HeldIn(slot, t)) - Len(queue[t])
        /\ queue[t] # <<>> => capacity[t] + Len(queue[t]) <= 0
    BY <1>1 DEF Accounted
  <2>2. /\ capacity[t] \in Int /\ limits[t] \in Int
        /\ Len(queue[t]) \in Nat
        /\ queue[t] = <<>> <=> Len(queue[t]) = 0
        /\ Cardinality(HeldIn(slot, t)) \in Nat
        /\ Cardinality(HeldIn(s, t)) \in Nat
        /\ Cardinality(HeldIn(slot', t)) \in Nat
    BY <1>1, NumbersAreNumbers, HeldFinite
  <2>3. /\ Len(q) \in Nat
        /\ q = <<>> <=> Len(q) = 0
        /\ Len(queue'[t]) \in Nat
        /\ queue'[t] = <<>> <=> Len(queue'[t]) = 0
    BY <1>2, LenProperties, EmptySeq
  <2>4. capacity'[t] = limits[t] - Cardinality(HeldIn(slot', t)) - Len(queue'[t])
    <3>1. Cardinality(HeldIn(slot', t)) + Len(queue'[t])
            = Cardinality(HeldIn(slot, t)) + Len(queue[t]) - 1
      BY <1>2
    <3>2. capacity'[t] = capacity[t] + 1
      BY <1>3
    <3> DEFINE h == Cardinality(HeldIn(slot', t))
               n == Len(queue'[t])
               g == Cardinality(HeldIn(slot, t))
               m == Len(queue[t])
               k == capacity[t]
               l == limits[t]
    <3>3. h \in Nat /\ n \in Nat /\ g \in Nat /\ m \in Nat /\ k \in Int /\ l \in Int
      BY <2>2, <2>3
    <3>4. h + n = g + m - 1 /\ k = l - g - m
      BY <2>1, <3>1
    <3> HIDE DEF h, n, g, m, k, l
    <3>5. k + 1 = l - h - n
      BY <3>3, <3>4
    <3> QED  BY <3>2, <3>5 DEF h, n, k, l
  <2>5. queue'[t] # <<>> => capacity'[t] + Len(queue'[t]) <= 0
    <3> SUFFICES ASSUME queue'[t] # <<>>
                 PROVE  capacity'[t] + Len(queue'[t]) <= 0
      OBVIOUS
    <3>1. Len(queue'[t]) = Len(q) - 1 /\ q # <<>>
      BY <1>2, <2>3
    <3>2. capacity[t] + Len(queue[t]) <= 0
      BY <2>1, <2>2, <2>3, <3>1
    <3> QED  BY <1>3, <2>2, <2>3, <3>1, <3>2
  <2> QED  BY <2>4, <2>5 DEF Accounted
<1>6. ASSUME NEW u \in queues \ {t}
      PROVE  Accounted(u)'
  <2>1. /\ Accounted(u)
        /\ queue'[u] = queue[u]
        /\ HeldIn(slot', u) = HeldIn(slot, u)
        /\ capacity'[u] = capacity[u]
    BY <1>1, <1>2, <1>3
  <2> QED  BY <2>1 DEF Accounted
<1>7. UncountedAreUnlimited'
  BY <1>1, <1>2 DEF UncountedAreUnlimited
<1> QED  BY <1>2, <1>4, <1>5, <1>6, <1>7, InvByQueueNext

\* release() keeps the invariant: a held call gives its unit back, dequeue() hands it on.
LEMMA ReleaseInv ==
    ASSUME ConcurrencyInv, NEW c \in Calls, Release(c)
    PROVE  ConcurrencyInv'
<1>0. /\ TypeOK
      /\ \A u \in queues : Matches(queue[u], slot, u)
      /\ UncountedAreUnlimited
  BY InvByQueue
<1>1. CASE ~isEnabled \/ isUnlimited(c)
  <2>1. /\ slot' = [slot EXCEPT ![c] = "released"]
        /\ UNCHANGED <<isEnabled, capacity, queue>>
        /\ slot[c] # "queued"
    BY <1>1 DEF Release, release
  <2> QED  BY <1>1, <2>1, Uncounted, Zenon
<1>2. CASE isEnabled /\ ~isUnlimited(c)
  <2> DEFINE t == getQueue(c)
             s == [slot EXCEPT ![c] = "released"]
  <2>1. /\ t \in queues
        /\ capacity' = [capacity EXCEPT ![t] = @ + 1]
        /\ resolveNext(t, queue[t], s)
        /\ UNCHANGED isEnabled
    BY <1>2, LimitedHasQueue DEF Release, release, dequeue
  <2>2. slot[c] = "held"
    BY <1>0, <1>2 DEF Release, UncountedAreUnlimited
  <2>3. /\ s \in [Calls -> SlotStates]
        /\ slot \in [Calls -> SlotStates]
        /\ queue[t] \in Seq(Calls)
    BY <1>0, <2>1 DEF TypeOK, SlotStates
  <2>4. ASSUME NEW u \in queues
        PROVE  Matches(queue[u], s, u)
    <3>1. slot[c] # "queued" /\ "released" # "queued" /\ Matches(queue[u], slot, u)
      BY <1>0, <2>2
    <3> QED  BY <2>3, <3>1, MatchesSame, Zenon
  <2>5. \A u \in queues \ {t} : HeldIn(s, u) = HeldIn(slot, u)
    BY <2>3 DEF HeldIn
  <2>6. Cardinality(HeldIn(s, t)) = Cardinality(HeldIn(slot, t)) - 1
    BY <2>2, <2>3, HeldSubtract
  <2>7. \A d \in Calls : s[d] = "through" => slot[d] = "through"
    BY <2>3
  <2>8. /\ Len(queue[t]) \in Nat
        /\ Cardinality(HeldIn(slot, t)) \in Nat
    BY <1>0, <2>1, NumbersAreNumbers
  <2> HIDE DEF s, t
  <2>9. Cardinality(HeldIn(s, t)) + Len(queue[t])
          = Cardinality(HeldIn(slot, t)) + Len(queue[t]) - 1
    BY <2>6, <2>8
  <2>10. Len(queue[t]) <= Len(queue[t])
    BY <2>8
  <2> QED  BY <1>2, <2>1, <2>3, <2>4, <2>5, <2>7, <2>9, <2>10, FreeOneInv
<1> QED  BY <1>1, <1>2

\* remove() looks in the queue that has() found the execution in.
LEMMA RemoveSelectsQueue ==
    ASSUME ConcurrencyInv, NEW e \in Executions, remove(e)
    PROVE  getQueue(<<e, 1>>) \in queues
<1> DEFINE t == getQueue(<<e, 1>>)
<1>0. /\ TypeOK
      /\ \A u \in queues : Matches(queue[u], slot, u)
  BY InvByQueue
<1>1. PICK u \in queues : \E i \in 1..Len(queue[u]) : executionId(queue[u][i]) = e
  BY DEF remove, has
<1>2. PICK i \in 1..Len(queue[u]) : executionId(queue[u][i]) = e
  BY <1>1
<1>3. queue[u][i] \in Calls
  BY <1>0, ElementOfSeq DEF TypeOK
<1>4. getQueue(queue[u][i]) = u
  BY <1>0, <1>2, <1>3 DEF Matches
<1>5. getQueue(queue[u][i]) = t
  BY <1>2 DEF getQueue, executionId
<1> QED  BY <1>4, <1>5

\* remove() keeps the invariant: a queued call leaves, and the next one may move up.
LEMMA RemoveInv ==
    ASSUME ConcurrencyInv, NEW e \in Executions, remove(e)
    PROVE  ConcurrencyInv'
<1> DEFINE t == getQueue(<<e, 1>>)
<1>0. /\ TypeOK
      /\ \A u \in queues : Matches(queue[u], slot, u)
      /\ slot \in [Calls -> SlotStates]
  BY InvByQueue DEF TypeOK
<1>1. isEnabled /\ UNCHANGED isEnabled
  BY DEF remove, has
<1>2. t \in queues
  BY RemoveSelectsQueue
<1>3. PICK index \in 1..Len(queue[t]) : removeFromQueue(t, index)
  BY DEF remove, findIndex
<1> DEFINE c == queue[t][index]
           q == RemoveAt(queue[t], index)
           s == [slot EXCEPT ![c] = "removed"]
<1>4. queue[t] \in Seq(Calls) /\ c \in Calls
  BY <1>0, <1>2, ElementOfSeq DEF TypeOK
<1>5. IsRemoval(Calls, queue[t], index, q)
  BY <1>4, RemoveAtIsRemoval
<1>6. slot[c] = "queued" /\ getQueue(c) = t
  BY <1>0, <1>2, <1>4 DEF Matches
<1>7. s \in [Calls -> SlotStates] /\ q \in Seq(Calls)
  BY <1>0, <1>4, <1>5 DEF SlotStates, IsRemoval
<1>8. Matches(q, s, t)
  <2>1. "removed" # "queued" /\ Matches(queue[t], slot, t)
    BY <1>0, <1>2
  <2> QED  BY <1>0, <1>4, <1>5, <2>1, MatchesRemoval, Zenon
<1>9. ASSUME NEW u \in queues \ {t}
      PROVE  Matches(queue[u], s, u)
  <2>1. getQueue(c) # u /\ Matches(queue[u], slot, u)
    BY <1>0, <1>6
  <2> QED  BY <1>0, <1>4, <2>1, MatchesSame, Zenon
<1>10. \A u \in queues : HeldIn(s, u) = HeldIn(slot, u)
  BY <1>0, <1>4, <1>6 DEF HeldIn
<1>11. \A d \in Calls : s[d] = "through" => slot[d] = "through"
  BY <1>0, <1>4
<1>12. /\ capacity' = [capacity EXCEPT ![t] = @ + 1]
       /\ resolveNext(t, q, s)
  BY <1>3 DEF removeFromQueue
<1>13. /\ Len(queue[t]) \in Nat
       /\ Len(q) = Len(queue[t]) - 1
       /\ Cardinality(HeldIn(slot, t)) \in Nat
  BY <1>0, <1>2, <1>5, NumbersAreNumbers DEF IsRemoval
<1> HIDE DEF s, q, t
<1>14. /\ Cardinality(HeldIn(s, t)) + Len(q)
            = Cardinality(HeldIn(slot, t)) + Len(queue[t]) - 1
       /\ Len(q) <= Len(queue[t])
  BY <1>2, <1>10, <1>13
<1> QED
  BY <1>1, <1>2, <1>7, <1>8, <1>9, <1>10, <1>11, <1>12, <1>14, FreeOneInv

\* disable() keeps the invariant: it only ends what the counters promise.
LEMMA DisableInv ==
    ASSUME ConcurrencyInv, Disable
    PROVE  ConcurrencyInv'
BY DEF ConcurrencyInv, Disable, disable, TypeOK, QueueMatchesPending,
       CapacityAccounting, NoSpareCapacity, UncountedAreUnlimited

\* Nobody is queued and nobody holds capacity, as when the process starts.
NobodyServed ==
    /\ isEnabled = (queues # {})
    /\ capacity = [t \in queues |-> limits[t]]
    /\ queue = [t \in queues |-> <<>>]
    /\ slot \in [Calls -> {"idle", "removed"}]

LEMMA NobodyServedInv == NobodyServed => ConcurrencyInv
<1> SUFFICES ASSUME NobodyServed
             PROVE  ConcurrencyInv
  OBVIOUS
<1>1. TypeOK
  BY ConcurrencyAssumption DEF NobodyServed, TypeOK, queues, SlotStates
<1>2. ASSUME NEW t \in queues
      PROVE  /\ queue[t] = <<>> /\ Len(queue[t]) = 0
             /\ HeldIn(slot, t) = {} /\ limits[t] \in Int
  BY ConcurrencyAssumption DEF NobodyServed, HeldIn, queues
<1>3. \A t \in queues : Matches(queue[t], slot, t)
  BY <1>2 DEF NobodyServed, Matches
<1>4. ASSUME NEW t \in queues
      PROVE  Accounted(t)
  <2>1. Cardinality(HeldIn(slot, t)) = 0
    BY <1>2, FS_EmptySet
  <2>2. capacity[t] = limits[t]
    BY DEF NobodyServed
  <2> QED  BY <1>2, <2>1, <2>2 DEF Accounted
<1>5. UncountedAreUnlimited
  BY DEF NobodyServed, UncountedAreUnlimited
<1> QED  BY <1>1, <1>3, <1>4, <1>5, InvByQueue

\* Every method of the service, in any order, keeps the invariant.
LEMMA ConcurrencyStep == ConcurrencyInv /\ [Next]_concurrencyVars => ConcurrencyInv'
<1> SUFFICES ASSUME ConcurrencyInv, [Next]_concurrencyVars
             PROVE  ConcurrencyInv'
  OBVIOUS
<1>1. CASE \E c \in Calls : Throttle(c)
  BY <1>1, ThrottleInv
<1>2. CASE \E c \in Calls : Release(c)
  BY <1>2, ReleaseInv
<1>3. CASE \E e \in Executions : remove(e)
  BY <1>3, RemoveInv
<1>4. CASE Disable
  BY <1>4, DisableInv
<1>5. CASE UNCHANGED concurrencyVars
  BY <1>5 DEF concurrencyVars, ConcurrencyInv, TypeOK, QueueMatchesPending,
             CapacityAccounting, NoSpareCapacity, UncountedAreUnlimited, Held
<1> QED  BY <1>1, <1>2, <1>3, <1>4, <1>5 DEF Next

-----------------------------------------------------------------------------
(* The theorems                                                            *)

\* The inductive invariant: the queues list exactly the pending calls, the
\* counters account for every call, and capacity is never spare while calls
\* are queued, in every reachable state of ConcurrencyControlService.
THEOREM ConcurrencyInvariant == Spec => []ConcurrencyInv
<1>1. ConcurrencyInit => NobodyServed
  BY DEF ConcurrencyInit, NobodyServed
<1> QED  BY <1>1, NobodyServedInv, ConcurrencyStep, PTL DEF Spec

\* Capacity left over and calls queued exclude each other.
LEMMA InvWorkConserving == ConcurrencyInv => WorkConserving
<1> SUFFICES ASSUME ConcurrencyInv, isEnabled, NEW t \in queues, queue[t] # <<>>
             PROVE  Cardinality(Held(t)) >= limits[t]
  BY DEF WorkConserving
<1>1. TypeOK /\ Accounted(t)
  BY InvByQueue
<1>2. Held(t) = HeldIn(slot, t)
  BY DEF Held, HeldIn
<1> QED  BY <1>1, <1>2, NumbersAreNumbers DEF Accounted

\* No throttled call is lost or resolved twice by enqueue, dequeue and remove.
THEOREM QueueMatchesPendingHolds == Spec => []QueueMatchesPending
<1>1. ConcurrencyInv => QueueMatchesPending
  BY DEF ConcurrencyInv
<1> QED  BY <1>1, ConcurrencyInvariant, PTL

\* ConcurrencyQueue.capacity always accounts for every call held or queued.
THEOREM CapacityAccountingHolds == Spec => []CapacityAccounting
<1>1. ConcurrencyInv => CapacityAccounting
  BY DEF ConcurrencyInv
<1> QED  BY <1>1, ConcurrencyInvariant, PTL

\* enqueue() throttles nobody while capacity is spare.
THEOREM WorkConservingHolds == Spec => []WorkConserving
BY InvWorkConserving, ConcurrencyInvariant, PTL

\* disable() stops admissions: a queued call stays queued during shutdown.
THEOREM NoResumeAfterDisableHolds == Spec => NoResumeAfterDisable
<1> DEFINE A == ~isEnabled => \A c \in Calls : slot[c] = "queued" => slot'[c] = "queued"
<1>1. ConcurrencyInv /\ [Next]_concurrencyVars => [A]_concurrencyVars
  <2> SUFFICES ASSUME TypeOK, [Next]_concurrencyVars, ~isEnabled,
                      NEW d \in Calls, slot[d] = "queued",
                      ~(UNCHANGED concurrencyVars)
               PROVE  slot'[d] = "queued"
    BY DEF ConcurrencyInv
  <2>1. ASSUME NEW c \in Calls, Throttle(c)
        PROVE  slot'[d] = "queued"
    BY <2>1 DEF Throttle, throttle, TypeOK
  <2>2. ASSUME NEW c \in Calls, Release(c)
        PROVE  slot'[d] = "queued"
    BY <2>2 DEF Release, release, TypeOK
  <2>3. ~\E e \in Executions : remove(e)
    BY DEF remove, has
  <2>4. ~Disable
    BY DEF Disable
  <2> QED  BY <2>1, <2>2, <2>3, <2>4 DEF Next
<1> QED  BY <1>1, ConcurrencyInvariant, PTL DEF Spec, NoResumeAfterDisable

\* The types of the service's state: a queue holds calls with their resolve
\* functions, and the capacity counter is an integer that may be negative.
THEOREM TypeOKHolds == Spec => []TypeOK
<1>1. ConcurrencyInv => TypeOK
  BY DEF ConcurrencyInv
<1> QED  BY <1>1, ConcurrencyInvariant, PTL

-----------------------------------------------------------------------------
(* The order of admission                                                  *)

\* resolveNext() lets nobody through but the head of what it is given.
LEMMA ResolveNextTakesHead ==
    ASSUME NEW t, NEW q \in Seq(Calls), NEW s \in [Calls -> SlotStates],
           resolveNext(t, q, s)
    PROVE  \A d \in Calls : slot'[d] # s[d] => /\ q # <<>>
                                              /\ d = q[1]
                                              /\ slot'[d] = "held"
<1>1. CASE q = <<>>
  BY <1>1 DEF resolveNext
<1>2. CASE q # <<>>
  <2>1. Head(q) = q[1] /\ q[1] \in Calls
    BY <1>2, HeadTailProperties, EmptySeq
  <2> QED  BY <1>2, <2>1 DEF resolveNext
<1> QED  BY <1>1, <1>2

\* ConcurrencyQueue is first in, first out: dequeue() lets the head through,
\* and remove() lets the head of what is left through.
LEMMA AdmittedInOrderStep ==
    ASSUME ConcurrencyInv, Next,
           NEW t \in queues, NEW i \in 1..Len(queue[t]), NEW j \in 1..Len(queue[t]),
           i < j, slot'[queue[t][j]] = "held"
    PROVE  slot'[queue[t][i]] # "queued"
<1> DEFINE a == queue[t][i]
           d == queue[t][j]
<1>1. /\ TypeOK
      /\ \A u \in queues : Matches(queue[u], slot, u)
      /\ slot \in [Calls -> SlotStates]
  BY InvByQueue DEF TypeOK
<1>2. queue[t] \in Seq(Calls) /\ a \in Calls /\ d \in Calls /\ i \in Nat /\ j \in Nat
  BY <1>1, ElementOfSeq DEF TypeOK
<1>3. /\ slot[a] = "queued" /\ getQueue(a) = t
      /\ slot[d] = "queued" /\ getQueue(d) = t
      /\ a # d
      /\ \A k \in 1..Len(queue[t]) : queue[t][k] = d => k = j
  BY <1>1, <1>2 DEF Matches
<1>4. ASSUME NEW c \in Calls, Throttle(c)
      PROVE  FALSE
  <2>1. slot'[d] = slot[d] \/ d = c
    BY <1>1, <1>2, <1>4 DEF Throttle, throttle, enqueue
  <2> QED  BY <1>3, <1>4, <2>1 DEF Throttle
<1>5. ASSUME NEW c \in Calls, Release(c)
      PROVE  FALSE
  <2>1. c # d
    BY <1>3, <1>5 DEF Release
  <2>2. CASE ~isEnabled \/ isUnlimited(c)
    BY <1>1, <1>2, <1>3, <1>5, <2>1, <2>2 DEF Release, release
  <2>3. CASE isEnabled /\ ~isUnlimited(c)
    <3> DEFINE u == getQueue(c)
               s == [slot EXCEPT ![c] = "released"]
    <3>1. u \in queues /\ resolveNext(u, queue[u], s)
      BY <1>5, <2>3, LimitedHasQueue DEF Release, release, dequeue
    <3>2. s \in [Calls -> SlotStates] /\ queue[u] \in Seq(Calls) /\ s[d] = "queued"
      BY <1>1, <1>2, <1>3, <2>1, <3>1 DEF TypeOK, SlotStates
    <3> HIDE DEF s, u
    <3>3. queue[u] # <<>> /\ d = queue[u][1]
      BY <1>2, <3>1, <3>2, ResolveNextTakesHead
    <3>4. 1 \in 1..Len(queue[u])
      BY <3>2, <3>3, LenProperties, EmptySeq
    <3>5. u = t
      BY <1>1, <1>2, <1>3, <3>1, <3>3, <3>4 DEF Matches
    <3> QED  BY <1>2, <1>3, <3>3, <3>4, <3>5
  <2> QED  BY <2>2, <2>3
<1>6. ASSUME NEW e \in Executions, remove(e)
      PROVE  slot'[a] # "queued"
  <2> DEFINE u == getQueue(<<e, 1>>)
  <2>1. PICK index \in 1..Len(queue[u]) : removeFromQueue(u, index)
    BY <1>6 DEF remove, findIndex
  <2>2. u \in queues
    BY <1>6, RemoveSelectsQueue
  <2> HIDE DEF u
  <2> DEFINE c == queue[u][index]
             q == RemoveAt(queue[u], index)
             s == [slot EXCEPT ![c] = "removed"]
  <2>3. queue[u] \in Seq(Calls) /\ c \in Calls /\ index \in Nat /\ index >= 1
    BY <1>1, <2>2, ElementOfSeq DEF TypeOK
  <2>4. IsRemoval(Calls, queue[u], index, q)
    BY <2>3, RemoveAtIsRemoval
  <2>5. resolveNext(u, q, s) /\ s \in [Calls -> SlotStates] /\ q \in Seq(Calls)
    BY <1>1, <2>1, <2>3, <2>4 DEF removeFromQueue, SlotStates, IsRemoval
  <2>6. s[d] # "held" /\ (a # c => s[a] = "queued") /\ s[c] = "removed"
    BY <1>1, <1>2, <1>3, <2>3
  <2> HIDE DEF s, q
  <2>7. q # <<>> /\ d = q[1]
    BY <1>2, <2>5, <2>6, ResolveNextTakesHead
  <2>8. 1 \in 1..Len(q) /\ Len(queue[u]) \in Nat /\ Len(q) \in Nat
    BY <2>3, <2>5, <2>7, LenProperties, EmptySeq
  <2>9. /\ Len(q) = Len(queue[u]) - 1
        /\ q[1] = IF 1 < index THEN queue[u][1] ELSE queue[u][2]
    BY <2>4, <2>8 DEF IsRemoval
  <2>10. 1 \in 1..Len(queue[u]) /\ 2 \in 1..Len(queue[u])
    BY <2>8, <2>9
  <2>11. u = t
    BY <1>1, <1>2, <1>3, <2>2, <2>7, <2>9, <2>10 DEF Matches
  <2>12. ~(1 < index) /\ j = 2
    BY <1>2, <1>3, <2>7, <2>9, <2>10, <2>11
  <2>13. i = 1 /\ index = 1 /\ a = c
    BY <1>2, <2>3, <2>11, <2>12
  <2> QED  BY <1>2, <1>3, <2>5, <2>6, <2>7, <2>13, ResolveNextTakesHead
<1>7. ~Disable
  BY <1>3 DEF Disable, disable
<1> QED  BY <1>4, <1>5, <1>6, <1>7 DEF Next

\* First throttled, first admitted: resolveNext() shifts the queue, and taking
\* an item out of the middle of it overtakes nobody.
THEOREM AdmittedInOrderHolds == Spec => AdmittedInOrder
<1> DEFINE A == \A t \in queues : \A i, j \in 1..Len(queue[t]) :
                   (i < j /\ slot'[queue[t][j]] = "held")
                      => slot'[queue[t][i]] # "queued"
<1>1. ConcurrencyInv /\ [Next]_concurrencyVars => [A]_concurrencyVars
  BY AdmittedInOrderStep
<1> QED  BY <1>1, ConcurrencyInvariant, PTL DEF Spec, AdmittedInOrder

=============================================================================
