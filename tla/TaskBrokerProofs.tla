-------------------------- MODULE TaskBrokerProofs --------------------------
(***************************************************************************)
(* The task broker, proved for any number of runners, launchers, requests, *)
(* slots and delays, in both modes of the task runners.                    *)
(*                                                                         *)
(* The argument goes in layers.  Types and the addressing of messages come *)
(* first (BrokerTypes).  Then the broker's marks (AcceptInv): a request is *)
(* marked as long as some runner is asked to take it, and a request that   *)
(* is no longer waiting for a runner stays marked as long as it is         *)
(* pending.  Then the stages an id goes through (StageInv): an offer under *)
(* way, pending, being accepted, a task.  Ids are drawn again only when    *)
(* nothing refers to them, so no id is in two stages, which is why a task  *)
(* is never overwritten and why the settings find a task that waits.       *)
(***************************************************************************)
EXTENDS TaskRunnerProofs, SequenceFacts

\* The messages that offer a task slot, and those that carry settings.
Offers == {m \in ToBroker : m.type = "offer"}
Settings == {m \in ToRunner : m.type = "settings"}

\* A runner's socket carries messages about its own offers and tasks only.
OwnMessages ==
    \A r \in Runners :
        /\ \A m \in Range(toBroker[r]) : runnerOf(m.id) = r
        /\ \A m \in Range(toRunner[r]) : m.type # "registered" => runnerOf(m.id) = r

\* A launcher's offers do not expire.
LaunchersStayValid == \A id \in outdated : runnerOf(id) \notin Launchers

\* The first layer.
BrokerTypes ==
    /\ BrokerTypeOK
    /\ OwnMessages
    /\ LaunchersStayValid

\* startTask awaits the result of one task at most.
AwaitedOnce ==
    \A t \in Ids :
        LET q == taskAcceptRejects[t]
        IN  q # NoRequest => /\ request[q] = "awaiting"
                             /\ \A u \in Ids : taskAcceptRejects[u] = q => u = t

\* The second layer.
AcceptInv ==
    /\ OneAcceptPerRequest
    /\ LeftoverIsInert
    /\ AwaitedOnce

\* The offer is under way to the broker, pending there, or being accepted.
underWay(t) == [type |-> "offer", id |-> t] \in Range(toBroker[runnerOf(t)])
pending(t) == t \in Range(pendingTaskOffers)
accepting(t) == runnerAcceptRejects[t] # NoRequest

\* Settings for the task are under way to the runner.
settingsSent(t) == \E m \in Range(toRunner[runnerOf(t)]) : m \in Settings /\ m.id = t

\* An id is in one of these stages at most.
OneStage ==
    \A t \in Ids : /\ ~(underWay(t) /\ pending(t))
                   /\ ~(underWay(t) /\ accepting(t))
                   /\ ~(pending(t) /\ accepting(t))

\* In these stages the id names no task of the broker, none that has received
\* settings at the runner, and no settings are under way to it.
NotYetTask ==
    \A t \in Ids :
        underWay(t) \/ pending(t) \/ accepting(t) =>
            /\ tasks[t] = NoTask
            /\ taskStatus[t] \in {"waitingForSettings", "none"}
            /\ ~settingsSent(t)

\* Nothing is offered or sent twice.
NoRepeats ==
    /\ \A i, j \in 1..Len(pendingTaskOffers) :
          pendingTaskOffers[i] = pendingTaskOffers[j] => i = j
    /\ \A r \in Runners : Once(toBroker[r], Offers) /\ Once(toRunner[r], Settings)

\* The third layer.
StageInv ==
    /\ OneStage
    /\ NotYetTask
    /\ NoRepeats
    /\ NoOrphanedRequest
    /\ SettingsExpected

-----------------------------------------------------------------------------
(* filter, and what settleTasks does                                       *)

\* p lists P in ascending order.
Lists(p, P) ==
    /\ p \in [1..Cardinality(P) -> P]
    /\ \A i, j \in 1..Cardinality(P) : i < j => p[i] < p[j]

\* Every finite set of positions can be listed in ascending order.
LEMMA ListExists ==
    \A m \in Nat : \A P \in SUBSET (1..m) : \E p : Lists(p, P)
<1> DEFINE Bad == {m \in Nat : \E P \in SUBSET (1..m) : ~\E p : Lists(p, P)}
<1> SUFFICES ASSUME Bad # {}
             PROVE  FALSE
  OBVIOUS
<1>1. PICK m \in Bad : \A k \in Bad : m <= k
  <2>1. Bad \in SUBSET Nat
    OBVIOUS
  <2> HIDE DEF Bad
  <2> QED  BY <2>1, LeastNumber
<1>2. m \in Nat
  OBVIOUS
<1>3. PICK P \in SUBSET (1..m) : ~\E p : Lists(p, P)
  OBVIOUS
<1>4. IsFiniteSet(P) /\ Cardinality(P) \in Nat
  <2>1. IsFiniteSet(1..m)
    BY <1>2, FS_Interval
  <2>2. IsFiniteSet(P)
    BY <2>1, FS_Subset
  <2> QED  BY <2>2, FS_CardinalityType
<1>5. CASE P = {}
  <2>1. Cardinality(P) = 0 /\ 1..0 = {}
    BY <1>5, FS_EmptySet
  <2>2. Lists([i \in 1..0 |-> i], P)
    BY <1>5, <2>1 DEF Lists
  <2> QED  BY <1>3, <2>2
<1>6. CASE P # {}
  <2>1. m - 1 \in Nat /\ m - 1 \notin Bad
    <3>1. m # 0
      <4>1. PICK x \in P : x \in 1..m
        BY <1>6
      <4>2. x \in Int /\ 1 <= x /\ x <= m
        BY <1>2, <4>1
      <4> QED  BY <1>2, <4>2
    <3>2. m - 1 \in Nat /\ ~(m <= m - 1)
      BY <1>2, <3>1
    <3> HIDE DEF Bad
    <3> QED  BY <1>1, <3>2
  <2>2. \A Q \in SUBSET (1..(m - 1)) : \E p : Lists(p, Q)
    BY <2>1
  <2> HIDE DEF Bad
  <2>3. m \in P
    <3> SUFFICES ASSUME m \notin P
                 PROVE  FALSE
      OBVIOUS
    <3>1. P \in SUBSET (1..(m - 1))
      BY <1>2, <2>1
    <3> QED  BY <1>3, <2>2, <3>1
  <2> DEFINE Q == P \ {m}
             n == Cardinality(Q)
  <2>4. Q \in SUBSET (1..(m - 1)) /\ \A x \in Q : x < m
    BY <1>2, <2>1
  <2>5. PICK q : Lists(q, Q)
    BY <2>2, <2>4
  <2>6. n \in Nat /\ Cardinality(P) = n + 1
    <3>1. IsFiniteSet(Q) /\ Cardinality(Q) = Cardinality(P) - 1
      BY <1>4, <2>3, FS_RemoveElement
    <3>2. Cardinality(Q) \in Nat
      BY <3>1, FS_CardinalityType
    <3> QED  BY <1>4, <3>1, <3>2
  <2> DEFINE p == [i \in 1..(n + 1) |-> IF i = n + 1 THEN m ELSE q[i]]
  <2>7. \A i \in 1..n : q[i] \in Q /\ q[i] \in P /\ q[i] < m
    BY <2>4, <2>5 DEF Lists
  <2> HIDE DEF n
  <2>8. p \in [1..(n + 1) -> P]
    BY <2>3, <2>6, <2>7
  <2>9. ASSUME NEW i \in 1..(n + 1), NEW j \in 1..(n + 1), i < j
        PROVE  p[i] < p[j]
    <3>1. i \in 1..n /\ p[i] = q[i]
      BY <2>6, <2>9
    <3>2. CASE j = n + 1
      BY <2>7, <3>1, <3>2
    <3>3. CASE j # n + 1
      <4>1. j \in 1..n /\ p[j] = q[j]
        BY <2>6, <3>3
      <4> QED  BY <2>5, <2>9, <3>1, <4>1 DEF Lists, n
    <3> QED  BY <3>2, <3>3
  <2>10. Lists(p, P)
    BY <2>6, <2>8, <2>9 DEF Lists
  <2> QED  BY <1>3, <2>10
<1> QED  BY <1>5, <1>6

\* Array.filter: each element is one of s at a position in P, and two of them
\* come from two positions.
LEMMA FilterProperties ==
    ASSUME NEW S, NEW s \in Seq(S), NEW P \in SUBSET (1..Len(s))
    PROVE  /\ filter(s, P) \in Seq(S)
           /\ Len(filter(s, P)) = Cardinality(P)
           /\ Len(filter(s, P)) \in Nat
           /\ \A k \in 1..Len(filter(s, P)) :
                 ascending(P)[k] \in P /\ filter(s, P)[k] = s[ascending(P)[k]]
           /\ \A k, l \in 1..Len(filter(s, P)) :
                 ascending(P)[k] = ascending(P)[l] => k = l
<1> DEFINE n == Cardinality(P)
           a == ascending(P)
           f == filter(s, P)
<1>1. Len(s) \in Nat /\ \A i \in 1..Len(s) : s[i] \in S
  BY LenProperties, ElementOfSeq
<1>2. n \in Nat
  <2>1. IsFiniteSet(1..Len(s))
    BY <1>1, FS_Interval
  <2>2. IsFiniteSet(P)
    BY <2>1, FS_Subset
  <2> QED  BY <2>2, FS_CardinalityType
<1>3. a \in [1..n -> P] /\ \A i, j \in 1..n : i < j => a[i] < a[j]
  <2>1. \E p : Lists(p, P)
    BY <1>1, ListExists
  <2>2. \E p \in [1..n -> P] : \A i, j \in 1..n : i < j => p[i] < p[j]
    BY <2>1 DEF Lists
  <2> QED  BY <2>2 DEF ascending
<1>4. \A k, l \in 1..n : a[k] = a[l] => k = l
  <2> SUFFICES ASSUME NEW k \in 1..n, NEW l \in 1..n, a[k] = a[l], k # l
               PROVE  FALSE
    OBVIOUS
  <2> HIDE DEF a
  <2>1. a[k] \in P /\ a[l] \in P
    BY <1>3
  <2>3. a[k] \in Int /\ a[l] \in Int
    <3>1. P \subseteq 1..Len(s) /\ 1..Len(s) \subseteq Int
      BY <1>1
    <3> QED  BY <2>1, <3>1
  <2>2. k < l \/ l < k
    BY <1>2
  <2> QED  BY <1>3, <2>2, <2>3
<1> HIDE DEF a, n
<1>5. f = [k \in 1..n |-> s[a[k]]]
  BY DEF filter, a, n
<1>6. \A k \in 1..n : s[a[k]] \in S
  BY <1>1, <1>3
<1>7. f \in [1..n -> S]
  BY <1>5, <1>6
<1>8. f \in Seq(S)
  BY <1>2, <1>7, SeqDef
<1>9. Len(f) = n
  <2>1. DOMAIN f = 1..n /\ DOMAIN f = 1..Len(f) /\ Len(f) \in Nat
    BY <1>7, <1>8, LenProperties
  <2> QED  BY <1>2, <2>1
<1>10. \A k \in 1..n : f[k] = s[a[k]]
  BY <1>5
<1> QED  BY <1>2, <1>3, <1>4, <1>8, <1>9, <1>10 DEF a, n

\* settleTasks takes up distinct requests that are pending and not in progress.
LEMMA UnacceptedProperties ==
    ASSUME NEW requests \in Seq(Requests)
    PROVE  LET next == unaccepted(requests)
           IN  /\ next \in Seq(Requests)
               /\ Len(next) \in Nat
               /\ \A k \in 1..Len(next) : /\ next[k] \in Requests
                                          /\ next[k] \in Range(requests)
                                          /\ ~acceptInProgress[next[k]]
               /\ \A k, l \in 1..Len(next) : next[k] = next[l] => k = l
<1> DEFINE first(i) == \A j \in 1..(i - 1) : requests[j] # requests[i]
           P == {i \in 1..Len(requests) : first(i) /\ ~acceptInProgress[requests[i]]}
           a == ascending(P)
           next == filter(requests, P)
<1>1. Len(requests) \in Nat /\ \A i \in 1..Len(requests) : requests[i] \in Requests
  BY LenProperties, ElementOfSeq
<1>2. P \in SUBSET (1..Len(requests))
  OBVIOUS
<1>3. \A i \in P : /\ first(i) /\ ~acceptInProgress[requests[i]]
                   /\ requests[i] \in Requests /\ requests[i] \in Range(requests)
                   /\ i \in Nat /\ 1 <= i
  BY <1>1, InRange
<1>4. unaccepted(requests) = next
  BY DEF unaccepted
<1> HIDE DEF P
<1>5. /\ next \in Seq(Requests)
      /\ Len(next) \in Nat
      /\ \A k \in 1..Len(next) : a[k] \in P /\ next[k] = requests[a[k]]
      /\ \A k, l \in 1..Len(next) : a[k] = a[l] => k = l
  BY <1>2, FilterProperties
<1> HIDE DEF a, next
<1>6. ASSUME NEW k \in 1..Len(next), NEW l \in 1..Len(next), next[k] = next[l]
      PROVE  k = l
  <2>1. a[k] \in P /\ a[l] \in P /\ requests[a[k]] = requests[a[l]]
    BY <1>5, <1>6
  <2>2. ASSUME NEW x \in P, NEW y \in P, x < y
        PROVE  requests[x] # requests[y]
    <3>1. x \in Nat /\ 1 <= x /\ y \in Nat /\ first(y)
      BY <1>3
    <3>2. x \in 1..(y - 1)
      BY <2>2, <3>1
    <3> QED  BY <3>1, <3>2
  <2>3. a[k] \in Nat /\ a[l] \in Nat
    BY <1>3, <2>1
  <2>4. a[k] = a[l] \/ a[k] < a[l] \/ a[l] < a[k]
    BY <2>3
  <2>5. a[k] = a[l]
    BY <2>1, <2>2, <2>4
  <2> QED  BY <1>5, <2>5
<1> QED  BY <1>3, <1>4, <1>5, <1>6

\* No element occurs twice.
Injective(s) == \A i, j \in 1..Len(s) : s[i] = s[j] => i = j

\* filter keeps elements distinct and takes them from where P says.
LEMMA FilterRange ==
    ASSUME NEW S, NEW s \in Seq(S), NEW P \in SUBSET (1..Len(s))
    PROVE  /\ filter(s, P) \in Seq(S)
           /\ \A x \in Range(filter(s, P)) : \E i \in P : x = s[i]
           /\ Range(filter(s, P)) \subseteq Range(s)
           /\ Injective(s) => Injective(filter(s, P))
<1> DEFINE f == filter(s, P)
           a == ascending(P)
<1>1. /\ f \in Seq(S)
      /\ \A k \in 1..Len(f) : a[k] \in P /\ f[k] = s[a[k]]
      /\ \A k, l \in 1..Len(f) : a[k] = a[l] => k = l
  BY FilterProperties
<1> HIDE DEF f, a
<1>2. \A k \in 1..Len(f) : a[k] \in 1..Len(s)
  BY <1>1
<1>3. ASSUME NEW x \in Range(f)
      PROVE  \E i \in P : x = s[i]
  <2>1. PICK k \in 1..Len(f) : f[k] = x
    BY <1>1, InRange
  <2>2. a[k] \in P /\ x = s[a[k]]
    BY <1>1, <2>1
  <2> QED  BY <2>2
<1>4. Range(f) \subseteq Range(s)
  <2> SUFFICES ASSUME NEW x \in Range(f)
               PROVE  x \in Range(s)
    OBVIOUS
  <2>1. PICK i \in P : x = s[i]
    BY <1>3
  <2>2. i \in 1..Len(s)
    OBVIOUS
  <2> QED  BY <2>1, <2>2, InRange
<1>5. Injective(s) => Injective(f)
  BY <1>1, <1>2 DEF Injective
<1> QED  BY <1>1, <1>3, <1>4, <1>5 DEF f

\* r is sent ms, unless its socket is closed.
Sends(r, ms) ==
    toRunner'[r] = toRunner[r] \/ toRunner'[r] = toRunner[r] \o ms

\* The ids whose offers settleTasks accepts: each takes a request of its own
\* that was pending and not in progress, and is in progress now.
Accepts(A, offers, requests) ==
    /\ A \subseteq Range(offers)
    /\ \A id \in Ids \ A : runnerAcceptRejects'[id] = runnerAcceptRejects[id]
    /\ \A id \in A : /\ runnerAcceptRejects'[id] \in Requests
                     /\ runnerAcceptRejects'[id] \in Range(requests)
                     /\ ~acceptInProgress[runnerAcceptRejects'[id]]
                     /\ acceptInProgress'[runnerAcceptRejects'[id]]
    /\ \A id, u \in A : runnerAcceptRejects'[id] = runnerAcceptRejects'[u] => id = u
    /\ Injective(offers) => A \cap Range(pendingTaskOffers') = {}

\* settleTasks as a whole.
LEMMA SettleTasks ==
    ASSUME BrokerTypeOK, NEW offers \in Seq(Ids), NEW requests \in Seq(Requests),
           settleTasks(offers, requests)
    PROVE  /\ expired' = {}
           /\ pendingTaskOffers' \in Seq(Ids)
           /\ Range(pendingTaskOffers') \subseteq Range(offers)
           /\ Injective(offers) => Injective(pendingTaskOffers')
           /\ pendingTaskRequests' = requests
           /\ acceptInProgress' \in [Requests -> BOOLEAN]
           /\ \A q \in Requests : acceptInProgress[q] => acceptInProgress'[q]
           /\ runnerAcceptRejects' \in [Ids -> Requests \cup {NoRequest}]
           /\ \E A \in SUBSET Ids : Accepts(A, offers, requests)
           /\ toRunner' \in [Runners -> Seq(ToRunner)]
           /\ \A r \in Runners : \E ms \in Seq(ToRunner) :
                 /\ Sends(r, ms)
                 /\ \A m \in Range(ms) : m.type = "offeraccept" /\ runnerOf(m.id) = r
<1> DEFINE V == {i \in 1..Len(offers) : offers[i] \notin expired}
           valid == filter(offers, V)
           next == unaccepted(requests)
           n == Min({Len(valid), Len(next)})
           P(r) == {i \in 1..n : runnerOf(valid[i]) = r}
           accepted(r) == filter(valid, P(r))
           msgs(r) == [i \in 1..Len(accepted(r)) |->
                          [type |-> "offeraccept", id |-> accepted(r)[i]]]
           A == {id \in Ids : \E i \in 1..n : valid[i] = id}
<1>1. /\ valid \in Seq(Ids)
      /\ Range(valid) \subseteq Range(offers)
      /\ Injective(offers) => Injective(valid)
  <2>1. V \in SUBSET (1..Len(offers))
    OBVIOUS
  <2> HIDE DEF V
  <2> QED  BY <2>1, FilterRange
<1>2. /\ expired' = {}
      /\ pendingTaskOffers' = SubSeq(valid, n + 1, Len(valid))
      /\ pendingTaskRequests' = requests
      /\ acceptInProgress' = [q \in Requests |->
              acceptInProgress[q] \/ \E i \in 1..n : next[i] = q]
      /\ runnerAcceptRejects' = [id \in Ids |->
              IF \E i \in 1..n : valid[i] = id
                THEN next[CHOOSE i \in 1..n : valid[i] = id]
                ELSE runnerAcceptRejects[id]]
      /\ toRunner' = [r \in Runners |-> withMessages(r, msgs(r))]
  BY DEF settleTasks
<1> HIDE DEF valid
<1>3. /\ Len(valid) \in Nat
      /\ \A i \in 1..Len(valid) : valid[i] \in Ids /\ valid[i] \in Range(valid)
  BY <1>1, LenProperties, ElementOfSeq, InRange
<1>4. /\ Len(next) \in Nat
      /\ \A k \in 1..Len(next) : /\ next[k] \in Requests
                                 /\ next[k] \in Range(requests)
                                 /\ ~acceptInProgress[next[k]]
      /\ \A k, l \in 1..Len(next) : next[k] = next[l] => k = l
  BY UnacceptedProperties
<1> HIDE DEF next
<1>5. n \in Nat /\ n <= Len(valid) /\ n <= Len(next)
  <2>1. {Len(valid), Len(next)} \in SUBSET Nat /\ {Len(valid), Len(next)} # {}
    BY <1>3, <1>4
  <2> QED  BY <1>3, <1>4, <2>1, MinProperties
<1> HIDE DEF n
<1>6. \A i \in 1..n : i \in 1..Len(valid) /\ i \in 1..Len(next)
  BY <1>3, <1>4, <1>5
<1>7. /\ pendingTaskOffers' \in Seq(Ids)
      /\ Len(pendingTaskOffers') = Len(valid) - n
      /\ \A i \in 1..Len(pendingTaskOffers') :
            pendingTaskOffers'[i] = valid[n + i] /\ n + i \in 1..Len(valid)
  <2>1. \A i \in (n + 1)..Len(valid) : valid[i] \in Ids
    BY <1>3, <1>5
  <2>2. /\ pendingTaskOffers' \in Seq(Ids)
        /\ Len(pendingTaskOffers')
             = IF n + 1 <= Len(valid) THEN Len(valid) - (n + 1) + 1 ELSE 0
        /\ \A i \in 1..(Len(valid) - (n + 1) + 1) :
              pendingTaskOffers'[i] = valid[(n + 1) + i - 1]
    <3>1. n + 1 \in Int /\ Len(valid) \in Int
      BY <1>3, <1>5
    <3> QED  BY <1>2, <2>1, <3>1, SubSeqProperties
  <2>3. Len(pendingTaskOffers') = Len(valid) - n
    <3>1. CASE n + 1 <= Len(valid)
      BY <1>3, <1>5, <2>2, <3>1
    <3>2. CASE ~(n + 1 <= Len(valid))
      <4>1. Len(valid) = n
        BY <1>3, <1>5, <3>2
      <4> QED  BY <1>5, <2>2, <3>2, <4>1
    <3> QED  BY <3>1, <3>2
  <2>4. ASSUME NEW i \in 1..Len(pendingTaskOffers')
        PROVE  /\ (n + 1) + i - 1 = n + i
               /\ i \in 1..(Len(valid) - (n + 1) + 1)
               /\ n + i \in 1..Len(valid)
    BY <1>3, <1>5, <2>3
  <2> QED  BY <2>2, <2>3, <2>4
<1>8. Range(pendingTaskOffers') \subseteq Range(offers)
  <2> SUFFICES ASSUME NEW x \in Range(pendingTaskOffers')
               PROVE  x \in Range(valid)
    BY <1>1
  <2>1. PICK i \in 1..Len(pendingTaskOffers') : pendingTaskOffers'[i] = x
    BY <1>7, InRange
  <2> QED  BY <1>3, <1>7, <2>1
<1>9. ASSUME Injective(offers)
      PROVE  /\ Injective(pendingTaskOffers')
             /\ A \cap Range(pendingTaskOffers') = {}
  <2>1. Injective(valid)
    BY <1>1, <1>9
  <2>2. ASSUME NEW i \in 1..Len(pendingTaskOffers'), NEW j \in 1..Len(pendingTaskOffers'),
               pendingTaskOffers'[i] = pendingTaskOffers'[j]
        PROVE  i = j
    <3>1. n + i = n + j
      BY <1>7, <2>1, <2>2 DEF Injective
    <3> QED  BY <1>5, <3>1
  <2>3. ASSUME NEW id \in A, id \in Range(pendingTaskOffers')
        PROVE  FALSE
    <3>1. PICK i \in 1..n : valid[i] = id
      OBVIOUS
    <3>2. PICK j \in 1..Len(pendingTaskOffers') : pendingTaskOffers'[j] = id
      BY <1>7, <2>3, InRange
    <3>3. i = n + j
      BY <1>6, <1>7, <2>1, <3>1, <3>2 DEF Injective
    <3> QED  BY <1>5, <3>3
  <2> QED  BY <2>2, <2>3 DEF Injective
<1>10. acceptInProgress' \in [Requests -> BOOLEAN]
  <2>1. acceptInProgress \in [Requests -> BOOLEAN]
    BY DEF BrokerTypeOK
  <2> QED  BY <1>2, <2>1
<1>11. \A q \in Requests : acceptInProgress[q] => acceptInProgress'[q]
  BY <1>2
<1>12. ASSUME NEW id \in A
       PROVE  \E i \in 1..n : valid[i] = id /\ runnerAcceptRejects'[id] = next[i]
  <2>1. \E i \in 1..n : valid[i] = id
    OBVIOUS
  <2> DEFINE k == CHOOSE i \in 1..n : valid[i] = id
  <2>2. k \in 1..n /\ valid[k] = id
    BY <2>1
  <2>3. runnerAcceptRejects'[id] = next[k]
    BY <1>2, <2>1
  <2> QED  BY <2>2, <2>3
<1>13. \A id \in Ids \ A : runnerAcceptRejects'[id] = runnerAcceptRejects[id]
  BY <1>2
<1>14. A \subseteq Range(offers)
  BY <1>1, <1>3, <1>6
<1> HIDE DEF A
<1>15. ASSUME NEW id \in A
       PROVE  /\ runnerAcceptRejects'[id] \in Requests
              /\ runnerAcceptRejects'[id] \in Range(requests)
              /\ ~acceptInProgress[runnerAcceptRejects'[id]]
              /\ acceptInProgress'[runnerAcceptRejects'[id]]
  <2>1. PICK i \in 1..n : runnerAcceptRejects'[id] = next[i]
    BY <1>12
  <2>2. next[i] \in Requests /\ next[i] \in Range(requests) /\ ~acceptInProgress[next[i]]
    BY <1>4, <1>6
  <2>3. acceptInProgress'[next[i]]
    BY <1>2, <2>2
  <2> QED  BY <2>1, <2>2, <2>3
<1>16. ASSUME NEW id \in A, NEW u \in A, runnerAcceptRejects'[id] = runnerAcceptRejects'[u]
       PROVE  id = u
  <2>1. PICK i \in 1..n : valid[i] = id /\ runnerAcceptRejects'[id] = next[i]
    BY <1>12
  <2>2. PICK j \in 1..n : valid[j] = u /\ runnerAcceptRejects'[u] = next[j]
    BY <1>12
  <2>3. i = j
    BY <1>4, <1>6, <1>16, <2>1, <2>2
  <2> QED  BY <2>1, <2>2, <2>3
<1>17. A \in SUBSET Ids /\ Accepts(A, offers, requests)
  BY <1>9, <1>13, <1>14, <1>15, <1>16 DEF Accepts, A
<1>18. runnerAcceptRejects' \in [Ids -> Requests \cup {NoRequest}]
  <2>1. runnerAcceptRejects \in [Ids -> Requests \cup {NoRequest}]
    BY DEF BrokerTypeOK
  <2>2. runnerAcceptRejects' = [id \in Ids |-> runnerAcceptRejects'[id]]
    BY <1>2
  <2>3. \A id \in Ids : runnerAcceptRejects'[id] \in Requests \cup {NoRequest}
    BY <1>13, <1>15, <2>1
  <2> QED  BY <2>2, <2>3
<1>19. ASSUME NEW r \in Runners
       PROVE  /\ toRunner'[r] \in Seq(ToRunner)
              /\ msgs(r) \in Seq(ToRunner)
              /\ Sends(r, msgs(r))
              /\ \A m \in Range(msgs(r)) : m.type = "offeraccept" /\ runnerOf(m.id) = r
  <2>1. P(r) \in SUBSET (1..Len(valid))
    BY <1>6
  <2>2. /\ accepted(r) \in Seq(Ids)
        /\ \A x \in Range(accepted(r)) : \E i \in P(r) : x = valid[i]
    BY <1>1, <2>1, FilterRange
  <2>3. \A x \in Range(accepted(r)) : runnerOf(x) = r
    BY <2>2
  <2> DEFINE a == accepted(r)
  <2> HIDE DEF accepted
  <2>4. Len(a) \in Nat /\ \A i \in 1..Len(a) : a[i] \in Ids /\ a[i] \in Range(a)
    BY <2>2, LenProperties, ElementOfSeq, InRange
  <2>5. \A i \in 1..Len(a) : [type |-> "offeraccept", id |-> a[i]] \in ToRunner
    BY <2>4 DEF ToRunner
  <2>6. msgs(r) \in [1..Len(a) -> ToRunner]
    BY <2>5
  <2>7. msgs(r) \in Seq(ToRunner)
    BY <2>4, <2>6, SeqDef
  <2>8. \A m \in Range(msgs(r)) : m.type = "offeraccept" /\ runnerOf(m.id) = r
    BY <2>3, <2>4 DEF Range
  <2>9. toRunner'[r] = withMessages(r, msgs(r))
    BY <1>2
  <2> HIDE DEF msgs
  <2>10. Sends(r, msgs(r))
    BY <2>9 DEF Sends, withMessages
  <2>11. toRunner[r] \in Seq(ToRunner)
    BY DEF BrokerTypeOK
  <2>12. toRunner[r] \o msgs(r) \in Seq(ToRunner)
    BY <2>7, <2>11, ConcatProperties
  <2> QED  BY <2>7, <2>8, <2>10, <2>11, <2>12 DEF Sends
<1>20. toRunner' \in [Runners -> Seq(ToRunner)]
  <2>1. toRunner' = [r \in Runners |-> toRunner'[r]]
    BY <1>2
  <2> HIDE DEF msgs
  <2> QED  BY <1>19, <2>1
<1>21. \A r \in Runners : \E ms \in Seq(ToRunner) :
          /\ Sends(r, ms)
          /\ \A m \in Range(ms) : m.type = "offeraccept" /\ runnerOf(m.id) = r
  <2> HIDE DEF msgs
  <2> QED  BY <1>19
<1> QED
  BY <1>2, <1>7, <1>8, <1>9, <1>10, <1>11, <1>17, <1>18, <1>20, <1>21

-----------------------------------------------------------------------------
(* What a step may do to the sockets                                       *)

\* Offers are sent for free ids, other messages are about the runner itself.
ToBrokerStep ==
    /\ toBroker' \in [Runners -> Seq(ToBroker)]
    /\ \A x \in Runners : \A m \in Range(toBroker'[x]) :
          \/ m \in Range(toBroker[x])
          \/ runnerOf(m.id) = x /\ (m.type = "offer" => m.id \in free)
    /\ \A x \in Runners : Once(toBroker[x], Offers) => Once(toBroker'[x], Offers)

\* Settings are sent for a task whose accept is in progress: those of the
\* request it was accepted for, which is awaited from then on.
forAccept(m) ==
    /\ accepting(m.id)
    /\ m.request = runnerAcceptRejects[m.id]
    /\ request'[m.request] = "awaiting"

ToRunnerStep ==
    /\ toRunner' \in [Runners -> Seq(ToRunner)]
    /\ \A x \in Runners : \A m \in Range(toRunner'[x]) :
          \/ m \in Range(toRunner[x])
          \/ m.type = "registered"
          \/ runnerOf(m.id) = x /\ (m.type = "settings" => forAccept(m))
    /\ \A x \in Runners :
          /\ Once(toRunner[x], Settings)
          /\ \A m \in Range(toRunner[x]) : m \in Settings => ~accepting(m.id)
          => Once(toRunner'[x], Settings)

\* The messages of the two channels are records of these forms.
LEMMA MessageTypes ==
    /\ \A m \in ToBroker : /\ m.id \in Ids
                           /\ m = [type |-> m.type, id |-> m.id]
                           /\ m \in Offers <=> m.type = "offer"
    /\ \A m \in ToRunner : /\ m.type # "registered" => m.id \in Ids
                           /\ m \in Settings <=> m.type = "settings"
                           /\ m.type = "settings" => m.request \in Requests
  BY DEF ToBroker, ToRunner, Offers, Settings

\* The broker handles a message.
LEMMA Heard ==
    ASSUME BrokerTypes, NEW r \in Runners, NEW type, hears(r, type), heard(r)
    PROVE  LET m == Head(toBroker[r])
           IN  /\ m \in ToBroker /\ m.type = type /\ m.id \in Ids
               /\ m = [type |-> type, id |-> m.id]
               /\ runnerOf(m.id) = r
               /\ m \in Range(toBroker[r])
               /\ r \in knownRunners
               /\ ToBrokerStep
               /\ \A x \in Runners : Range(toBroker'[x]) \subseteq Range(toBroker[x])
               /\ Once(toBroker[r], Offers) /\ type = "offer" => m \notin Range(toBroker'[r])
<1> DEFINE m == Head(toBroker[r])
<1>1. /\ toBroker \in [Runners -> Seq(ToBroker)]
      /\ toBroker[r] \in Seq(ToBroker) /\ toBroker[r] # <<>>
      /\ toBroker' = [toBroker EXCEPT ![r] = Tail(toBroker[r])]
      /\ m.type = type
      /\ r \in knownRunners
  BY DEF BrokerTypes, BrokerTypeOK, hears, heard
<1>2. /\ Tail(toBroker[r]) \in Seq(ToBroker)
      /\ Range(Tail(toBroker[r])) \subseteq Range(toBroker[r])
      /\ m \in Range(toBroker[r])
      /\ m \in ToBroker
  BY <1>1, RangeTail
<1>3. runnerOf(m.id) = r
  BY <1>2 DEF BrokerTypes, OwnMessages
<1>4. /\ toBroker' \in [Runners -> Seq(ToBroker)]
      /\ toBroker'[r] = Tail(toBroker[r])
      /\ \A x \in Runners \ {r} : toBroker'[x] = toBroker[x]
  BY <1>1, <1>2
<1>5. \A x \in Runners : Range(toBroker'[x]) \subseteq Range(toBroker[x])
  BY <1>2, <1>4
<1>6. Once(toBroker[r], Offers) =>
         /\ Once(toBroker'[r], Offers)
         /\ m \in Offers => \A n \in Range(toBroker'[r]) : n \in Offers => n.id # m.id
  BY <1>1, <1>4, OnceTail
<1>7. ToBrokerStep
  BY <1>4, <1>5, <1>6 DEF ToBrokerStep
<1> HIDE DEF m
<1> QED  BY <1>1, <1>2, <1>3, <1>5, <1>6, <1>7, MessageTypes DEF m

\* A runner handles a message.
LEMMA Received ==
    ASSUME BrokerTypes, NEW r \in Runners, NEW type, receives(r, type), consume(r)
    PROVE  LET m == Head(toRunner[r])
           IN  /\ m \in ToRunner /\ m.type = type
               /\ type # "registered" => m.id \in Ids /\ runnerOf(m.id) = r
               /\ m \in Range(toRunner[r])
               /\ ToRunnerStep
               /\ \A x \in Runners : Range(toRunner'[x]) \subseteq Range(toRunner[x])
               /\ Once(toRunner[r], Settings) /\ type = "settings" =>
                     \A n \in Range(toRunner'[r]) : n \in Settings => n.id # m.id
<1> DEFINE m == Head(toRunner[r])
<1>1. /\ toRunner \in [Runners -> Seq(ToRunner)]
      /\ toRunner[r] \in Seq(ToRunner) /\ toRunner[r] # <<>>
      /\ toRunner' = [toRunner EXCEPT ![r] = Tail(toRunner[r])]
      /\ m.type = type
  BY DEF BrokerTypes, BrokerTypeOK, receives, consume
<1>2. /\ Tail(toRunner[r]) \in Seq(ToRunner)
      /\ Range(Tail(toRunner[r])) \subseteq Range(toRunner[r])
      /\ m \in Range(toRunner[r])
      /\ m \in ToRunner
  BY <1>1, RangeTail
<1>3. type # "registered" => runnerOf(m.id) = r
  BY <1>1, <1>2 DEF BrokerTypes, OwnMessages
<1>4. /\ toRunner' \in [Runners -> Seq(ToRunner)]
      /\ toRunner'[r] = Tail(toRunner[r])
      /\ \A x \in Runners \ {r} : toRunner'[x] = toRunner[x]
  BY <1>1, <1>2
<1>5. \A x \in Runners : Range(toRunner'[x]) \subseteq Range(toRunner[x])
  BY <1>2, <1>4
<1>6. Once(toRunner[r], Settings) =>
         /\ Once(toRunner'[r], Settings)
         /\ m \in Settings => \A n \in Range(toRunner'[r]) : n \in Settings => n.id # m.id
  BY <1>1, <1>4, OnceTail
<1>7. ToRunnerStep
  BY <1>4, <1>5, <1>6 DEF ToRunnerStep
<1> HIDE DEF m
<1> QED  BY <1>1, <1>2, <1>3, <1>5, <1>6, <1>7, MessageTypes DEF m

\* A channel nobody touches.
LEMMA SameToBroker ==
    ASSUME BrokerTypes, UNCHANGED toBroker
    PROVE  ToBrokerStep
  BY DEF BrokerTypes, BrokerTypeOK, ToBrokerStep

LEMMA SameToRunner ==
    ASSUME BrokerTypes, UNCHANGED toRunner
    PROVE  ToRunnerStep
  BY DEF BrokerTypes, BrokerTypeOK, ToRunnerStep

\* A channel that is lost.
LEMMA LostToBroker ==
    ASSUME BrokerTypes, NEW r \in Runners, toBroker' = [toBroker EXCEPT ![r] = <<>>]
    PROVE  ToBrokerStep /\ Range(toBroker'[r]) = {}
<1>1. <<>> \in Seq(ToBroker) /\ Len(<<>>) = 0 /\ Range(<<>>) = {}
  <2>1. <<>> \in Seq(ToBroker) /\ Len(<<>>) = 0
    BY EmptySeq
  <2>2. DOMAIN <<>> = 1..0
    BY <2>1, LenProperties
  <2> QED  BY <2>1, <2>2 DEF Range
<1>2. /\ toBroker' \in [Runners -> Seq(ToBroker)]
      /\ toBroker'[r] = <<>>
      /\ \A x \in Runners \ {r} : toBroker'[x] = toBroker[x]
  BY <1>1 DEF BrokerTypes, BrokerTypeOK
<1>3. Once(<<>>, Offers)
  BY <1>1 DEF Once
<1> QED  BY <1>1, <1>2, <1>3 DEF ToBrokerStep

LEMMA LostToRunner ==
    ASSUME BrokerTypes, NEW r \in Runners, toRunner' = [toRunner EXCEPT ![r] = <<>>]
    PROVE  ToRunnerStep /\ \A x \in Runners : Range(toRunner'[x]) \subseteq Range(toRunner[x])
<1>1. <<>> \in Seq(ToRunner) /\ Len(<<>>) = 0 /\ Range(<<>>) = {}
  <2>1. <<>> \in Seq(ToRunner) /\ Len(<<>>) = 0
    BY EmptySeq
  <2>2. DOMAIN <<>> = 1..0
    BY <2>1, LenProperties
  <2> QED  BY <2>1, <2>2 DEF Range
<1>2. /\ toRunner' \in [Runners -> Seq(ToRunner)]
      /\ toRunner'[r] = <<>>
      /\ \A x \in Runners \ {r} : toRunner'[x] = toRunner[x]
  BY <1>1 DEF BrokerTypes, BrokerTypeOK
<1>3. Once(<<>>, Settings)
  BY <1>1 DEF Once
<1>4. \A x \in Runners : Range(toRunner'[x]) \subseteq Range(toRunner[x])
  BY <1>1, <1>2
<1> QED  BY <1>1, <1>2, <1>3, <1>4 DEF ToRunnerStep

\* A runner answers.
LEMMA Answered ==
    ASSUME BrokerTypes, NEW r \in Runners, NEW e \in ToBroker,
           e.type # "offer", runnerOf(e.id) = r,
           toBroker' = [toBroker EXCEPT ![r] = Append(@, e)]
    PROVE  ToBrokerStep
<1>1. toBroker \in [Runners -> Seq(ToBroker)] /\ toBroker[r] \in Seq(ToBroker)
  BY DEF BrokerTypes, BrokerTypeOK
<1>2. /\ Append(toBroker[r], e) \in Seq(ToBroker)
      /\ Range(Append(toBroker[r], e)) = Range(toBroker[r]) \cup {e}
  BY <1>1, RangeAppend
<1>3. /\ toBroker' \in [Runners -> Seq(ToBroker)]
      /\ toBroker'[r] = Append(toBroker[r], e)
      /\ \A x \in Runners \ {r} : toBroker'[x] = toBroker[x]
  BY <1>1, <1>2
<1>4. e \notin Offers
  BY DEF Offers
<1>5. Once(toBroker[r], Offers) => Once(toBroker'[r], Offers)
  BY <1>1, <1>3, <1>4, OnceAppend
<1> QED  BY <1>2, <1>3, <1>5 DEF ToBrokerStep

\* The broker sends a message to one runner.
LEMMA Messaged ==
    ASSUME BrokerTypes, NEW r \in Runners, NEW e \in ToRunner, messageRunner(r, e),
           e.type # "registered", runnerOf(e.id) = r,
           e.type = "settings" => forAccept(e)
    PROVE  /\ ToRunnerStep
           /\ \A x \in Runners : Range(toRunner'[x]) \subseteq
                 Range(toRunner[x]) \cup (IF x = r THEN {e} ELSE {})
<1>1. toRunner \in [Runners -> Seq(ToRunner)] /\ toRunner[r] \in Seq(ToRunner)
  BY DEF BrokerTypes, BrokerTypeOK
<1>2. /\ Append(toRunner[r], e) \in Seq(ToRunner)
      /\ Range(Append(toRunner[r], e)) = Range(toRunner[r]) \cup {e}
      /\ Append(toRunner[r], e) = toRunner[r] \o <<e>>
  BY <1>1, RangeAppend, AppendIsConcat
<1>3. /\ toRunner' \in [Runners -> Seq(ToRunner)]
      /\ toRunner'[r] = toRunner[r] \/ toRunner'[r] = Append(toRunner[r], e)
      /\ \A x \in Runners \ {r} : toRunner'[x] = toRunner[x]
  BY <1>1, <1>2 DEF messageRunner, withMessages
<1>4. ASSUME Once(toRunner[r], Settings),
             \A m \in Range(toRunner[r]) : m \in Settings => ~accepting(m.id)
      PROVE  Once(toRunner'[r], Settings)
  <2>1. e \in Settings => \A m \in Range(toRunner[r]) : m \in Settings => m.id # e.id
    BY <1>4 DEF Settings, forAccept
  <2>2. Once(Append(toRunner[r], e), Settings)
    BY <1>1, <1>4, <2>1, OnceAppend
  <2> QED  BY <1>3, <1>4, <2>2
<1>5. \A x \in Runners : Range(toRunner'[x]) \subseteq
         Range(toRunner[x]) \cup (IF x = r THEN {e} ELSE {})
  BY <1>2, <1>3
<1> QED  BY <1>3, <1>4, <1>5 DEF ToRunnerStep

\* settleTasks tells runners which offers it accepts.
LEMMA Settled ==
    ASSUME BrokerTypes, NEW offers \in Seq(Ids), NEW requests \in Seq(Requests),
           settleTasks(offers, requests)
    PROVE  ToRunnerStep /\ \A x \in Runners : \A m \in Range(toRunner'[x]) :
                              m \in Range(toRunner[x]) \/ m.type = "offeraccept"
<1>1. /\ toRunner' \in [Runners -> Seq(ToRunner)]
      /\ \A r \in Runners : \E ms \in Seq(ToRunner) :
            /\ Sends(r, ms)
            /\ \A m \in Range(ms) : m.type = "offeraccept" /\ runnerOf(m.id) = r
  BY SettleTasks DEF BrokerTypes
<1>2. ASSUME NEW x \in Runners
      PROVE  /\ \A m \in Range(toRunner'[x]) :
                   \/ m \in Range(toRunner[x])
                   \/ m.type = "offeraccept" /\ runnerOf(m.id) = x
             /\ Once(toRunner[x], Settings) => Once(toRunner'[x], Settings)
  <2>1. PICK ms \in Seq(ToRunner) :
           /\ Sends(x, ms)
           /\ \A m \in Range(ms) : m.type = "offeraccept" /\ runnerOf(m.id) = x
    BY <1>1
  <2>2. toRunner[x] \in Seq(ToRunner)
    BY DEF BrokerTypes, BrokerTypeOK
  <2>3. Range(toRunner[x] \o ms) = Range(toRunner[x]) \cup Range(ms)
    BY <2>2, RangeConcat
  <2>4. \A m \in Range(ms) : m \notin Settings
    BY <2>1 DEF Settings
  <2>5. Once(ms, Settings)
    BY <2>4, InRange DEF Once
  <2>6. Once(toRunner[x], Settings) => Once(toRunner[x] \o ms, Settings)
    BY <2>2, <2>4, <2>5, OnceConcat
  <2> QED  BY <2>1, <2>3, <2>6 DEF Sends
<1> QED  BY <1>1, <1>2 DEF ToRunnerStep

\* sendOffers: the runner's expired offers are dropped, what the handler sent
\* goes first, and the new offers are for free ids.
LEMMA SendOffers ==
    ASSUME BrokerTypes, NEW r \in Runners, NEW running, NEW sent \in Seq(ToBroker),
           \A m \in Range(sent) : m.type # "offer" /\ runnerOf(m.id) = r,
           Fits(openOffers, running),
           sendOffers(r, free, openOffers, running, sent)
    PROVE  /\ ToBrokerStep
           /\ openOffers' \subseteq Ids
           /\ outdated' \subseteq openOffers'
           /\ outdated' \subseteq outdated
<1> DEFINE kept == openOffers \ ofRunner(r, outdated)
           n == maxConcurrency - (Cardinality(ofRunner(r, kept)) +
                                  Cardinality(ofRunner(r, running)))
<1>1. /\ openOffers \subseteq Ids
      /\ outdated \subseteq openOffers
      /\ toBroker \in [Runners -> Seq(ToBroker)]
      /\ toBroker[r] \in Seq(ToBroker)
  BY DEF BrokerTypes, BrokerTypeOK
<1>2. outdated' = outdated \ ofRunner(r, outdated)
  BY DEF sendOffers
<1>3. /\ toBroker[r] \o sent \in Seq(ToBroker)
      /\ Range(toBroker[r] \o sent) = Range(toBroker[r]) \cup Range(sent)
  BY <1>1, RangeConcat
<1>4. Once(toBroker[r], Offers) => Once(toBroker[r] \o sent, Offers)
  <2>1. \A m \in Range(sent) : m \notin Offers
    BY DEF Offers
  <2>2. Once(sent, Offers)
    BY <2>1, InRange DEF Once
  <2> QED  BY <1>1, <2>1, <2>2, OnceConcat
<1>5. CASE ~canSendOffers[r]
  <2>1. /\ openOffers' = kept
        /\ toBroker' = [toBroker EXCEPT ![r] = toBroker[r] \o sent]
    BY <1>5 DEF sendOffers
  <2>2. ToBrokerStep
    BY <1>1, <1>3, <1>4, <2>1 DEF ToBrokerStep
  <2> QED  BY <1>1, <1>2, <2>1, <2>2
<1>6. CASE canSendOffers[r]
  <2>1. PICK ids \in drawIds(r, free, n) :
           /\ openOffers' = kept \cup Range(ids)
           /\ toBroker' = [toBroker EXCEPT ![r] = toBroker[r] \o sent \o
                 [i \in 1..n |-> [type |-> "offer", id |-> ids[i]]]]
    BY <1>6 DEF sendOffers
  <2>2. n \in Nat
    <3>1. Fits(kept, running)
      BY FewerFit
    <3>2. /\ Cardinality(ofRunner(r, kept)) \in Nat
          /\ Cardinality(ofRunner(r, running)) \in Nat
      BY <3>1, OfRunnerSize DEF Fits
    <3>3. Cardinality(ofRunner(r, kept)) + Cardinality(ofRunner(r, running))
             <= maxConcurrency
      BY <3>1 DEF Fits
    <3> QED  BY <3>2, <3>3, TaskRunnerAssumption
  <2> HIDE DEF n
  <2> DEFINE new == [i \in 1..n |-> [type |-> "offer", id |-> ids[i]]]
  <2>3. /\ ids \in [1..n -> ofRunner(r, free)]
        /\ \A i, j \in 1..n : i < j => ids[i][2] < ids[j][2]
    BY <2>1 DEF drawIds
  <2>4. \A i \in 1..n : ids[i] \in Ids /\ ids[i] \in free /\ runnerOf(ids[i]) = r
    BY <2>3, FreeIds DEF ofRunner
  <2>5. new \in [1..n -> ToBroker]
    BY <2>4 DEF ToBroker
  <2>6. new \in Seq(ToBroker)
    BY <2>2, <2>5, SeqDef
  <2>7. DOMAIN new = 1..n /\ Len(new) = n
    <3>1. DOMAIN new = 1..n
      OBVIOUS
    <3>2. Len(new) \in Nat /\ DOMAIN new = 1..Len(new)
      BY <2>6, LenProperties
    <3> HIDE DEF new
    <3> QED  BY <2>2, <3>1, <3>2
  <2>8. \A m \in Range(new) : m.type = "offer" /\ m.id \in free /\ runnerOf(m.id) = r
    BY <2>4 DEF Range
  <2>9. Once(new, Offers)
    <3> SUFFICES ASSUME NEW i \in 1..n, NEW j \in 1..n, new[i].id = new[j].id
                 PROVE  i = j
      BY <2>7 DEF Once
    <3>1. ids[i] = ids[j]
      OBVIOUS
    <3>2. \A k \in 1..n : ids[k][2] \in Int
      BY <2>4 DEF Ids
    <3>3. ~(i < j) /\ ~(j < i)
      BY <2>3, <3>1, <3>2
    <3> QED  BY <3>3
  <2> HIDE DEF new
  <2>10. \A m \in Range(toBroker[r] \o sent) : \A k \in Range(new) :
            m \in Offers /\ k \in Offers => m.id # k.id
    <3> SUFFICES ASSUME NEW m \in Range(toBroker[r] \o sent), NEW k \in Range(new),
                        m \in Offers, m.id = k.id
                 PROVE  FALSE
      OBVIOUS
    <3>1. m \in Range(toBroker[r])
      BY <1>3 DEF Offers
    <3>2. k.id \in free /\ runnerOf(k.id) = r
      BY <2>8
    <3> QED  BY <3>1, <3>2 DEF free
  <2>11. /\ (toBroker[r] \o sent) \o new \in Seq(ToBroker)
         /\ Range((toBroker[r] \o sent) \o new)
              = Range(toBroker[r]) \cup Range(sent) \cup Range(new)
    <3> DEFINE old == toBroker[r] \o sent
    <3>1. old \in Seq(ToBroker)
      BY <1>3
    <3> HIDE DEF old
    <3>2. old \o new \in Seq(ToBroker) /\ Range(old \o new) = Range(old) \cup Range(new)
      BY <2>6, <3>1, RangeConcat
    <3> QED  BY <1>3, <3>2 DEF old
  <2>12. Once(toBroker[r], Offers) => Once((toBroker[r] \o sent) \o new, Offers)
    BY <1>3, <1>4, <2>6, <2>9, <2>10, OnceConcat
  <2>13. /\ toBroker' \in [Runners -> Seq(ToBroker)]
         /\ toBroker'[r] = (toBroker[r] \o sent) \o new
         /\ \A x \in Runners \ {r} : toBroker'[x] = toBroker[x]
    BY <1>1, <2>1, <2>11 DEF new
  <2>14. ToBrokerStep
    BY <2>8, <2>11, <2>12, <2>13 DEF ToBrokerStep
  <2>15. Range(ids) \subseteq Ids
    BY <2>3, <2>4 DEF Range
  <2> QED  BY <1>1, <1>2, <2>1, <2>14, <2>15
<1> QED  BY <1>5, <1>6

\* finishTask: the task is gone, and its slot is offered again.
LEMMA FinishTask ==
    ASSUME BrokerTypes, CapacityInv, NEW t \in Ids, NEW sent \in Seq(ToBroker),
           \A m \in Range(sent) : m.type # "offer" /\ runnerOf(m.id) = runnerOf(t),
           finishTask(t, free, sent)
    PROVE  /\ ToBrokerStep
           /\ openOffers' \subseteq Ids
           /\ outdated' \subseteq openOffers'
           /\ outdated' \subseteq outdated
           /\ taskStatus' = [taskStatus EXCEPT ![t] = "none"]
           /\ settings' = [settings EXCEPT ![t] = NoRequest]
<1>1. runnerOf(t) \in Runners
  BY DEF Ids, runnerOf
<1>2. Fits(openOffers, runningTasks \ {t})
  BY CapacityInvFits, FewerFit
<1> QED  BY <1>1, <1>2, SendOffers DEF finishTask

-----------------------------------------------------------------------------
(* The first layer: types and addressing                                   *)

RunnerTypes ==
    /\ process \in [Runners -> {"new", "up", "stopping", "gone"}]
    /\ canSendOffers \in [Runners -> BOOLEAN]
    /\ openOffers \subseteq Ids
    /\ outdated \subseteq openOffers
    /\ taskStatus \in [Ids -> TaskStatuses \cup {"none"}]
    /\ settings \in [Ids -> Requests \cup {NoRequest}]
    /\ LaunchersStayValid

TaskTypes == [request: Requests, timeout: BOOLEAN] \cup {NoTask}

BrokerVarTypes ==
    /\ knownRunners \subseteq Runners
    /\ pendingTaskOffers \in Seq(Ids)
    /\ expired \subseteq Ids
    /\ pendingTaskRequests \in Seq(Requests)
    /\ acceptInProgress \in [Requests -> BOOLEAN]
    /\ runnerAcceptRejects \in [Ids -> Requests \cup {NoRequest}]
    /\ tasks \in [Ids -> TaskTypes]
    /\ request \in [Requests -> {"idle", "requested", "awaiting", "ok", "error"}]
    /\ taskAcceptRejects \in [Ids -> Requests \cup {NoRequest}]
    /\ delays \in 0..MaxDelays

\* What every step of the system establishes.
StepTypes ==
    /\ RunnerTypes'
    /\ BrokerVarTypes'
    /\ ToBrokerStep
    /\ ToRunnerStep

LEMMA TypesParts ==
    BrokerTypes <=> /\ RunnerTypes
                    /\ BrokerVarTypes
                    /\ toBroker \in [Runners -> Seq(ToBroker)]
                    /\ toRunner \in [Runners -> Seq(ToRunner)]
                    /\ OwnMessages
  BY DEF BrokerTypes, BrokerTypeOK, RunnerTypes, BrokerVarTypes, TaskTypes

LEMMA StepTypesSuffice ==
    ASSUME BrokerTypes, StepTypes
    PROVE  BrokerTypes'
<1>1. OwnMessages'
  BY DEF StepTypes, ToBrokerStep, ToRunnerStep, OwnMessages, BrokerTypes
<1>2. /\ RunnerTypes' /\ BrokerVarTypes'
      /\ toBroker' \in [Runners -> Seq(ToBroker)]
      /\ toRunner' \in [Runners -> Seq(ToRunner)]
  BY DEF StepTypes, ToBrokerStep, ToRunnerStep
<1> QED
  BY <1>1, <1>2 DEF BrokerTypes, BrokerTypeOK, RunnerTypes, BrokerVarTypes, TaskTypes

\* Variables nobody touches keep their types.
LEMMA SameRunnerVars ==
    ASSUME BrokerTypes, UNCHANGED runnerVars
    PROVE  RunnerTypes'
  BY TypesParts DEF runnerVars, RunnerTypes, LaunchersStayValid

LEMMA SameBrokerVars ==
    ASSUME BrokerTypes, UNCHANGED <<brokerVars, requesterVars, delays>>
    PROVE  BrokerVarTypes'
  BY TypesParts DEF brokerVars, requesterVars, BrokerVarTypes

\* settleTasks keeps the types of what it changes.
LEMMA SettleTypes ==
    ASSUME BrokerTypes, NEW offers \in Seq(Ids), NEW requests \in Seq(Requests),
           settleTasks(offers, requests),
           request' \in [Requests -> {"idle", "requested", "awaiting", "ok", "error"}],
           UNCHANGED <<knownRunners, tasks, taskAcceptRejects, delays>>
    PROVE  BrokerVarTypes'
<1>1. /\ expired' = {}
      /\ pendingTaskOffers' \in Seq(Ids)
      /\ pendingTaskRequests' = requests
      /\ acceptInProgress' \in [Requests -> BOOLEAN]
      /\ runnerAcceptRejects' \in [Ids -> Requests \cup {NoRequest}]
  BY SettleTasks DEF BrokerTypes
<1>2. BrokerVarTypes
  BY TypesParts
<1> QED  BY <1>1, <1>2 DEF BrokerVarTypes

\* So do settleRequests and acceptRejected.
LEMMA SettleRequestsTypes ==
    ASSUME BrokerTypes, NEW T, NEW result \in {"ok", "error"}, settleRequests(T, result)
    PROVE  /\ tasks' \in [Ids -> TaskTypes]
           /\ request' \in [Requests -> {"idle", "requested", "awaiting", "ok", "error"}]
           /\ taskAcceptRejects' \in [Ids -> Requests \cup {NoRequest}]
<1>1. BrokerVarTypes
  BY TypesParts
<1>2. tasks' \in [Ids -> TaskTypes]
  BY <1>1 DEF BrokerVarTypes, settleRequests, TaskTypes
<1>3. request' \in [Requests -> {"idle", "requested", "awaiting", "ok", "error"}]
  BY <1>1 DEF BrokerVarTypes, settleRequests
<1>4. taskAcceptRejects' \in [Ids -> Requests \cup {NoRequest}]
  BY <1>1 DEF BrokerVarTypes, settleRequests
<1> QED  BY <1>2, <1>3, <1>4

LEMMA AcceptRejectedTypes ==
    ASSUME BrokerTypes, NEW t \in Ids, acceptRejected(t)
    PROVE  /\ runnerAcceptRejects' \in [Ids -> Requests \cup {NoRequest}]
           /\ acceptInProgress' \in [Requests -> BOOLEAN]
<1>1. BrokerVarTypes
  BY TypesParts
<1>2. runnerAcceptRejects' \in [Ids -> Requests \cup {NoRequest}]
  BY <1>1 DEF BrokerVarTypes, acceptRejected
<1>3. acceptInProgress' \in [Requests -> BOOLEAN]
  BY DEF acceptRejected
<1> QED  BY <1>2, <1>3

\* taskRequested and taskOffered.
LEMMA TaskRequestedTypes ==
    ASSUME BrokerTypes, NEW q \in Requests, taskRequested(q)
    PROVE  StepTypes
<1>0. BrokerVarTypes
  BY TypesParts
<1>1. /\ Append(pendingTaskRequests, q) \in Seq(Requests)
      /\ pendingTaskOffers \in Seq(Ids)
  BY <1>0, RangeAppend DEF BrokerVarTypes
<1>2. settleTasks(pendingTaskOffers, Append(pendingTaskRequests, q))
  BY DEF taskRequested
<1>3. request' \in [Requests -> {"idle", "requested", "awaiting", "ok", "error"}]
  BY <1>0 DEF BrokerVarTypes, taskRequested
<1>4. /\ UNCHANGED runnerVars /\ UNCHANGED toBroker
      /\ UNCHANGED <<knownRunners, tasks, taskAcceptRejects, delays>>
  BY DEF taskRequested
<1>5. BrokerVarTypes'
  BY <1>1, <1>2, <1>3, <1>4, SettleTypes
<1> QED  BY <1>1, <1>2, <1>4, <1>5, Settled, SameToBroker, SameRunnerVars DEF StepTypes

LEMMA TaskOfferedTypes ==
    ASSUME BrokerTypes, NEW r \in Runners, taskOffered(r)
    PROVE  StepTypes
<1> DEFINE id == Head(toBroker[r]).id
<1>0. BrokerVarTypes
  BY TypesParts
<1>1. id \in Ids /\ ToBrokerStep
  BY Heard DEF taskOffered
<1>2. /\ Append(pendingTaskOffers, id) \in Seq(Ids)
      /\ pendingTaskRequests \in Seq(Requests)
  BY <1>0, <1>1, RangeAppend DEF BrokerVarTypes
<1>3. settleTasks(Append(pendingTaskOffers, id), pendingTaskRequests)
  BY DEF taskOffered
<1>4. /\ UNCHANGED runnerVars
      /\ request' \in [Requests -> {"idle", "requested", "awaiting", "ok", "error"}]
      /\ UNCHANGED <<knownRunners, tasks, taskAcceptRejects, delays>>
  BY <1>0 DEF taskOffered, requesterVars, BrokerVarTypes
<1> HIDE DEF id
<1>5. BrokerVarTypes'
  BY <1>2, <1>3, <1>4, SettleTypes
<1> QED  BY <1>1, <1>2, <1>3, <1>4, <1>5, Settled, SameRunnerVars DEF StepTypes

\* What handleRunnerAccept does when the promise is pending.
HandlesAccept(r, t, q) ==
    LET isPending == q \in Range(pendingTaskRequests)
        ready == isPending /\ request[q] = "requested"
    IN  /\ runnerAcceptRejects' = [runnerAcceptRejects EXCEPT ![t] = NoRequest]
        /\ pendingTaskRequests' = RemoveFirst(pendingTaskRequests, q)
        /\ tasks' = IF isPending /\ ~ready THEN tasks
                    ELSE [tasks EXCEPT ![t] = [request |-> q, timeout |-> ready]]
        /\ request' = IF ready THEN [request EXCEPT ![q] = "awaiting"] ELSE request
        /\ taskAcceptRejects' = IF ready THEN [taskAcceptRejects EXCEPT ![t] = q]
                                         ELSE taskAcceptRejects
        /\ ready => messageRunner(r, [type |-> "settings", id |-> t, request |-> q])
        /\ isPending /\ ~ready => messageRunner(r, [type |-> "cancel", id |-> t])
        /\ ~isPending => UNCHANGED toRunner
        /\ UNCHANGED <<knownRunners, pendingTaskOffers, expired, acceptInProgress>>

LEMMA AcceptCases ==
    ASSUME NEW r, handleRunnerAccept(r)
    PROVE  LET t == Head(toBroker[r]).id
               q == runnerAcceptRejects[t]
           IN  /\ q = NoRequest => UNCHANGED <<brokerVars, requesterVars, toRunner>>
               /\ q # NoRequest => HandlesAccept(r, t, q)
<1> DEFINE t == Head(toBroker[r]).id
           q == runnerAcceptRejects[t]
           isPending == q \in Range(pendingTaskRequests)
           ready == isPending /\ request[q] = "requested"
<1>1. CASE q = NoRequest
  BY <1>1 DEF handleRunnerAccept
<1>2. CASE q # NoRequest
  <2>1. CASE ready
    <3>1. ~(isPending /\ ~ready) /\ isPending
      BY <2>1
    <3> QED  BY <1>2, <2>1, <3>1 DEF handleRunnerAccept, HandlesAccept
  <2>2. CASE isPending /\ ~ready
    BY <1>2, <2>2 DEF handleRunnerAccept, HandlesAccept
  <2>3. CASE ~isPending
    BY <1>2, <2>3 DEF handleRunnerAccept, HandlesAccept
  <2> QED  BY <2>1, <2>2, <2>3
<1> QED  BY <1>1, <1>2

LEMMA HandleRunnerAcceptTypes ==
    ASSUME BrokerTypes, NEW r \in Runners, handleRunnerAccept(r)
    PROVE  StepTypes
<1> DEFINE t == Head(toBroker[r]).id
           q == runnerAcceptRejects[t]
<1>0. BrokerVarTypes
  BY TypesParts
<1>1. t \in Ids /\ runnerOf(t) = r /\ ToBrokerStep
  BY Heard DEF handleRunnerAccept
<1>2. UNCHANGED <<runnerVars, delays>>
  BY DEF handleRunnerAccept
<1>3. /\ q = NoRequest => UNCHANGED <<brokerVars, requesterVars, toRunner>>
      /\ q # NoRequest => HandlesAccept(r, t, q)
  BY AcceptCases
<1> HIDE DEF t
<1>4. CASE q = NoRequest
  <2>1. UNCHANGED <<brokerVars, requesterVars, delays>> /\ UNCHANGED toRunner
    BY <1>2, <1>3, <1>4
  <2> QED  BY <1>1, <1>2, <2>1, SameRunnerVars, SameBrokerVars, SameToRunner DEF StepTypes
<1>5. CASE q # NoRequest
  <2> DEFINE ready == q \in Range(pendingTaskRequests) /\ request[q] = "requested"
  <2>1. q \in Requests /\ accepting(t)
    BY <1>0, <1>1, <1>5 DEF BrokerVarTypes, accepting
  <2>2. HandlesAccept(r, t, q)
    BY <1>3, <1>5
  <2>3. pendingTaskRequests' \in Seq(Requests)
    BY <1>0, <2>2, RangeRemoveFirst DEF BrokerVarTypes, HandlesAccept
  <2>4. tasks' \in [Ids -> TaskTypes]
    <3>1. [request |-> q, timeout |-> ready] \in TaskTypes
      BY <2>1 DEF TaskTypes
    <3>2. tasks' = tasks \/ tasks' = [tasks EXCEPT ![t] = [request |-> q, timeout |-> ready]]
      BY <2>2 DEF HandlesAccept
    <3> HIDE DEF ready, q
    <3> QED  BY <1>0, <1>1, <3>1, <3>2 DEF BrokerVarTypes
  <2>5. request' \in [Requests -> {"idle", "requested", "awaiting", "ok", "error"}]
    BY <1>0, <2>1, <2>2 DEF BrokerVarTypes, HandlesAccept
  <2>6. /\ runnerAcceptRejects' \in [Ids -> Requests \cup {NoRequest}]
        /\ taskAcceptRejects' \in [Ids -> Requests \cup {NoRequest}]
    BY <1>0, <1>1, <2>1, <2>2 DEF BrokerVarTypes, HandlesAccept
  <2>7. BrokerVarTypes'
    BY <1>0, <1>2, <2>2, <2>3, <2>4, <2>5, <2>6 DEF BrokerVarTypes, HandlesAccept
  <2>8. ToRunnerStep
    <3> DEFINE s == [type |-> "settings", id |-> t, request |-> q]
               c == [type |-> "cancel", id |-> t]
    <3>1. /\ s \in ToRunner /\ s.type = "settings" /\ s.id = t
          /\ c \in ToRunner /\ c.type = "cancel" /\ c.id = t
      BY <1>1, <2>1 DEF ToRunner
    <3>2. \/ messageRunner(r, s) /\ forAccept(s)
          \/ messageRunner(r, c)
          \/ UNCHANGED toRunner
      BY <1>0, <2>1, <2>2 DEF HandlesAccept, BrokerVarTypes, forAccept
    <3> HIDE DEF s, c
    <3> QED  BY <1>1, <3>1, <3>2, Messaged, SameToRunner
  <2> QED  BY <1>1, <1>2, <2>7, <2>8, SameRunnerVars DEF StepTypes
<1> QED  BY <1>4, <1>5

\* handleRunnerReject, handleRunnerDeferred and acceptTimeout.
LEMMA HandleRunnerRejectTypes ==
    ASSUME BrokerTypes, NEW r \in Runners, handleRunnerReject(r)
    PROVE  StepTypes
<1>0. BrokerVarTypes
  BY TypesParts
<1>1. Head(toBroker[r]).id \in Ids /\ ToBrokerStep
  BY Heard DEF handleRunnerReject
<1>2. /\ runnerAcceptRejects' \in [Ids -> Requests \cup {NoRequest}]
      /\ acceptInProgress' \in [Requests -> BOOLEAN]
  BY <1>1, AcceptRejectedTypes DEF handleRunnerReject
<1>3. /\ UNCHANGED runnerVars /\ UNCHANGED toRunner
      /\ UNCHANGED <<knownRunners, pendingTaskOffers, expired, pendingTaskRequests, tasks,
                     request, taskAcceptRejects, delays>>
  BY DEF handleRunnerReject, requesterVars
<1>4. BrokerVarTypes'
  BY <1>0, <1>2, <1>3 DEF BrokerVarTypes
<1> QED  BY <1>1, <1>3, <1>4, SameRunnerVars, SameToRunner DEF StepTypes

LEMMA HandleRunnerDeferredTypes ==
    ASSUME BrokerTypes, NEW r \in Runners, handleRunnerDeferred(r)
    PROVE  StepTypes
<1> DEFINE t == Head(toBroker[r]).id
           q == runnerAcceptRejects[t]
<1>0. BrokerVarTypes
  BY TypesParts
<1>1. t \in Ids /\ ToBrokerStep
  BY Heard DEF handleRunnerDeferred
<1>2. /\ runnerAcceptRejects' \in [Ids -> Requests \cup {NoRequest}]
      /\ acceptInProgress' \in [Requests -> BOOLEAN]
  BY <1>1, AcceptRejectedTypes DEF handleRunnerDeferred
<1>3. pendingTaskRequests' \in Seq(Requests)
  <2>1. pendingTaskRequests' = IF q = NoRequest THEN pendingTaskRequests
                                                ELSE Append(pendingTaskRequests, q)
    BY DEF handleRunnerDeferred
  <2>2. q # NoRequest => q \in Requests
    BY <1>0, <1>1 DEF BrokerVarTypes
  <2> HIDE DEF q
  <2> QED  BY <1>0, <2>1, <2>2, RangeAppend DEF BrokerVarTypes
<1>4. /\ UNCHANGED runnerVars /\ UNCHANGED toRunner
      /\ UNCHANGED <<knownRunners, pendingTaskOffers, expired, tasks,
                     request, taskAcceptRejects, delays>>
  BY DEF handleRunnerDeferred, requesterVars
<1>5. BrokerVarTypes'
  BY <1>0, <1>2, <1>3, <1>4 DEF BrokerVarTypes
<1> QED  BY <1>1, <1>4, <1>5, SameRunnerVars, SameToRunner DEF StepTypes

LEMMA AcceptTimeoutTypes ==
    ASSUME BrokerTypes, NEW t \in Ids, acceptTimeout(t)
    PROVE  StepTypes
<1>0. BrokerVarTypes
  BY TypesParts
<1>1. /\ runnerAcceptRejects' \in [Ids -> Requests \cup {NoRequest}]
      /\ acceptInProgress' \in [Requests -> BOOLEAN]
  BY AcceptRejectedTypes DEF acceptTimeout
<1>2. /\ UNCHANGED runnerVars /\ UNCHANGED toRunner /\ UNCHANGED toBroker
      /\ UNCHANGED <<knownRunners, pendingTaskOffers, expired, pendingTaskRequests, tasks,
                     request, taskAcceptRejects>>
  BY DEF acceptTimeout, requesterVars, channels
<1>3. delays' \in 0..MaxDelays
  <2>1. delays' = delays \/ (delays < MaxDelays /\ delays' = delays + 1)
    BY DEF acceptTimeout
  <2> QED  BY <1>0, <2>1, TaskBrokerAssumption DEF BrokerVarTypes
<1>4. BrokerVarTypes'
  BY <1>0, <1>1, <1>2, <1>3 DEF BrokerVarTypes
<1> QED  BY <1>2, <1>4, SameRunnerVars, SameToRunner, SameToBroker DEF StepTypes

\* Results.
LEMMA ResultTypes ==
    ASSUME BrokerTypes, NEW r \in Runners, taskDoneHandler(r) \/ taskErrorHandler(r)
    PROVE  StepTypes
<1>0. BrokerVarTypes
  BY TypesParts
<1>1. ToBrokerStep
  BY Heard DEF taskDoneHandler, taskErrorHandler
<1>2. \E result \in {"ok", "error"} : settleRequests({Head(toBroker[r]).id}, result)
  BY DEF taskDoneHandler, taskErrorHandler
<1>3. /\ tasks' \in [Ids -> TaskTypes]
      /\ request' \in [Requests -> {"idle", "requested", "awaiting", "ok", "error"}]
      /\ taskAcceptRejects' \in [Ids -> Requests \cup {NoRequest}]
  BY <1>2, SettleRequestsTypes
<1>4. /\ UNCHANGED runnerVars /\ UNCHANGED toRunner
      /\ UNCHANGED <<knownRunners, pendingTaskOffers, expired, pendingTaskRequests,
                     acceptInProgress, runnerAcceptRejects, delays>>
  BY DEF taskDoneHandler, taskErrorHandler
<1>5. BrokerVarTypes'
  BY <1>0, <1>3, <1>4 DEF BrokerVarTypes
<1> QED  BY <1>1, <1>4, <1>5, SameRunnerVars, SameToRunner DEF StepTypes

\* A runner that is gone takes its offers, its tasks and its messages along.
LEMMA GoneTypes ==
    ASSUME BrokerTypes, NEW r \in Runners, gone(r)
    PROVE  RunnerTypes' /\ ToBrokerStep /\ ToRunnerStep
<1>0. RunnerTypes
  BY TypesParts
<1>1. /\ process' \in [Runners -> {"new", "up", "stopping", "gone"}]
      /\ canSendOffers' \in [Runners -> BOOLEAN]
      /\ taskStatus' \in [Ids -> TaskStatuses \cup {"none"}]
      /\ settings' \in [Ids -> Requests \cup {NoRequest}]
  BY <1>0 DEF RunnerTypes, gone
<1>2. openOffers' \subseteq Ids /\ outdated' \subseteq openOffers' /\ outdated' \subseteq outdated
  BY <1>0 DEF RunnerTypes, gone, ofRunner
<1>3. RunnerTypes'
  BY <1>0, <1>1, <1>2 DEF RunnerTypes, LaunchersStayValid
<1>4. UNCHANGED toBroker /\ toRunner' = [toRunner EXCEPT ![r] = <<>>]
  BY DEF gone
<1> QED  BY <1>3, <1>4, SameToBroker, LostToRunner

LEMMA RunnerEndsTypes ==
    ASSUME BrokerTypes, NEW r \in Runners, RunnerCloses(r) \/ runnerGone(r)
    PROVE  StepTypes
<1>1. gone(r) /\ UNCHANGED <<brokerVars, requesterVars, delays>>
  BY DEF RunnerCloses, closeConnection, runnerGone
<1> QED  BY <1>1, GoneTypes, SameBrokerVars DEF StepTypes

LEMMA HandleTaskTimeoutTypes ==
    ASSUME BrokerTypes, NEW t \in Ids, handleTaskTimeout(t)
    PROVE  StepTypes
<1>0. BrokerVarTypes
  BY TypesParts
<1>1. /\ tasks' \in [Ids -> TaskTypes]
      /\ request' \in [Requests -> {"idle", "requested", "awaiting", "ok", "error"}]
      /\ taskAcceptRejects' \in [Ids -> Requests \cup {NoRequest}]
  BY SettleRequestsTypes DEF handleTaskTimeout
<1>2. UNCHANGED <<knownRunners, pendingTaskOffers, expired, pendingTaskRequests,
                  acceptInProgress, runnerAcceptRejects, delays>>
  BY DEF handleTaskTimeout
<1>3. BrokerVarTypes'
  BY <1>0, <1>1, <1>2 DEF BrokerVarTypes
<1>4. CASE \E r \in Runners : gone(r)
  BY <1>3, <1>4, GoneTypes DEF StepTypes
<1>5. CASE UNCHANGED <<runnerVars, channels>>
  <2>1. UNCHANGED runnerVars /\ UNCHANGED toBroker /\ UNCHANGED toRunner
    BY <1>5 DEF channels
  <2> QED  BY <1>3, <2>1, SameRunnerVars, SameToBroker, SameToRunner DEF StepTypes
<1>6. CASE /\ messageRunner(runnerOf(t), [type |-> "cancel", id |-> t])
           /\ UNCHANGED <<runnerVars, toBroker>>
  <2> DEFINE c == [type |-> "cancel", id |-> t]
  <2>1. c \in ToRunner /\ c.type = "cancel" /\ c.id = t /\ runnerOf(t) \in Runners
    BY DEF ToRunner, Ids, runnerOf
  <2>2. messageRunner(runnerOf(t), c)
    BY <1>6
  <2> HIDE DEF c
  <2>3. ToRunnerStep
    BY <2>1, <2>2, Messaged
  <2> QED  BY <1>3, <1>6, <2>3, SameRunnerVars, SameToBroker DEF StepTypes
<1> QED  BY <1>4, <1>5, <1>6 DEF handleTaskTimeout

\* Connections.
LEMMA RegisterRunnerTypes ==
    ASSUME BrokerTypes, NEW r \in Runners, registerRunner(r)
    PROVE  StepTypes
<1>0. RunnerTypes /\ BrokerVarTypes /\ toRunner \in [Runners -> Seq(ToRunner)]
  BY TypesParts
<1>1. RunnerTypes'
  BY <1>0 DEF RunnerTypes, registerRunner, LaunchersStayValid
<1>2. BrokerVarTypes'
  BY <1>0 DEF BrokerVarTypes, registerRunner, requesterVars
<1>3. UNCHANGED toBroker
  BY DEF registerRunner
<1>4. ToRunnerStep
  <2> DEFINE e == [type |-> "registered"]
  <2>1. e \in ToRunner /\ e \notin Settings
    BY DEF ToRunner, Settings
  <2>2. toRunner' = [toRunner EXCEPT ![r] = <<e>>]
    BY DEF registerRunner
  <2> HIDE DEF e
  <2>3. <<e>> \in Seq(ToRunner) /\ Len(<<e>>) = 1 /\ <<e>>[1] = e /\ Range(<<e>>) = {e}
    BY <2>1, RangeSingleton
  <2>4. Once(<<e>>, Settings)
    BY <2>1, <2>3 DEF Once
  <2>5. /\ toRunner' \in [Runners -> Seq(ToRunner)]
        /\ toRunner'[r] = <<e>>
        /\ \A x \in Runners \ {r} : toRunner'[x] = toRunner[x]
    BY <1>0, <2>2, <2>3
  <2>6. \A m \in Range(toRunner'[r]) : m.type = "registered"
    BY <2>3, <2>5 DEF e
  <2> QED  BY <2>4, <2>5, <2>6 DEF ToRunnerStep
<1> QED  BY <1>1, <1>2, <1>3, <1>4, SameToBroker DEF StepTypes

LEMMA DeregisterRunnerTypes ==
    ASSUME BrokerTypes, NEW r \in Runners, deregisterRunner(r)
    PROVE  StepTypes
<1> DEFINE P == {i \in 1..Len(pendingTaskOffers) : runnerOf(pendingTaskOffers[i]) # r}
<1>0. BrokerVarTypes
  BY TypesParts
<1>1. /\ tasks' \in [Ids -> TaskTypes]
      /\ request' \in [Requests -> {"idle", "requested", "awaiting", "ok", "error"}]
      /\ taskAcceptRejects' \in [Ids -> Requests \cup {NoRequest}]
  BY SettleRequestsTypes DEF deregisterRunner
<1>2. pendingTaskOffers' \in Seq(Ids)
  <2>1. P \in SUBSET (1..Len(pendingTaskOffers))
    OBVIOUS
  <2>2. pendingTaskOffers' = filter(pendingTaskOffers, P)
    BY DEF deregisterRunner
  <2> HIDE DEF P
  <2> QED  BY <1>0, <2>1, <2>2, FilterRange DEF BrokerVarTypes
<1>3. /\ knownRunners' = knownRunners \ {r}
      /\ expired' \subseteq expired
      /\ toBroker' = [toBroker EXCEPT ![r] = <<>>]
      /\ UNCHANGED runnerVars /\ UNCHANGED toRunner
      /\ UNCHANGED <<pendingTaskRequests, acceptInProgress, runnerAcceptRejects, delays>>
  BY DEF deregisterRunner
<1>4. BrokerVarTypes'
  BY <1>0, <1>1, <1>2, <1>3 DEF BrokerVarTypes
<1> QED  BY <1>3, <1>4, LostToBroker, SameRunnerVars, SameToRunner DEF StepTypes

LEMMA RunnerStopsTypes ==
    ASSUME BrokerTypes, NEW r \in Runners, runnerStops(r)
    PROVE  StepTypes
<1>0. RunnerTypes
  BY TypesParts
<1>1. RunnerTypes'
  BY <1>0 DEF RunnerTypes, runnerStops, stop, LaunchersStayValid
<1>2. UNCHANGED <<brokerVars, requesterVars, delays>> /\ UNCHANGED toBroker /\ UNCHANGED toRunner
  BY DEF runnerStops, stop
<1> QED  BY <1>1, <1>2, SameBrokerVars, SameToBroker, SameToRunner DEF StepTypes

\* Offers that expire.
LEMMA OfferExpiresTypes ==
    ASSUME BrokerTypes, NEW id \in Ids, offerExpires(id)
    PROVE  StepTypes
<1>0. BrokerVarTypes
  BY TypesParts
<1>1. BrokerVarTypes'
  BY <1>0 DEF BrokerVarTypes, offerExpires, requesterVars
<1>2. UNCHANGED runnerVars /\ UNCHANGED toBroker /\ UNCHANGED toRunner
  BY DEF offerExpires, channels
<1> QED  BY <1>1, <1>2, SameRunnerVars, SameToBroker, SameToRunner DEF StepTypes

LEMMA OfferOutdatedTypes ==
    ASSUME BrokerTypes, NEW id \in Ids, offerOutdated(id)
    PROVE  StepTypes
<1>0. RunnerTypes /\ BrokerVarTypes
  BY TypesParts
<1>1. /\ id \in openOffers /\ runnerOf(id) \notin Launchers
      /\ outdated' = outdated \cup {id}
      /\ UNCHANGED <<process, canSendOffers, openOffers, taskStatus, settings>>
      /\ UNCHANGED toBroker /\ UNCHANGED toRunner
      /\ UNCHANGED <<brokerVars, requesterVars>>
      /\ delays' = delays \/ (delays < MaxDelays /\ delays' = delays + 1)
  BY DEF offerOutdated, channels
<1>2. RunnerTypes'
  BY <1>0, <1>1 DEF RunnerTypes, LaunchersStayValid
<1>3. delays' \in 0..MaxDelays
  BY <1>0, <1>1, TaskBrokerAssumption DEF BrokerVarTypes
<1>4. BrokerVarTypes'
  BY <1>0, <1>1, <1>3 DEF BrokerVarTypes, brokerVars, requesterVars
<1> QED  BY <1>1, <1>2, <1>4, SameToBroker, SameToRunner DEF StepTypes

\* The runner's handlers.
LEMMA LauncherDefersTypes ==
    ASSUME BrokerTypes, NEW r \in Runners, launcherDefers(r)
    PROVE  StepTypes
<1> DEFINE id == Head(toRunner[r]).id
           e == [type |-> "deferred", id |-> id]
<1>0. RunnerTypes
  BY TypesParts
<1>1. id \in Ids /\ runnerOf(id) = r /\ ToRunnerStep
  BY Received DEF launcherDefers
<1>2. e \in ToBroker /\ e.type = "deferred" /\ e.id = id
  BY <1>1 DEF ToBroker
<1>3. /\ toBroker' = [toBroker EXCEPT ![r] = Append(@, e)]
      /\ openOffers' = openOffers \ {id}
      /\ r \in Launchers
      /\ canSendOffers' = [canSendOffers EXCEPT ![r] = FALSE]
      /\ UNCHANGED <<process, outdated, taskStatus, settings>>
      /\ UNCHANGED <<brokerVars, requesterVars, delays>>
  BY DEF launcherDefers
<1> HIDE DEF e, id
<1>4. ToBrokerStep
  BY <1>1, <1>2, <1>3, Answered
<1>5. id \notin outdated
  BY <1>0, <1>1, <1>3 DEF RunnerTypes, LaunchersStayValid
<1>6. RunnerTypes'
  BY <1>0, <1>3, <1>5 DEF RunnerTypes, LaunchersStayValid
<1> QED  BY <1>1, <1>3, <1>4, <1>6, SameBrokerVars DEF StepTypes

LEMMA OfferAcceptedTypes ==
    ASSUME BrokerTypes, NEW r \in Runners, offerAccepted(r)
    PROVE  RunnerTypes' /\ ToBrokerStep /\ ToRunnerStep
<1> DEFINE id == Head(toRunner[r]).id
           accepts == /\ Cardinality(ofRunner(r, runningTasks)) < maxConcurrency
                      /\ id \in openOffers
           e == [type |-> IF accepts THEN "accepted" ELSE "rejected", id |-> id]
<1>0. RunnerTypes
  BY TypesParts
<1>1. id \in Ids /\ runnerOf(id) = r /\ ToRunnerStep
  BY Received DEF offerAccepted
<1>2. e \in ToBroker /\ e.type # "offer" /\ e.id = id
  BY <1>1 DEF ToBroker
<1>3. /\ toBroker' = [toBroker EXCEPT ![r] = Append(@, e)]
      /\ openOffers' = openOffers \ {id}
      /\ outdated' = outdated \ {id}
      /\ \/ taskStatus' = [taskStatus EXCEPT ![id] = "waitingForSettings"]
         \/ taskStatus' = taskStatus
      /\ UNCHANGED <<process, canSendOffers, settings>>
  BY DEF offerAccepted
<1> HIDE DEF e, id
<1>4. ToBrokerStep
  BY <1>1, <1>2, <1>3, Answered
<1>5. RunnerTypes'
  BY <1>0, <1>1, <1>3 DEF RunnerTypes, LaunchersStayValid, TaskStatuses
<1> QED  BY <1>1, <1>4, <1>5

\* A task is finished.
LEMMA FinishTypes ==
    ASSUME BrokerTypes, CapacityInv, NEW t \in Ids, NEW sent \in Seq(ToBroker),
           \A m \in Range(sent) : m.type # "offer" /\ runnerOf(m.id) = runnerOf(t),
           finishTask(t, free, sent), UNCHANGED <<process, canSendOffers>>
    PROVE  RunnerTypes' /\ ToBrokerStep
<1>0. RunnerTypes
  BY TypesParts
<1>1. /\ ToBrokerStep
      /\ openOffers' \subseteq Ids
      /\ outdated' \subseteq openOffers'
      /\ outdated' \subseteq outdated
      /\ taskStatus' = [taskStatus EXCEPT ![t] = "none"]
      /\ settings' = [settings EXCEPT ![t] = NoRequest]
  BY FinishTask
<1>2. RunnerTypes'
  BY <1>0, <1>1 DEF RunnerTypes, LaunchersStayValid
<1> QED  BY <1>1, <1>2

\* The empty sequence of messages, and one answer.
LEMMA NothingSent ==
    <<>> \in Seq(ToBroker) /\ Range(<<>>) = {}
<1>1. <<>> \in Seq(ToBroker) /\ Len(<<>>) = 0
  BY EmptySeq
<1>2. DOMAIN <<>> = 1..0
  BY <1>1, LenProperties
<1> QED  BY <1>1, <1>2 DEF Range

LEMMA OneSent ==
    ASSUME NEW t \in Ids, NEW type \in {"done", "error"}
    PROVE  /\ <<[type |-> type, id |-> t]>> \in Seq(ToBroker)
           /\ Range(<<[type |-> type, id |-> t]>>) = {[type |-> type, id |-> t]}
<1> DEFINE e == [type |-> type, id |-> t]
<1>1. e \in ToBroker
  BY DEF ToBroker
<1> HIDE DEF e
<1>2. <<e>> \in Seq(ToBroker) /\ Range(<<e>>) = {e}
  BY <1>1, RangeSingleton
<1> QED  BY <1>2 DEF e

LEMMA TaskCancelledTypes ==
    ASSUME BrokerTypes, CapacityInv, NEW r \in Runners, taskCancelled(r, free)
    PROVE  RunnerTypes' /\ ToBrokerStep /\ ToRunnerStep
<1> DEFINE t == Head(toRunner[r]).id
<1>0. RunnerTypes
  BY TypesParts
<1>1. t \in Ids /\ ToRunnerStep
  BY Received DEF taskCancelled
<1>2. UNCHANGED <<process, canSendOffers>>
  BY DEF taskCancelled
<1>3. CASE taskStatus[t] = "waitingForSettings"
  <2>1. finishTask(t, free, <<>>)
    BY <1>3 DEF taskCancelled
  <2> HIDE DEF t
  <2> QED  BY <1>1, <1>2, <2>1, NothingSent, FinishTypes
<1>4. CASE taskStatus[t] = "running"
  <2>1. /\ taskStatus' = [taskStatus EXCEPT ![t] = "aborting:cancelled"]
        /\ UNCHANGED <<openOffers, outdated, settings, toBroker>>
    BY <1>4 DEF taskCancelled
  <2>2. RunnerTypes'
    BY <1>0, <1>2, <2>1 DEF RunnerTypes, LaunchersStayValid, TaskStatuses
  <2> QED  BY <1>1, <2>1, <2>2, SameToBroker
<1>5. CASE taskStatus[t] \notin {"waitingForSettings", "running"}
  <2>1. UNCHANGED <<openOffers, outdated, taskStatus, settings, toBroker>>
    BY <1>5 DEF taskCancelled
  <2>2. RunnerTypes'
    BY <1>0, <1>2, <2>1 DEF RunnerTypes, LaunchersStayValid
  <2> QED  BY <1>1, <2>1, <2>2, SameToBroker
<1> QED  BY <1>3, <1>4, <1>5

LEMMA ReceivedSettingsTypes ==
    ASSUME BrokerTypes, NEW r \in Runners, receivedSettings(r)
    PROVE  RunnerTypes' /\ ToBrokerStep /\ ToRunnerStep
<1> DEFINE m == Head(toRunner[r])
<1>0. RunnerTypes
  BY TypesParts
<1>1. m \in ToRunner /\ m.type = "settings" /\ m.id \in Ids /\ ToRunnerStep
  BY Received DEF receivedSettings
<1>2. m.request \in Requests
  BY <1>1, MessageTypes
<1>3. /\ \/ /\ taskStatus' = [taskStatus EXCEPT ![m.id] = "running"]
            /\ settings' = [settings EXCEPT ![m.id] = m.request]
         \/ UNCHANGED <<taskStatus, settings>>
      /\ UNCHANGED <<process, canSendOffers, openOffers, outdated, toBroker>>
  BY DEF receivedSettings
<1> HIDE DEF m
<1>4. RunnerTypes'
  BY <1>0, <1>1, <1>2, <1>3 DEF RunnerTypes, LaunchersStayValid, TaskStatuses
<1> QED  BY <1>1, <1>3, <1>4, SameToBroker

LEMMA RunnerReceivesTypes ==
    ASSUME BrokerTypes, CapacityInv, NEW r \in Runners, RunnerReceives(r)
    PROVE  StepTypes
<1>0. RunnerTypes
  BY TypesParts
<1>1. BrokerVarTypes'
  BY SameBrokerVars DEF RunnerReceives
<1>2. CASE runnerRegistered(r)
  <2>1. RunnerTypes'
    BY <1>0, <1>2 DEF RunnerTypes, runnerRegistered, LaunchersStayValid
  <2>2. UNCHANGED toBroker /\ ToRunnerStep
    BY <1>2, Received DEF runnerRegistered
  <2> QED  BY <1>1, <2>1, <2>2, SameToBroker DEF StepTypes
<1>3. CASE offerAccepted(r)
  BY <1>1, <1>3, OfferAcceptedTypes DEF StepTypes
<1>4. CASE taskCancelled(r, free)
  BY <1>1, <1>4, TaskCancelledTypes DEF StepTypes
<1>5. CASE receivedSettings(r)
  BY <1>1, <1>5, ReceivedSettingsTypes DEF StepTypes
<1> QED  BY <1>2, <1>3, <1>4, <1>5 DEF RunnerReceives

LEMMA RunnerOffersTypes ==
    ASSUME BrokerTypes, CapacityInv, NEW r \in Runners, RunnerOffers(r)
    PROVE  StepTypes
<1>0. RunnerTypes
  BY TypesParts
<1>1. /\ sendOffers(r, free, openOffers, runningTasks, <<>>)
      /\ UNCHANGED <<process, canSendOffers, taskStatus, settings>>
      /\ UNCHANGED toRunner
      /\ UNCHANGED <<brokerVars, requesterVars, delays>>
  BY DEF RunnerOffers, offerInterval
<1>2. /\ ToBrokerStep
      /\ openOffers' \subseteq Ids
      /\ outdated' \subseteq openOffers'
      /\ outdated' \subseteq outdated
  BY <1>1, NothingSent, SendOffers, CapacityInvFits
<1>3. RunnerTypes'
  BY <1>0, <1>1, <1>2 DEF RunnerTypes, LaunchersStayValid
<1> QED  BY <1>1, <1>2, <1>3, SameBrokerVars, SameToRunner DEF StepTypes

LEMMA TaskTimesOutTypes ==
    ASSUME BrokerTypes, CapacityInv, NEW t \in Ids, TaskTimesOut(t)
    PROVE  StepTypes
<1>0. RunnerTypes
  BY TypesParts
<1>1. /\ UNCHANGED <<process, canSendOffers>> /\ UNCHANGED toRunner
      /\ UNCHANGED <<brokerVars, requesterVars, delays>>
  BY DEF TaskTimesOut, taskTimedOut
<1>2. CASE finishTask(t, free, <<[type |-> "error", id |-> t]>>)
  <2> DEFINE e == [type |-> "error", id |-> t]
  <2>1. e.type # "offer" /\ e.id = t
    OBVIOUS
  <2>2. <<e>> \in Seq(ToBroker) /\ Range(<<e>>) = {e}
    BY OneSent
  <2>3. finishTask(t, free, <<e>>)
    BY <1>2
  <2> HIDE DEF e
  <2>4. RunnerTypes' /\ ToBrokerStep
    BY <1>1, <2>1, <2>2, <2>3, FinishTypes
  <2> QED  BY <1>1, <2>4, SameBrokerVars, SameToRunner DEF StepTypes
<1>3. CASE /\ taskStatus' = [taskStatus EXCEPT ![t] = "aborting:timeout"]
           /\ UNCHANGED <<openOffers, outdated, settings, toBroker>>
  <2>1. RunnerTypes'
    BY <1>0, <1>1, <1>3 DEF RunnerTypes, LaunchersStayValid, TaskStatuses
  <2> QED  BY <1>1, <1>3, <2>1, SameBrokerVars, SameToBroker, SameToRunner DEF StepTypes
<1> QED  BY <1>2, <1>3 DEF TaskTimesOut, taskTimedOut

LEMMA TaskEndsTypes ==
    ASSUME BrokerTypes, CapacityInv, NEW t \in Ids, TaskEnds(t)
    PROVE  StepTypes
<1>1. /\ UNCHANGED <<process, canSendOffers>> /\ UNCHANGED toRunner
      /\ UNCHANGED <<brokerVars, requesterVars, delays>>
  BY DEF TaskEnds, taskExecutionEnds
<1>2. PICK type \in {"done", "error"} :
         finishTask(t, free, IF taskStatus[t] = "aborting:cancelled" THEN <<>>
                               ELSE <<[type |-> type, id |-> t]>>)
  BY DEF TaskEnds, taskExecutionEnds
<1> DEFINE e == [type |-> type, id |-> t]
<1>3. e.type # "offer" /\ e.id = t
  OBVIOUS
<1>4. <<e>> \in Seq(ToBroker) /\ Range(<<e>>) = {e}
  BY OneSent
<1>5. finishTask(t, free, <<>>) \/ finishTask(t, free, <<e>>)
  BY <1>2
<1> HIDE DEF e
<1>6. RunnerTypes' /\ ToBrokerStep
  BY <1>1, <1>3, <1>4, <1>5, NothingSent, FinishTypes
<1> QED  BY <1>1, <1>6, SameBrokerVars, SameToRunner DEF StepTypes

\* Every step.
LEMMA TypesStep ==
    ASSUME BrokerTypes, CapacityInv, [BrokerNext]_vars
    PROVE  StepTypes
<1>1. ASSUME NEW q \in Requests, taskRequested(q)
      PROVE  StepTypes
  BY <1>1, TaskRequestedTypes
<1>2. ASSUME NEW r \in Runners, RunnerMessage(r)
      PROVE  StepTypes
  BY <1>2, TaskOfferedTypes, HandleRunnerAcceptTypes, HandleRunnerRejectTypes,
     HandleRunnerDeferredTypes, ResultTypes DEF RunnerMessage
<1>3. ASSUME NEW r \in Runners,
             RunnerReceives(r) \/ launcherDefers(r) \/ RunnerOffers(r)
      PROVE  StepTypes
  BY <1>3, RunnerReceivesTypes, LauncherDefersTypes, RunnerOffersTypes
<1>4. ASSUME NEW r \in Runners,
             \/ registerRunner(r) \/ deregisterRunner(r)
             \/ runnerStops(r) \/ RunnerCloses(r) \/ runnerGone(r)
      PROVE  StepTypes
  BY <1>4, RegisterRunnerTypes, DeregisterRunnerTypes, RunnerStopsTypes, RunnerEndsTypes
<1>5. ASSUME NEW id \in Ids,
             \/ acceptTimeout(id) \/ handleTaskTimeout(id)
             \/ TaskTimesOut(id) \/ TaskEnds(id)
             \/ offerExpires(id) \/ offerOutdated(id)
      PROVE  StepTypes
  BY <1>5, AcceptTimeoutTypes, HandleTaskTimeoutTypes, TaskTimesOutTypes, TaskEndsTypes,
     OfferExpiresTypes, OfferOutdatedTypes
<1>6. CASE UNCHANGED vars
  <2>1. /\ UNCHANGED runnerVars /\ UNCHANGED toBroker /\ UNCHANGED toRunner
        /\ UNCHANGED <<brokerVars, requesterVars, delays>>
    BY <1>6 DEF vars, channels
  <2> QED  BY <2>1, SameRunnerVars, SameBrokerVars, SameToBroker, SameToRunner DEF StepTypes
<1> QED  BY <1>1, <1>2, <1>3, <1>4, <1>5, <1>6 DEF BrokerNext

\* The types at the start.
LEMMA TypesInit == BrokerInit => BrokerTypes
<1> SUFFICES ASSUME BrokerInit
             PROVE  BrokerTypes
  OBVIOUS
<1>1. RunnerTypes
  BY DEF BrokerInit, RunnerInit, RunnerTypes, LaunchersStayValid
<1>2. BrokerVarTypes
  BY TaskBrokerAssumption DEF BrokerInit, BrokerVarTypes, TaskTypes
<1>3. /\ toBroker \in [Runners -> Seq(ToBroker)]
      /\ toRunner \in [Runners -> Seq(ToRunner)]
      /\ \A r \in Runners : toBroker[r] = <<>> /\ toRunner[r] = <<>>
  BY EmptySeq DEF BrokerInit, RunnerInit
<1>4. OwnMessages
  BY <1>3, NothingSent DEF OwnMessages
<1> QED  BY <1>1, <1>2, <1>3, <1>4, TypesParts

\* Types and addressing hold throughout.
THEOREM BrokerTypesInvariant == BrokerSpec => []BrokerTypes
<1>1. BrokerTypes /\ CapacityInv /\ [BrokerNext]_vars => BrokerTypes'
  BY TypesStep, StepTypesSuffice
<1> QED  BY <1>1, TypesInit, CapacityInvariant, PTL DEF BrokerSpec

\* The types of broker, requester, runners and channels: outdated offers are
\* open, and a task of the broker always serves a request.
THEOREM BrokerTypeOKHolds == BrokerSpec => []BrokerTypeOK
<1>1. BrokerTypes => BrokerTypeOK
  BY DEF BrokerTypes
<1> QED  BY <1>1, BrokerTypesInvariant, PTL


-----------------------------------------------------------------------------
(* The second layer: a request is offered to one runner at a time          *)

\* Steps that leave requests, marks and promises alone.
LEMMA SameAccepts ==
    ASSUME AcceptInv, UNCHANGED <<pendingTaskRequests, acceptInProgress, runnerAcceptRejects,
                                  request, taskAcceptRejects>>
    PROVE  AcceptInv'
  BY DEF AcceptInv, OneAcceptPerRequest, LeftoverIsInert, AwaitedOnce

\* settleTasks: an offer is accepted for a request that nobody is asked to take,
\* and a leftover entry is marked, so it is not among these.
LEMMA SettleAccepts ==
    ASSUME BrokerTypes, AcceptInv,
           NEW offers \in Seq(Ids), NEW requests \in Seq(Requests),
           settleTasks(offers, requests),
           Range(pendingTaskRequests) \subseteq Range(requests),
           \A q \in Range(requests) :
              \/ request'[q] = "requested"
              \/ q \in Range(pendingTaskRequests) /\ request'[q] = request[q],
           \A q \in Requests :
              request[q] \in {"requested", "awaiting"} => request'[q] = request[q],
           UNCHANGED taskAcceptRejects
    PROVE  AcceptInv'
<1>0. BrokerVarTypes
  BY TypesParts
<1>1. /\ pendingTaskRequests' = requests
      /\ \A q \in Requests : acceptInProgress[q] => acceptInProgress'[q]
      /\ \E A \in SUBSET Ids : Accepts(A, offers, requests)
  BY SettleTasks DEF BrokerTypes
<1>2. PICK A \in SUBSET Ids : Accepts(A, offers, requests)
  BY <1>1
<1>3. \A t \in Ids : runnerAcceptRejects[t] # NoRequest => runnerAcceptRejects[t] \in Requests
  BY <1>0 DEF BrokerVarTypes
<1>4. Range(requests) \subseteq Requests
  BY InRange
<1>5. ASSUME NEW t \in Ids, runnerAcceptRejects'[t] # NoRequest
      PROVE  LET q == runnerAcceptRejects'[t]
             IN  /\ acceptInProgress'[q]
                 /\ q \in Range(pendingTaskRequests')
                 /\ request'[q] = "requested"
                 /\ \A u \in Ids : runnerAcceptRejects'[u] = q => u = t
  <2> DEFINE q == runnerAcceptRejects'[t]
  <2>1. CASE t \in A
    <3>1. /\ q \in Requests /\ q \in Range(requests)
          /\ ~acceptInProgress[q] /\ acceptInProgress'[q]
      BY <1>2, <2>1 DEF Accepts
    <3>2. request'[q] = "requested"
      BY <3>1 DEF AcceptInv, LeftoverIsInert
    <3>3. ASSUME NEW u \in Ids, runnerAcceptRejects'[u] = q
          PROVE  u = t
      <4>1. CASE u \in A
        BY <1>2, <2>1, <3>3, <4>1 DEF Accepts
      <4>2. CASE u \notin A
        <5>1. runnerAcceptRejects[u] = q
          BY <1>2, <3>3, <4>2 DEF Accepts
        <5> QED  BY <1>5, <3>1, <5>1 DEF AcceptInv, OneAcceptPerRequest
      <4> QED  BY <4>1, <4>2
    <3> QED  BY <1>1, <3>1, <3>2, <3>3
  <2>2. CASE t \notin A
    <3>1. runnerAcceptRejects[t] = q /\ q \in Requests
      BY <1>2, <1>3, <1>5, <2>2 DEF Accepts
    <3>2. /\ acceptInProgress[q]
          /\ q \in Range(pendingTaskRequests)
          /\ request[q] = "requested"
          /\ \A u \in Ids : runnerAcceptRejects[u] = q => u = t
      BY <1>5, <3>1 DEF AcceptInv, OneAcceptPerRequest
    <3>3. ASSUME NEW u \in Ids, runnerAcceptRejects'[u] = q
          PROVE  u = t
      BY <1>2, <3>2, <3>3 DEF Accepts
    <3> QED  BY <1>1, <3>1, <3>2, <3>3
  <2> QED  BY <2>1, <2>2
<1>6. OneAcceptPerRequest'
  BY <1>5 DEF OneAcceptPerRequest
<1>7. LeftoverIsInert'
  BY <1>1, <1>4 DEF AcceptInv, LeftoverIsInert
<1>8. AwaitedOnce'
  BY <1>0 DEF AcceptInv, AwaitedOnce, BrokerVarTypes
<1> QED  BY <1>6, <1>7, <1>8 DEF AcceptInv

LEMMA TaskRequestedAccepts ==
    ASSUME BrokerTypes, AcceptInv, NEW q \in Requests, taskRequested(q)
    PROVE  AcceptInv'
<1>0. BrokerVarTypes
  BY TypesParts
<1> DEFINE requests == Append(pendingTaskRequests, q)
<1>1. /\ requests \in Seq(Requests)
      /\ Range(requests) = Range(pendingTaskRequests) \cup {q}
      /\ pendingTaskOffers \in Seq(Ids)
      /\ Range(pendingTaskRequests) \subseteq Requests
  BY <1>0, RangeAppend, InRange DEF BrokerVarTypes
<1>2. /\ settleTasks(pendingTaskOffers, requests)
      /\ request[q] = "idle"
      /\ request' = [request EXCEPT ![q] = "requested"]
      /\ UNCHANGED taskAcceptRejects
  BY DEF taskRequested
<1>3. /\ request'[q] = "requested"
      /\ \A x \in Requests : x # q => request'[x] = request[x]
  BY <1>0, <1>2 DEF BrokerVarTypes
<1> HIDE DEF requests
<1>4. \A x \in Range(requests) :
         \/ request'[x] = "requested"
         \/ x \in Range(pendingTaskRequests) /\ request'[x] = request[x]
  BY <1>1, <1>3
<1>5. \A x \in Requests :
         request[x] \in {"requested", "awaiting"} => request'[x] = request[x]
  BY <1>2, <1>3
<1>6. Range(pendingTaskRequests) \subseteq Range(requests)
  BY <1>1
<1> QED  BY <1>1, <1>2, <1>4, <1>5, <1>6, SettleAccepts

LEMMA TaskOfferedAccepts ==
    ASSUME BrokerTypes, AcceptInv, NEW r \in Runners, taskOffered(r)
    PROVE  AcceptInv'
<1> DEFINE offers == Append(pendingTaskOffers, Head(toBroker[r]).id)
<1>0. BrokerVarTypes
  BY TypesParts
<1>1. offers \in Seq(Ids) /\ pendingTaskRequests \in Seq(Requests)
  <2>1. Head(toBroker[r]).id \in Ids
    BY Heard DEF taskOffered
  <2> QED  BY <1>0, <2>1, RangeAppend DEF BrokerVarTypes
<1>2. settleTasks(offers, pendingTaskRequests) /\ UNCHANGED request /\ UNCHANGED taskAcceptRejects
  BY DEF taskOffered, requesterVars
<1> HIDE DEF offers
<1>3. /\ \A q \in Range(pendingTaskRequests) :
            \/ request'[q] = "requested"
            \/ q \in Range(pendingTaskRequests) /\ request'[q] = request[q]
      /\ \A q \in Requests :
            request[q] \in {"requested", "awaiting"} => request'[q] = request[q]
  BY <1>2
<1> QED  BY <1>1, <1>2, <1>3, SettleAccepts

\* The runner accepts: its request is pending and the requester waits for it, so
\* the settings are sent and the request is awaited from here on.
LEMMA ReadyAccept ==
    ASSUME BrokerTypes, AcceptInv, NEW r \in Runners, NEW t \in Ids,
           accepting(t), HandlesAccept(r, t, runnerAcceptRejects[t])
    PROVE  LET q == runnerAcceptRejects[t]
           IN  /\ q \in Requests
               /\ request[q] = "requested"
               /\ runnerAcceptRejects' = [runnerAcceptRejects EXCEPT ![t] = NoRequest]
               /\ pendingTaskRequests' = RemoveFirst(pendingTaskRequests, q)
               /\ tasks' = [tasks EXCEPT ![t] = [request |-> q, timeout |-> TRUE]]
               /\ request' = [request EXCEPT ![q] = "awaiting"]
               /\ taskAcceptRejects' = [taskAcceptRejects EXCEPT ![t] = q]
               /\ messageRunner(r, [type |-> "settings", id |-> t, request |-> q])
               /\ UNCHANGED <<knownRunners, pendingTaskOffers, expired, acceptInProgress>>
<1> DEFINE q == runnerAcceptRejects[t]
<1>0. BrokerVarTypes
  BY TypesParts
<1>1. q \in Requests
  BY <1>0 DEF BrokerVarTypes, accepting
<1>2. q \in Range(pendingTaskRequests) /\ request[q] = "requested"
  BY DEF AcceptInv, OneAcceptPerRequest, accepting
<1>3. (q \in Range(pendingTaskRequests) /\ request[q] = "requested") = TRUE
  BY <1>2
<1> QED  BY <1>1, <1>2, <1>3 DEF HandlesAccept

LEMMA HandleRunnerAcceptAccepts ==
    ASSUME BrokerTypes, AcceptInv, NEW r \in Runners, handleRunnerAccept(r)
    PROVE  AcceptInv'
<1> DEFINE t == Head(toBroker[r]).id
           q == runnerAcceptRejects[t]
<1>0. BrokerVarTypes
  BY TypesParts
<1>1. t \in Ids
  BY Heard DEF handleRunnerAccept
<1>2. /\ q = NoRequest => UNCHANGED <<brokerVars, requesterVars, toRunner>>
      /\ q # NoRequest => HandlesAccept(r, t, q)
  BY AcceptCases
<1> HIDE DEF t
<1>3. CASE q = NoRequest
  BY <1>2, <1>3, SameAccepts DEF brokerVars, requesterVars
<1>4. CASE q # NoRequest
  <2>1. /\ q \in Requests
        /\ request[q] = "requested"
        /\ runnerAcceptRejects' = [runnerAcceptRejects EXCEPT ![t] = NoRequest]
        /\ pendingTaskRequests' = RemoveFirst(pendingTaskRequests, q)
        /\ request' = [request EXCEPT ![q] = "awaiting"]
        /\ taskAcceptRejects' = [taskAcceptRejects EXCEPT ![t] = q]
        /\ UNCHANGED acceptInProgress
    BY <1>1, <1>2, <1>4, ReadyAccept DEF accepting
  <2>2. /\ acceptInProgress[q]
        /\ \A u \in Ids : runnerAcceptRejects[u] = q => u = t
    BY <1>1, <1>4 DEF AcceptInv, OneAcceptPerRequest
  <2>3. /\ runnerAcceptRejects'[t] = NoRequest
        /\ \A u \in Ids : u # t => runnerAcceptRejects'[u] = runnerAcceptRejects[u]
        /\ taskAcceptRejects'[t] = q
        /\ \A u \in Ids : u # t => taskAcceptRejects'[u] = taskAcceptRejects[u]
    BY <1>0, <1>1, <2>1 DEF BrokerVarTypes
  <2>4. /\ request'[q] = "awaiting"
        /\ \A x \in Requests : x # q => request'[x] = request[x]
    BY <1>0, <2>1 DEF BrokerVarTypes
  <2>5. /\ Range(pendingTaskRequests') \subseteq Range(pendingTaskRequests)
        /\ \A x \in Range(pendingTaskRequests) : x # q => x \in Range(pendingTaskRequests')
        /\ Range(pendingTaskRequests) \subseteq Requests
    BY <1>0, <2>1, RangeRemoveFirst, InRange DEF BrokerVarTypes
  <2>6. \A u \in Ids : runnerAcceptRejects[u] \in Requests \cup {NoRequest}
                       /\ taskAcceptRejects[u] \in Requests \cup {NoRequest}
    BY <1>0 DEF BrokerVarTypes
  <2> HIDE DEF q
  <2>7. OneAcceptPerRequest'
    <3> SUFFICES ASSUME NEW u \in Ids, runnerAcceptRejects'[u] # NoRequest
                 PROVE  LET x == runnerAcceptRejects'[u]
                        IN  /\ acceptInProgress'[x]
                            /\ x \in Range(pendingTaskRequests')
                            /\ request'[x] = "requested"
                            /\ \A v \in Ids : runnerAcceptRejects'[v] = x => v = u
      BY DEF OneAcceptPerRequest
    <3> DEFINE x == runnerAcceptRejects'[u]
    <3>1. u # t /\ x = runnerAcceptRejects[u] /\ x # q /\ x \in Requests
      BY <2>2, <2>3, <2>6
    <3>2. /\ acceptInProgress[x]
          /\ x \in Range(pendingTaskRequests)
          /\ request[x] = "requested"
          /\ \A v \in Ids : runnerAcceptRejects[v] = x => v = u
      BY <3>1 DEF AcceptInv, OneAcceptPerRequest
    <3>3. \A v \in Ids : runnerAcceptRejects'[v] = x => v = u
      BY <2>3, <3>2
    <3> QED  BY <2>1, <2>4, <2>5, <3>1, <3>2, <3>3
  <2>8. LeftoverIsInert'
    BY <2>1, <2>2, <2>4, <2>5 DEF AcceptInv, LeftoverIsInert
  <2>9. AwaitedOnce'
    <3>1. \A u \in Ids : taskAcceptRejects[u] # q
      BY <2>1, TaskRunnerAssumption DEF AcceptInv, AwaitedOnce
    <3>2. ASSUME NEW u \in Ids, taskAcceptRejects'[u] # NoRequest
          PROVE  LET x == taskAcceptRejects'[u]
                 IN  /\ request'[x] = "awaiting"
                     /\ \A v \in Ids : taskAcceptRejects'[v] = x => v = u
      <4>1. CASE u = t
        BY <2>3, <2>4, <3>1, <4>1
      <4>2. CASE u # t
        BY <2>3, <2>4, <2>6, <3>1, <3>2, <4>2 DEF AcceptInv, AwaitedOnce
      <4> QED  BY <4>1, <4>2
    <3> QED  BY <3>2 DEF AwaitedOnce
  <2> QED  BY <2>7, <2>8, <2>9 DEF AcceptInv
<1> QED  BY <1>3, <1>4

\* The accept fails: no other runner is asked, so the mark may be taken off.
LEMMA RejectedAccepts ==
    ASSUME BrokerTypes, AcceptInv, NEW t \in Ids, acceptRejected(t),
           Range(pendingTaskRequests') = Range(pendingTaskRequests)
              \cup (IF accepting(t) THEN {runnerAcceptRejects[t]} ELSE {}),
           UNCHANGED <<request, taskAcceptRejects>>
    PROVE  AcceptInv'
<1> DEFINE q == runnerAcceptRejects[t]
<1>0. BrokerVarTypes
  BY TypesParts
<1>1. /\ runnerAcceptRejects'[t] = NoRequest
      /\ \A u \in Ids : u # t => runnerAcceptRejects'[u] = runnerAcceptRejects[u]
      /\ \A x \in Requests : x # q => acceptInProgress'[x] = acceptInProgress[x]
  <2>1. acceptInProgress \in [Requests -> BOOLEAN]
    BY <1>0 DEF BrokerVarTypes
  <2>2. \A x \in Requests : acceptInProgress'[x] = (acceptInProgress[x] /\ x # q)
    BY DEF acceptRejected
  <2>3. \A x \in Requests : x # q => acceptInProgress'[x] = acceptInProgress[x]
    BY <2>1, <2>2
  <2>4. /\ runnerAcceptRejects'[t] = NoRequest
        /\ \A u \in Ids : u # t => runnerAcceptRejects'[u] = runnerAcceptRejects[u]
    BY <1>0 DEF BrokerVarTypes, acceptRejected
  <2> QED  BY <2>3, <2>4
<1>2. q # NoRequest => /\ q \in Range(pendingTaskRequests)
                       /\ request[q] = "requested"
                       /\ \A u \in Ids : runnerAcceptRejects[u] = q => u = t
  BY DEF AcceptInv, OneAcceptPerRequest
<1>3. Range(pendingTaskRequests') = Range(pendingTaskRequests)
  BY <1>2 DEF accepting
<1>4. \A u \in Ids : runnerAcceptRejects[u] \in Requests \cup {NoRequest}
  BY <1>0 DEF BrokerVarTypes
<1>5. Range(pendingTaskRequests) \subseteq Requests
  BY <1>0, InRange DEF BrokerVarTypes
<1>6. NoRequest \notin Requests
  BY TaskRunnerAssumption
<1> HIDE DEF q
<1>7. OneAcceptPerRequest'
  <2> SUFFICES ASSUME NEW u \in Ids, runnerAcceptRejects'[u] # NoRequest
               PROVE  LET x == runnerAcceptRejects'[u]
                      IN  /\ acceptInProgress'[x]
                          /\ x \in Range(pendingTaskRequests')
                          /\ request'[x] = "requested"
                          /\ \A v \in Ids : runnerAcceptRejects'[v] = x => v = u
    BY DEF OneAcceptPerRequest
  <2> DEFINE x == runnerAcceptRejects'[u]
  <2>1. u # t /\ x = runnerAcceptRejects[u] /\ x \in Requests
    BY <1>1, <1>4
  <2>2. x # q
    BY <1>2, <1>6, <2>1
  <2>3. /\ acceptInProgress[x]
        /\ x \in Range(pendingTaskRequests)
        /\ request[x] = "requested"
        /\ \A v \in Ids : runnerAcceptRejects[v] = x => v = u
    BY <2>1 DEF AcceptInv, OneAcceptPerRequest
  <2>4. \A v \in Ids : runnerAcceptRejects'[v] = x => v = u
    BY <1>1, <2>3
  <2> QED  BY <1>1, <1>3, <2>1, <2>2, <2>3, <2>4
<1>8. LeftoverIsInert'
  BY <1>1, <1>2, <1>3, <1>5, <1>6 DEF AcceptInv, LeftoverIsInert
<1>9. AwaitedOnce'
  BY DEF AcceptInv, AwaitedOnce
<1> QED  BY <1>7, <1>8, <1>9 DEF AcceptInv

LEMMA HandleRunnerRejectAccepts ==
    ASSUME BrokerTypes, AcceptInv, NEW r \in Runners,
           handleRunnerReject(r) \/ handleRunnerDeferred(r)
    PROVE  AcceptInv'
<1> DEFINE t == Head(toBroker[r]).id
           q == runnerAcceptRejects[t]
<1>0. BrokerVarTypes
  BY TypesParts
<1>1. t \in Ids
  BY Heard DEF handleRunnerReject, handleRunnerDeferred
<1>2. acceptRejected(t) /\ UNCHANGED <<request, taskAcceptRejects>>
  BY DEF handleRunnerReject, handleRunnerDeferred, requesterVars
<1>3. pendingTaskRequests' = IF q = NoRequest \/ handleRunnerReject(r)
                               THEN pendingTaskRequests
                               ELSE Append(pendingTaskRequests, q)
  BY DEF handleRunnerReject, handleRunnerDeferred
<1>4. q # NoRequest => /\ q \in Requests
                       /\ q \in Range(pendingTaskRequests)
  BY <1>0, <1>1 DEF AcceptInv, OneAcceptPerRequest, BrokerVarTypes
<1> HIDE DEF t
<1>5. Range(pendingTaskRequests') = Range(pendingTaskRequests)
         \cup (IF accepting(t) THEN {q} ELSE {})
  BY <1>0, <1>3, <1>4, RangeAppend DEF BrokerVarTypes, accepting
<1> QED  BY <1>1, <1>2, <1>5, RejectedAccepts

LEMMA AcceptTimeoutAccepts ==
    ASSUME BrokerTypes, AcceptInv, NEW t \in Ids, acceptTimeout(t)
    PROVE  AcceptInv'
<1>1. /\ acceptRejected(t)
      /\ UNCHANGED <<request, taskAcceptRejects>> /\ UNCHANGED pendingTaskRequests
  BY DEF acceptTimeout, requesterVars
<1>2. runnerAcceptRejects[t] # NoRequest =>
         runnerAcceptRejects[t] \in Range(pendingTaskRequests)
  BY DEF AcceptInv, OneAcceptPerRequest
<1> QED  BY <1>1, <1>2, RejectedAccepts DEF accepting

\* Results settle requests that are awaited, which are no longer offered.
LEMMA SettleRequestsAccepts ==
    ASSUME BrokerTypes, AcceptInv, NEW T \in SUBSET Ids, NEW result \in {"ok", "error"},
           settleRequests(T, result),
           UNCHANGED <<pendingTaskRequests, acceptInProgress, runnerAcceptRejects>>
    PROVE  AcceptInv'
<1>0. BrokerVarTypes
  BY TypesParts
<1>1. /\ \A q \in Requests :
            request'[q] = IF \E t \in T : tasks[t] # NoTask /\ taskAcceptRejects[t] = q
                            THEN result ELSE request[q]
      /\ \A t \in Ids :
            taskAcceptRejects'[t] = IF t \in T /\ tasks[t] # NoTask
                                      THEN NoRequest ELSE taskAcceptRejects[t]
  BY DEF settleRequests
<1>2. NoRequest \notin Requests
  BY TaskRunnerAssumption
<1>3. \A q \in Requests : request[q] # "awaiting" => request'[q] = request[q]
  BY <1>1, <1>2 DEF AcceptInv, AwaitedOnce
<1>4. /\ \A u \in Ids : runnerAcceptRejects[u] \in Requests \cup {NoRequest}
                        /\ taskAcceptRejects[u] \in Requests \cup {NoRequest}
      /\ Range(pendingTaskRequests) \subseteq Requests
  BY <1>0, InRange DEF BrokerVarTypes
<1>5. OneAcceptPerRequest'
  BY <1>3, <1>4 DEF AcceptInv, OneAcceptPerRequest
<1>6. LeftoverIsInert'
  BY <1>3, <1>4 DEF AcceptInv, LeftoverIsInert
<1>7. AwaitedOnce'
  <2> SUFFICES ASSUME NEW u \in Ids, taskAcceptRejects'[u] # NoRequest
               PROVE  LET q == taskAcceptRejects'[u]
                      IN  /\ request'[q] = "awaiting"
                          /\ \A v \in Ids : taskAcceptRejects'[v] = q => v = u
    BY DEF AwaitedOnce
  <2> DEFINE q == taskAcceptRejects'[u]
  <2>1. q = taskAcceptRejects[u] /\ q \in Requests /\ ~(u \in T /\ tasks[u] # NoTask)
    BY <1>1, <1>4
  <2>2. request[q] = "awaiting" /\ \A v \in Ids : taskAcceptRejects[v] = q => v = u
    BY <2>1 DEF AcceptInv, AwaitedOnce
  <2>3. ~\E t \in T : tasks[t] # NoTask /\ taskAcceptRejects[t] = q
    BY <2>1, <2>2
  <2>4. request'[q] = "awaiting"
    BY <1>1, <2>1, <2>2, <2>3
  <2>5. ASSUME NEW v \in Ids, taskAcceptRejects'[v] = q
        PROVE  v = u
    BY <1>1, <1>2, <2>1, <2>2, <2>5
  <2> QED  BY <2>4, <2>5
<1> QED  BY <1>5, <1>6, <1>7 DEF AcceptInv

\* Every step.
LEMMA AcceptsStep ==
    ASSUME BrokerTypes, AcceptInv, [BrokerNext]_vars
    PROVE  AcceptInv'
<1>1. ASSUME NEW q \in Requests, taskRequested(q)
      PROVE  AcceptInv'
  BY <1>1, TaskRequestedAccepts
<1>2. ASSUME NEW r \in Runners, taskDoneHandler(r) \/ taskErrorHandler(r)
      PROVE  AcceptInv'
  <2>1. Head(toBroker[r]).id \in Ids
    BY <1>2, Heard DEF taskDoneHandler, taskErrorHandler
  <2>2. \E result \in {"ok", "error"} : settleRequests({Head(toBroker[r]).id}, result)
    BY <1>2 DEF taskDoneHandler, taskErrorHandler
  <2>3. UNCHANGED <<pendingTaskRequests, acceptInProgress, runnerAcceptRejects>>
    BY <1>2 DEF taskDoneHandler, taskErrorHandler
  <2> QED  BY <2>1, <2>2, <2>3, SettleRequestsAccepts
<1>3. ASSUME NEW r \in Runners, RunnerMessage(r)
      PROVE  AcceptInv'
  BY <1>2, <1>3, TaskOfferedAccepts, HandleRunnerAcceptAccepts, HandleRunnerRejectAccepts
     DEF RunnerMessage
<1>4. ASSUME UNCHANGED <<brokerVars, requesterVars>>
      PROVE  AcceptInv'
  BY <1>4, SameAccepts DEF brokerVars, requesterVars
<1>5. ASSUME NEW r \in Runners,
             \/ RunnerReceives(r) \/ launcherDefers(r) \/ RunnerOffers(r)
             \/ runnerStops(r) \/ RunnerCloses(r) \/ runnerGone(r)
      PROVE  AcceptInv'
  <2>1. UNCHANGED <<brokerVars, requesterVars>>
    BY <1>5 DEF RunnerReceives, launcherDefers, RunnerOffers, runnerStops, RunnerCloses,
                runnerGone
  <2> QED  BY <1>4, <2>1
<1>6. ASSUME NEW r \in Runners, registerRunner(r)
      PROVE  AcceptInv'
  BY <1>6, SameAccepts DEF registerRunner, requesterVars
<1>7. ASSUME NEW r \in Runners, deregisterRunner(r)
      PROVE  AcceptInv'
  <2> DEFINE T == ofRunner(r, {t \in Ids : tasks[t] # NoTask})
  <2>1. /\ settleRequests(T, "error")
        /\ UNCHANGED <<pendingTaskRequests, acceptInProgress, runnerAcceptRejects>>
    BY <1>7 DEF deregisterRunner
  <2>2. T \in SUBSET Ids
    BY DEF ofRunner
  <2> HIDE DEF T
  <2> QED  BY <2>1, <2>2, SettleRequestsAccepts
<1>8. ASSUME NEW t \in Ids, handleTaskTimeout(t)
      PROVE  AcceptInv'
  <2>1. /\ settleRequests({t}, "error")
        /\ UNCHANGED <<pendingTaskRequests, acceptInProgress, runnerAcceptRejects>>
    BY <1>8 DEF handleTaskTimeout
  <2> QED  BY <2>1, SettleRequestsAccepts
<1>9. ASSUME NEW id \in Ids,
             TaskTimesOut(id) \/ TaskEnds(id) \/ offerExpires(id) \/ offerOutdated(id)
      PROVE  AcceptInv'
  <2>1. UNCHANGED <<pendingTaskRequests, acceptInProgress, runnerAcceptRejects,
                    request, taskAcceptRejects>>
    BY <1>9 DEF TaskTimesOut, TaskEnds, offerExpires, offerOutdated, brokerVars, requesterVars
  <2> QED  BY <2>1, SameAccepts
<1>10. CASE UNCHANGED vars
  BY <1>4, <1>10 DEF vars
<1> QED
  BY <1>1, <1>3, <1>5, <1>6, <1>7, <1>8, <1>9, <1>10, AcceptTimeoutAccepts DEF BrokerNext

\* The second layer holds throughout.
THEOREM AcceptInvariant == BrokerSpec => []AcceptInv
<1>1. BrokerInit => AcceptInv
  <2> SUFFICES ASSUME BrokerInit
               PROVE  AcceptInv
    OBVIOUS
  <2>1. Range(pendingTaskRequests) = {}
    BY NothingSent DEF BrokerInit
  <2> QED
    BY <2>1 DEF BrokerInit, AcceptInv, OneAcceptPerRequest, LeftoverIsInert, AwaitedOnce
<1>2. BrokerTypes /\ AcceptInv /\ [BrokerNext]_vars => AcceptInv'
  BY AcceptsStep
<1> QED  BY <1>1, <1>2, BrokerTypesInvariant, PTL DEF BrokerSpec

\* acceptOffer always finds its request pending: one runner at most is asked to
\* take it, whatever is rejected, deferred or answered late.
THEOREM OneAcceptPerRequestHolds == BrokerSpec => []OneAcceptPerRequest
<1>1. AcceptInv => OneAcceptPerRequest
  BY DEF AcceptInv
<1> QED  BY <1>1, AcceptInvariant, PTL

\* The second entry that a deferred request leaves behind is never paired.
THEOREM LeftoverIsInertHolds == BrokerSpec => []LeftoverIsInert
<1>1. AcceptInv => LeftoverIsInert
  BY DEF AcceptInv
<1> QED  BY <1>1, AcceptInvariant, PTL

-----------------------------------------------------------------------------
(* The third layer: the stages of an id                                    *)

\* A task that has received its settings.
started(t) == taskStatus[t] \notin {"waitingForSettings", "none"}

\* An id goes from stage to stage, and leaves the one it comes from: an offer
\* that arrives is pending or accepted, one that is accepted is no longer
\* pending, a task and its settings come from an accept that is over, and a task
\* starts by consuming its settings.
StageStep ==
    \A t \in Ids :
        /\ pending(t)' => pending(t) \/ (underWay(t) /\ ~underWay(t)')
        /\ accepting(t)' =>
              \/ accepting(t)
              \/ (pending(t) \/ (underWay(t) /\ ~underWay(t)')) /\ ~pending(t)'
        /\ tasks'[t] # NoTask => tasks[t] # NoTask \/ (accepting(t) /\ ~accepting(t)')
        /\ settingsSent(t)' => settingsSent(t) \/ (accepting(t) /\ ~accepting(t)')
        /\ started(t)' => started(t) \/ (settingsSent(t) /\ ~settingsSent(t)')

\* A free id is in no stage, and an offer is sent for a free id.
LEMMA StagesOfFree ==
    ASSUME BrokerTypes, NEW t \in free
    PROVE  /\ ~underWay(t) /\ ~pending(t) /\ ~accepting(t) /\ ~settingsSent(t)
           /\ tasks[t] = NoTask /\ taskStatus[t] = "none"
<1>0. t \in Ids /\ RunnerTypes
  BY TypesParts DEF free
<1>1. ~pending(t) /\ ~accepting(t) /\ tasks[t] = NoTask /\ t \notin runningTasks
  BY DEF free, pending, accepting
<1>2. taskStatus[t] = "none"
  BY <1>0, <1>1 DEF runningTasks
<1>3. ~underWay(t)
  BY DEF free, underWay
<1>4. ~settingsSent(t)
  BY DEF free, settingsSent, Settings
<1> QED  BY <1>1, <1>2, <1>3, <1>4

LEMMA OffersAreFree ==
    ASSUME ToBrokerStep, NEW t \in Ids, underWay(t)'
    PROVE  underWay(t) \/ t \in free
<1>1. runnerOf(t) \in Runners
  BY DEF Ids, runnerOf
<1> QED  BY <1>1 DEF underWay, ToBrokerStep

\* Steps of this form keep the stages apart.
LEMMA StageStepSuffices ==
    ASSUME BrokerTypes, StepTypes, BrokerTypes', StageInv, StageStep,
           Injective(pendingTaskOffers'), NoOrphanedRequest'
    PROVE  StageInv'
<1>1. ASSUME NEW t \in Ids
      PROVE  /\ underWay(t)' => underWay(t) \/ t \in free
             /\ t \in free => /\ ~underWay(t) /\ ~pending(t) /\ ~accepting(t)
                              /\ ~settingsSent(t) /\ tasks[t] = NoTask /\ ~started(t)
             /\ ~(underWay(t) /\ pending(t))
             /\ ~(underWay(t) /\ accepting(t))
             /\ ~(pending(t) /\ accepting(t))
             /\ underWay(t) \/ pending(t) \/ accepting(t) =>
                   tasks[t] = NoTask /\ ~started(t) /\ ~settingsSent(t)
             /\ pending(t)' => pending(t) \/ (underWay(t) /\ ~underWay(t)')
             /\ accepting(t)' =>
                   \/ accepting(t)
                   \/ (pending(t) \/ (underWay(t) /\ ~underWay(t)')) /\ ~pending(t)'
             /\ tasks'[t] # NoTask => tasks[t] # NoTask \/ (accepting(t) /\ ~accepting(t)')
             /\ settingsSent(t)' => settingsSent(t) \/ (accepting(t) /\ ~accepting(t)')
             /\ started(t)' => started(t) \/ (settingsSent(t) /\ ~settingsSent(t)')
  <2>1. underWay(t)' => underWay(t) \/ t \in free
    BY OffersAreFree DEF StepTypes
  <2>2. t \in free => /\ ~underWay(t) /\ ~pending(t) /\ ~accepting(t)
                      /\ ~settingsSent(t) /\ tasks[t] = NoTask /\ ~started(t)
    BY StagesOfFree DEF started
  <2>3. /\ ~(underWay(t) /\ pending(t))
        /\ ~(underWay(t) /\ accepting(t))
        /\ ~(pending(t) /\ accepting(t))
    BY DEF StageInv, OneStage
  <2>4. underWay(t) \/ pending(t) \/ accepting(t) =>
           tasks[t] = NoTask /\ ~started(t) /\ ~settingsSent(t)
    BY DEF StageInv, NotYetTask, started
  <2> QED  BY <2>1, <2>2, <2>3, <2>4 DEF StageStep
<1>2. OneStage'
  <2> SUFFICES ASSUME NEW t \in Ids
               PROVE  /\ ~(underWay(t)' /\ pending(t)')
                      /\ ~(underWay(t)' /\ accepting(t)')
                      /\ ~(pending(t)' /\ accepting(t)')
    BY DEF OneStage
  <2> QED  BY <1>1
<1>3. NotYetTask'
  <2> SUFFICES ASSUME NEW t \in Ids, underWay(t)' \/ pending(t)' \/ accepting(t)'
               PROVE  tasks'[t] = NoTask /\ ~started(t)' /\ ~settingsSent(t)'
    BY DEF NotYetTask, started
  <2> QED  BY <1>1
<1>4. ASSUME NEW x \in Runners
      PROVE  Once(toBroker'[x], Offers) /\ Once(toRunner'[x], Settings)
  <2>1. Once(toBroker'[x], Offers)
    BY DEF StageInv, NoRepeats, StepTypes, ToBrokerStep
  <2>2. ASSUME NEW m \in Range(toRunner[x]), m \in Settings
        PROVE  ~accepting(m.id)
    <3>1. m.id \in Ids /\ m.type # "registered"
      BY <2>2 DEF Settings, ToRunner
    <3>2. runnerOf(m.id) = x
      BY <3>1 DEF BrokerTypes, OwnMessages
    <3>3. settingsSent(m.id)
      BY <2>2, <3>2 DEF settingsSent
    <3> QED  BY <1>1, <3>1, <3>3
  <2>3. Once(toRunner[x], Settings)
    BY DEF StageInv, NoRepeats
  <2>4. Once(toRunner'[x], Settings)
    BY <2>2, <2>3 DEF StepTypes, ToRunnerStep
  <2> QED  BY <2>1, <2>4
<1>5. NoRepeats'
  BY <1>4 DEF NoRepeats, Injective
<1>6. SettingsExpected'
  <2> SUFFICES ASSUME NEW x \in Runners, NEW m \in Range(toRunner'[x]), m.type = "settings"
               PROVE  ~started(m.id)'
    BY DEF SettingsExpected, started
  <2>1. toRunner'[x] \in Seq(ToRunner)
    BY DEF StepTypes, ToRunnerStep
  <2>2. m \in ToRunner
    BY <2>1, InRange
  <2>3. m \in Settings /\ m.id \in Ids
    BY <2>2, MessageTypes
  <2>4. runnerOf(m.id) = x
    BY DEF BrokerTypes, OwnMessages
  <2>5. settingsSent(m.id)'
    BY <2>3, <2>4 DEF settingsSent
  <2>6. settingsSent(m.id) => ~started(m.id)
    <3> SUFFICES ASSUME settingsSent(m.id)
                 PROVE  ~started(m.id)
      OBVIOUS
    <3>1. PICK n \in Range(toRunner[x]) : n \in Settings /\ n.id = m.id
      BY <2>4 DEF settingsSent
    <3> QED  BY <3>1 DEF StageInv, SettingsExpected, Settings, started
  <2> QED  BY <1>1, <2>3, <2>5, <2>6
<1> QED  BY <1>2, <1>3, <1>5, <1>6 DEF StageInv

\* No settings are sent.
NoNewSettings ==
    \A x \in Runners : \A m \in Range(toRunner'[x]) :
        m \in Range(toRunner[x]) \/ m \notin Settings

\* Steps that begin no stage of the broker.
LEMMA QuietStages ==
    ASSUME NoNewSettings,
           Range(pendingTaskOffers') \subseteq Range(pendingTaskOffers),
           \A t \in Ids : /\ accepting(t)' => accepting(t)
                          /\ tasks'[t] # NoTask => tasks[t] # NoTask
                          /\ started(t)' => started(t) \/ (settingsSent(t) /\ ~settingsSent(t)')
    PROVE  StageStep
<1>1. ASSUME NEW t \in Ids
      PROVE  settingsSent(t)' => settingsSent(t)
  <2>1. runnerOf(t) \in Runners
    BY DEF Ids, runnerOf
  <2> QED  BY <2>1 DEF NoNewSettings, settingsSent
<1>2. \A t \in Ids : pending(t)' => pending(t)
  BY DEF pending
<1> QED  BY <1>1, <1>2 DEF StageStep

\* Handlers and timers of the runners.
LEMMA RunnerSide ==
    ASSUME StageInv, UNCHANGED <<brokerVars, requesterVars>>, NoNewSettings,
           \A t \in Ids : started(t)' => started(t) \/ (settingsSent(t) /\ ~settingsSent(t)')
    PROVE  StageStep /\ Injective(pendingTaskOffers') /\ NoOrphanedRequest'
<1>1. UNCHANGED <<knownRunners, pendingTaskOffers, runnerAcceptRejects, tasks, request,
                  taskAcceptRejects>>
  BY DEF brokerVars, requesterVars
<1>2. \A t \in Ids : (accepting(t)' => accepting(t)) /\ (tasks'[t] # NoTask => tasks[t] # NoTask)
  BY <1>1 DEF accepting
<1>3. StageStep
  BY <1>1, <1>2, QuietStages
<1>4. Injective(pendingTaskOffers') /\ NoOrphanedRequest'
  BY <1>1 DEF StageInv, NoRepeats, Injective, NoOrphanedRequest
<1> QED  BY <1>3, <1>4

\* The conclusions of RunnerSide.
StagesKept == StageStep /\ Injective(pendingTaskOffers') /\ NoOrphanedRequest'

LEMMA ReceivesStages ==
    ASSUME BrokerTypes, StageInv, NEW r \in Runners, RunnerReceives(r)
    PROVE  StagesKept
<1>0. RunnerTypes
  BY TypesParts
<1>1. UNCHANGED <<brokerVars, requesterVars>>
  BY DEF RunnerReceives
<1>2. NoNewSettings
  <2>1. \A x \in Runners : Range(toRunner'[x]) \subseteq Range(toRunner[x])
    BY Received DEF RunnerReceives, runnerRegistered, offerAccepted, taskCancelled,
                    receivedSettings
  <2> QED  BY <2>1 DEF NoNewSettings
<1>3. \A t \in Ids : started(t)' => started(t) \/ (settingsSent(t) /\ ~settingsSent(t)')
  <2>1. CASE runnerRegistered(r)
    BY <2>1 DEF runnerRegistered, started
  <2>2. CASE offerAccepted(r)
    <3> DEFINE id == Head(toRunner[r]).id
    <3>1. \/ taskStatus' = [taskStatus EXCEPT ![id] = "waitingForSettings"]
          \/ taskStatus' = taskStatus
      BY <2>2 DEF offerAccepted
    <3> HIDE DEF id
    <3> QED  BY <1>0, <3>1 DEF RunnerTypes, started
  <2>3. CASE taskCancelled(r, free)
    <3> DEFINE id == Head(toRunner[r]).id
    <3>1. \/ taskStatus' = [taskStatus EXCEPT ![id] = "none"]
          \/ /\ taskStatus[id] = "running"
             /\ taskStatus' = [taskStatus EXCEPT ![id] = "aborting:cancelled"]
          \/ taskStatus' = taskStatus
      <4>1. CASE taskStatus[id] = "waitingForSettings"
        BY <2>3, <4>1 DEF taskCancelled, finishTask
      <4>2. CASE taskStatus[id] = "running"
        BY <2>3, <4>2 DEF taskCancelled
      <4>3. CASE taskStatus[id] \notin {"waitingForSettings", "running"}
        BY <2>3, <4>3 DEF taskCancelled
      <4> QED  BY <4>1, <4>2, <4>3
    <3> HIDE DEF id
    <3> QED  BY <1>0, <3>1 DEF RunnerTypes, started
  <2>4. CASE receivedSettings(r)
    <3> DEFINE m == Head(toRunner[r])
    <3>1. /\ m \in ToRunner /\ m.type = "settings" /\ m.id \in Ids /\ runnerOf(m.id) = r
          /\ m \in Range(toRunner[r])
          /\ Once(toRunner[r], Settings) =>
                \A n \in Range(toRunner'[r]) : n \in Settings => n.id # m.id
      BY <2>4, Received DEF receivedSettings
    <3>2. \/ taskStatus' = [taskStatus EXCEPT ![m.id] = "running"]
          \/ taskStatus' = taskStatus
      BY <2>4 DEF receivedSettings
    <3>3. PICK id \in Ids : id = m.id
      BY <3>1
    <3> HIDE DEF m
    <3>4. settingsSent(id)
      BY <3>1, <3>3 DEF settingsSent, Settings
    <3>5. ~settingsSent(id)'
      BY <3>1, <3>3 DEF settingsSent, StageInv, NoRepeats
    <3>6. \A t \in Ids : t # id => taskStatus'[t] = taskStatus[t]
      BY <1>0, <3>2, <3>3 DEF RunnerTypes
    <3> QED  BY <3>4, <3>5, <3>6 DEF started
  <2> QED  BY <2>1, <2>2, <2>3, <2>4 DEF RunnerReceives
<1> QED  BY <1>1, <1>2, <1>3, RunnerSide DEF StagesKept

LEMMA GoneStages ==
    ASSUME BrokerTypes, NEW r \in Runners, gone(r)
    PROVE  NoNewSettings /\ \A t \in Ids : started(t)' => started(t)
<1>1. \A x \in Runners : Range(toRunner'[x]) \subseteq Range(toRunner[x])
  BY LostToRunner DEF gone
<1>2. \A t \in Ids : taskStatus'[t] \in {taskStatus[t], "none"}
  BY DEF gone
<1> QED  BY <1>1, <1>2 DEF NoNewSettings, started

LEMMA RunnerStages ==
    ASSUME BrokerTypes, StageInv, NEW r \in Runners,
           \/ launcherDefers(r) \/ RunnerOffers(r)
           \/ runnerStops(r) \/ RunnerCloses(r) \/ runnerGone(r)
    PROVE  StagesKept
<1>1. UNCHANGED <<brokerVars, requesterVars>>
  BY DEF launcherDefers, RunnerOffers, runnerStops, RunnerCloses, runnerGone
<1>2. NoNewSettings /\ \A t \in Ids : started(t)' => started(t)
  <2>1. CASE launcherDefers(r)
    <3>1. \A x \in Runners : Range(toRunner'[x]) \subseteq Range(toRunner[x])
      BY <2>1, Received DEF launcherDefers
    <3>2. UNCHANGED taskStatus
      BY <2>1 DEF launcherDefers
    <3> QED  BY <3>1, <3>2 DEF NoNewSettings, started
  <2>2. CASE RunnerOffers(r) \/ runnerStops(r)
    <3>1. UNCHANGED toRunner /\ UNCHANGED taskStatus
      BY <2>2 DEF RunnerOffers, offerInterval, runnerStops, stop
    <3> QED  BY <3>1 DEF NoNewSettings, started
  <2>3. CASE RunnerCloses(r) \/ runnerGone(r)
    BY <2>3, GoneStages DEF RunnerCloses, closeConnection, runnerGone
  <2> QED  BY <2>1, <2>2, <2>3
<1> QED  BY <1>1, <1>2, RunnerSide DEF StagesKept

LEMMA TaskStages ==
    ASSUME BrokerTypes, StageInv, NEW t \in Ids, TaskTimesOut(t) \/ TaskEnds(t)
    PROVE  StagesKept
<1>0. RunnerTypes
  BY TypesParts
<1>1. UNCHANGED <<brokerVars, requesterVars>> /\ UNCHANGED toRunner
  BY DEF TaskTimesOut, taskTimedOut, TaskEnds, taskExecutionEnds
<1>2. \/ taskStatus' = [taskStatus EXCEPT ![t] = "none"]
      \/ /\ taskStatus[t] = "running"
         /\ taskStatus' = [taskStatus EXCEPT ![t] = "aborting:timeout"]
  BY DEF TaskTimesOut, taskTimedOut, TaskEnds, taskExecutionEnds, finishTask
<1>3. \A u \in Ids : started(u)' => started(u)
  BY <1>0, <1>2 DEF RunnerTypes, started
<1>4. NoNewSettings
  BY <1>1 DEF NoNewSettings
<1> QED  BY <1>1, <1>3, <1>4, RunnerSide DEF StagesKept

LEMMA TimeStages ==
    ASSUME StageInv, NEW id \in Ids, offerExpires(id) \/ offerOutdated(id)
    PROVE  StagesKept
<1>1. /\ UNCHANGED <<knownRunners, pendingTaskOffers, runnerAcceptRejects, tasks, request,
                     taskAcceptRejects>>
      /\ UNCHANGED toRunner /\ UNCHANGED taskStatus
  BY DEF offerExpires, offerOutdated, runnerVars, channels, brokerVars, requesterVars
<1>2. StageStep
  <2>1. NoNewSettings
    BY <1>1 DEF NoNewSettings
  <2>2. \A t \in Ids : /\ accepting(t)' => accepting(t)
                       /\ tasks'[t] # NoTask => tasks[t] # NoTask
                       /\ started(t)' => started(t)
    BY <1>1 DEF accepting, started
  <2> QED  BY <1>1, <2>1, <2>2, QuietStages
<1>3. Injective(pendingTaskOffers') /\ NoOrphanedRequest'
  BY <1>1 DEF StageInv, NoRepeats, Injective, NoOrphanedRequest
<1> QED  BY <1>2, <1>3 DEF StagesKept

\* An accept that fails.
LEMMA RejectedStages ==
    ASSUME BrokerTypes, StageInv, NEW t \in Ids, acceptRejected(t),
           UNCHANGED <<knownRunners, pendingTaskOffers, tasks, request, taskAcceptRejects>>,
           UNCHANGED toRunner, UNCHANGED taskStatus
    PROVE  StagesKept
<1>0. BrokerVarTypes
  BY TypesParts
<1>1. NoNewSettings
  BY DEF NoNewSettings
<1>2. \A u \in Ids : accepting(u)' => accepting(u)
  BY <1>0 DEF BrokerVarTypes, acceptRejected, accepting
<1>3. \A u \in Ids : (tasks'[u] # NoTask => tasks[u] # NoTask) /\ (started(u)' => started(u))
  BY DEF started
<1>4. StageStep
  BY <1>1, <1>2, <1>3, QuietStages
<1>5. Injective(pendingTaskOffers') /\ NoOrphanedRequest'
  BY DEF StageInv, NoRepeats, Injective, NoOrphanedRequest
<1> QED  BY <1>4, <1>5 DEF StagesKept

LEMMA NotAcceptedStages ==
    ASSUME BrokerTypes, StageInv
    PROVE  /\ \A r \in Runners : handleRunnerReject(r) \/ handleRunnerDeferred(r) => StagesKept
           /\ \A t \in Ids : acceptTimeout(t) => StagesKept
<1>1. ASSUME NEW r \in Runners, handleRunnerReject(r) \/ handleRunnerDeferred(r)
      PROVE  StagesKept
  <2>1. Head(toBroker[r]).id \in Ids
    BY <1>1, Heard DEF handleRunnerReject, handleRunnerDeferred
  <2>2. /\ acceptRejected(Head(toBroker[r]).id)
        /\ UNCHANGED <<knownRunners, pendingTaskOffers, tasks, request, taskAcceptRejects>>
        /\ UNCHANGED toRunner /\ UNCHANGED taskStatus
    BY <1>1 DEF handleRunnerReject, handleRunnerDeferred, requesterVars, runnerVars
  <2> QED  BY <2>1, <2>2, RejectedStages
<1>2. ASSUME NEW t \in Ids, acceptTimeout(t)
      PROVE  StagesKept
  <2>1. /\ acceptRejected(t)
        /\ UNCHANGED <<knownRunners, pendingTaskOffers, tasks, request, taskAcceptRejects>>
        /\ UNCHANGED toRunner /\ UNCHANGED taskStatus
    BY <1>2 DEF acceptTimeout, requesterVars, runnerVars, channels
  <2> QED  BY <2>1, RejectedStages
<1> QED  BY <1>1, <1>2

\* settleTasks takes offers that are pending, or the one that has just arrived.
LEMMA SettleStages ==
    ASSUME BrokerTypes, NEW offers \in Seq(Ids), NEW requests \in Seq(Requests),
           settleTasks(offers, requests), Injective(offers),
           \A t \in Range(offers) : pending(t) \/ (underWay(t) /\ ~underWay(t)'),
           UNCHANGED <<tasks, taskStatus>>
    PROVE  StageStep /\ Injective(pendingTaskOffers')
<1>1. /\ Range(pendingTaskOffers') \subseteq Range(offers)
      /\ Injective(pendingTaskOffers')
      /\ \E A \in SUBSET Ids : Accepts(A, offers, requests)
  BY SettleTasks DEF BrokerTypes
<1>2. PICK A \in SUBSET Ids : Accepts(A, offers, requests)
  BY <1>1
<1>3. ASSUME NEW t \in Ids
      PROVE  /\ pending(t)' => pending(t) \/ (underWay(t) /\ ~underWay(t)')
             /\ accepting(t)' =>
                   \/ accepting(t)
                   \/ (pending(t) \/ (underWay(t) /\ ~underWay(t)')) /\ ~pending(t)'
             /\ tasks'[t] # NoTask => tasks[t] # NoTask
             /\ settingsSent(t)' => settingsSent(t)
             /\ started(t)' => started(t)
  <2>1. pending(t)' => t \in Range(offers)
    BY <1>1 DEF pending
  <2>2. accepting(t)' => accepting(t) \/ (t \in Range(offers) /\ ~pending(t)')
    BY <1>2 DEF Accepts, accepting, pending
  <2>3. settingsSent(t)' => settingsSent(t)
    <3>1. runnerOf(t) \in Runners
      BY DEF Ids, runnerOf
    <3>2. \A x \in Runners : \A m \in Range(toRunner'[x]) :
             m \in Range(toRunner[x]) \/ m.type = "offeraccept"
      BY Settled
    <3> QED  BY <3>1, <3>2 DEF settingsSent, Settings
  <2>4. (tasks'[t] # NoTask => tasks[t] # NoTask) /\ (started(t)' => started(t))
    BY DEF started
  <2> QED  BY <2>1, <2>2, <2>3, <2>4
<1> QED  BY <1>1, <1>3 DEF StageStep

LEMMA TaskRequestedStages ==
    ASSUME BrokerTypes, StageInv, NEW q \in Requests, taskRequested(q)
    PROVE  StagesKept
<1>0. BrokerVarTypes
  BY TypesParts
<1> DEFINE requests == Append(pendingTaskRequests, q)
<1>1. requests \in Seq(Requests) /\ pendingTaskOffers \in Seq(Ids)
  BY <1>0, RangeAppend DEF BrokerVarTypes
<1>2. /\ settleTasks(pendingTaskOffers, requests)
      /\ UNCHANGED <<tasks, taskStatus>> /\ UNCHANGED <<knownRunners, taskAcceptRejects>>
      /\ request' = [request EXCEPT ![q] = "requested"]
  BY DEF taskRequested, runnerVars
<1> HIDE DEF requests
<1>3. /\ Injective(pendingTaskOffers)
      /\ \A t \in Range(pendingTaskOffers) : pending(t)
  BY DEF StageInv, NoRepeats, Injective, pending
<1>4. StageStep /\ Injective(pendingTaskOffers')
  BY <1>1, <1>2, <1>3, SettleStages
<1>5. \A x \in Requests : request'[x] = "awaiting" => request[x] = "awaiting"
  BY <1>0, <1>2 DEF BrokerVarTypes
<1>6. NoOrphanedRequest'
  BY <1>2, <1>5 DEF StageInv, NoOrphanedRequest
<1> QED  BY <1>4, <1>6 DEF StagesKept

\* One more element that is not there yet.
LEMMA InjectiveAppend ==
    ASSUME NEW S, NEW s \in Seq(S), NEW e \in S, Injective(s), e \notin Range(s)
    PROVE  Injective(Append(s, e))
<1>1. /\ Len(s) \in Nat
      /\ Len(Append(s, e)) = Len(s) + 1
      /\ \A i \in 1..Len(s) : Append(s, e)[i] = s[i]
      /\ Append(s, e)[Len(s) + 1] = e
  BY AppendProperties, LenProperties
<1>2. \A i \in 1..Len(s) : s[i] # e
  BY InRange
<1>3. \A i : i \in 1..(Len(s) + 1) <=> (i \in 1..Len(s) \/ i = Len(s) + 1)
  BY <1>1
<1> QED  BY <1>1, <1>2, <1>3 DEF Injective

LEMMA TaskOfferedStages ==
    ASSUME BrokerTypes, StageInv, NEW r \in Runners, taskOffered(r)
    PROVE  StagesKept
<1>0. BrokerVarTypes
  BY TypesParts
<1>1. PICK id \in Ids : id = Head(toBroker[r]).id
  BY Heard DEF taskOffered
<1> DEFINE offers == Append(pendingTaskOffers, id)
<1>2. /\ settleTasks(offers, pendingTaskRequests)
      /\ UNCHANGED <<tasks, taskStatus>>
      /\ UNCHANGED <<knownRunners, request, taskAcceptRejects>>
  BY <1>1 DEF taskOffered, requesterVars, runnerVars
<1>3. /\ [type |-> "offer", id |-> id] \in Range(toBroker[r])
      /\ runnerOf(id) = r
      /\ Once(toBroker[r], Offers) => [type |-> "offer", id |-> id] \notin Range(toBroker'[r])
  BY <1>1, Heard DEF taskOffered
<1>4. underWay(id) /\ ~underWay(id)'
  BY <1>3 DEF underWay, StageInv, NoRepeats
<1>5. id \notin Range(pendingTaskOffers)
  BY <1>4 DEF StageInv, OneStage, pending
<1>6. Injective(pendingTaskOffers)
  BY DEF StageInv, NoRepeats, Injective
<1>7. /\ offers \in Seq(Ids)
      /\ Range(offers) = Range(pendingTaskOffers) \cup {id}
      /\ pendingTaskRequests \in Seq(Requests)
  BY <1>0, RangeAppend DEF BrokerVarTypes
<1>8. Injective(offers)
  BY <1>0, <1>5, <1>6, InjectiveAppend DEF BrokerVarTypes
<1> HIDE DEF offers
<1>9. \A t \in Range(offers) : pending(t) \/ (underWay(t) /\ ~underWay(t)')
  BY <1>4, <1>7 DEF pending
<1>10. StageStep /\ Injective(pendingTaskOffers')
  BY <1>2, <1>7, <1>8, <1>9, SettleStages
<1>11. NoOrphanedRequest'
  BY <1>2 DEF StageInv, NoOrphanedRequest
<1> QED  BY <1>10, <1>11 DEF StagesKept

\* An accept becomes a task that is awaited, of a runner that is known.
LEMMA HandleRunnerAcceptStages ==
    ASSUME BrokerTypes, AcceptInv, StageInv, NEW r \in Runners, handleRunnerAccept(r)
    PROVE  StagesKept
<1>0. BrokerVarTypes
  BY TypesParts
<1>1. PICK t \in Ids : t = Head(toBroker[r]).id
  BY Heard DEF handleRunnerAccept
<1> DEFINE q == runnerAcceptRejects[t]
<1>2. /\ q = NoRequest => UNCHANGED <<brokerVars, requesterVars, toRunner>>
      /\ q # NoRequest => HandlesAccept(r, t, q)
  BY <1>1, AcceptCases
<1>3. runnerOf(t) = r /\ r \in knownRunners
  BY <1>1, Heard DEF handleRunnerAccept
<1>4. UNCHANGED taskStatus
  BY DEF handleRunnerAccept, runnerVars
<1>5. CASE q = NoRequest
  <2>1. UNCHANGED <<brokerVars, requesterVars>> /\ UNCHANGED toRunner
    BY <1>2, <1>5
  <2>2. NoNewSettings /\ \A u \in Ids : started(u)' => started(u)
    BY <1>4, <2>1 DEF NoNewSettings, started
  <2> QED  BY <2>1, <2>2, RunnerSide DEF StagesKept
<1>6. CASE q # NoRequest
  <2>1. accepting(t) /\ HandlesAccept(r, t, runnerAcceptRejects[t])
    BY <1>2, <1>6 DEF accepting
  <2>2. PICK x \in Requests : x = q
    BY <2>1, ReadyAccept
  <2> DEFINE e == [type |-> "settings", id |-> t, request |-> x]
  <2>3. /\ request[x] = "requested"
        /\ runnerAcceptRejects' = [runnerAcceptRejects EXCEPT ![t] = NoRequest]
        /\ tasks' = [tasks EXCEPT ![t] = [request |-> x, timeout |-> TRUE]]
        /\ request' = [request EXCEPT ![x] = "awaiting"]
        /\ taskAcceptRejects' = [taskAcceptRejects EXCEPT ![t] = x]
        /\ messageRunner(r, e)
        /\ UNCHANGED <<knownRunners, pendingTaskOffers>>
    BY <2>1, <2>2, ReadyAccept
  <2>4. /\ ~accepting(t)'
        /\ \A u \in Ids : u # t => /\ accepting(u)' => accepting(u)
                                   /\ tasks'[u] = tasks[u]
                                   /\ taskAcceptRejects'[u] = taskAcceptRejects[u]
        /\ tasks'[t] = [request |-> x, timeout |-> TRUE]
        /\ taskAcceptRejects'[t] = x
    BY <1>0, <2>3 DEF BrokerVarTypes, accepting
  <2>5. \A u \in Ids : u # t => (settingsSent(u)' => settingsSent(u))
    <3>0. forAccept(e)
      BY <1>0, <2>1, <2>2, <2>3 DEF forAccept, BrokerVarTypes
    <3>1. e \in ToRunner /\ e.type = "settings" /\ e.id = t
      BY DEF ToRunner
    <3> HIDE DEF e
    <3>2. \A y \in Runners : Range(toRunner'[y]) \subseteq
             Range(toRunner[y]) \cup (IF y = r THEN {e} ELSE {})
      BY <1>3, <2>3, <3>0, <3>1, Messaged
    <3>3. \A u \in Ids : runnerOf(u) \in Runners
      BY DEF Ids, runnerOf
    <3> QED  BY <3>1, <3>2, <3>3 DEF settingsSent
  <2>6. StageStep
    <3>1. \A u \in Ids : (pending(u)' => pending(u)) /\ (started(u)' => started(u))
      BY <1>4, <2>3 DEF pending, started
    <3> QED  BY <2>1, <2>4, <2>5, <3>1 DEF StageStep
  <2>7. Injective(pendingTaskOffers')
    BY <2>3 DEF StageInv, NoRepeats, Injective
  <2>8. NoOrphanedRequest'
    <3>1. ASSUME NEW u \in Ids
          PROVE  /\ tasks'[u].request = taskAcceptRejects'[u]
                 /\ tasks'[u] # NoTask => runnerOf(u) \in knownRunners'
      <4>1. CASE u = t
        BY <1>3, <2>3, <2>4, <4>1
      <4>2. CASE u # t
        BY <2>3, <2>4, <4>2 DEF StageInv, NoOrphanedRequest
      <4> QED  BY <4>1, <4>2
    <3>2. ASSUME NEW y \in Requests, request'[y] = "awaiting"
          PROVE  \E u \in Ids : tasks'[u] = [request |-> y, timeout |-> TRUE]
      <4>1. CASE y = x
        BY <2>4, <4>1
      <4>2. CASE y # x
        <5>1. request[y] = "awaiting"
          BY <1>0, <2>3, <3>2, <4>2 DEF BrokerVarTypes
        <5>2. PICK u \in Ids : tasks[u] = [request |-> y, timeout |-> TRUE]
          BY <5>1 DEF StageInv, NoOrphanedRequest
        <5>3. tasks[t] = NoTask
          BY <2>1 DEF StageInv, NotYetTask
        <5>4. u # t
          BY <5>2, <5>3 DEF NoTask
        <5> QED  BY <2>4, <5>2, <5>4
      <4> QED  BY <4>1, <4>2
    <3> QED  BY <3>1, <3>2 DEF NoOrphanedRequest
  <2> QED  BY <2>6, <2>7, <2>8 DEF StagesKept
<1> QED  BY <1>5, <1>6

\* Results: whoever waits for a task of T is answered, and nobody else.
LEMMA SettleRequestsOrphans ==
    ASSUME BrokerTypes, StageInv, NEW T \in SUBSET Ids, NEW result \in {"ok", "error"},
           settleRequests(T, result),
           \A t \in Ids : tasks'[t] # NoTask /\ runnerOf(t) \in knownRunners
                             => runnerOf(t) \in knownRunners'
    PROVE  NoOrphanedRequest' /\ \A t \in Ids : tasks'[t] # NoTask => tasks[t] # NoTask
<1>0. BrokerVarTypes
  BY TypesParts
<1>1. /\ \A q \in Requests :
            request'[q] = IF \E t \in T : tasks[t] # NoTask /\ taskAcceptRejects[t] = q
                            THEN result ELSE request[q]
      /\ \A t \in Ids :
            taskAcceptRejects'[t] = IF t \in T /\ tasks[t] # NoTask
                                      THEN NoRequest ELSE taskAcceptRejects[t]
      /\ \A t \in Ids : tasks'[t] = IF t \in T THEN NoTask ELSE tasks[t]
  BY DEF settleRequests
<1>2. NoTask.request = NoRequest
  BY DEF NoTask
<1>3. ASSUME NEW t \in Ids
      PROVE  /\ tasks'[t].request = taskAcceptRejects'[t]
             /\ tasks'[t] # NoTask => runnerOf(t) \in knownRunners'
  <2>1. /\ tasks[t].request = taskAcceptRejects[t]
        /\ tasks[t] # NoTask => runnerOf(t) \in knownRunners
    BY DEF StageInv, NoOrphanedRequest
  <2> QED  BY <1>1, <1>2, <2>1
<1>4. ASSUME NEW q \in Requests, request'[q] = "awaiting"
      PROVE  \E t \in Ids : tasks'[t] = [request |-> q, timeout |-> TRUE]
  <2>1. /\ request[q] = "awaiting"
        /\ ~\E t \in T : tasks[t] # NoTask /\ taskAcceptRejects[t] = q
    BY <1>1, <1>4
  <2>2. PICK t \in Ids : tasks[t] = [request |-> q, timeout |-> TRUE]
    BY <2>1 DEF StageInv, NoOrphanedRequest
  <2>3. taskAcceptRejects[t] = q /\ tasks[t] # NoTask
    BY <2>2 DEF StageInv, NoOrphanedRequest, NoTask
  <2> QED  BY <1>1, <2>1, <2>2, <2>3
<1> QED  BY <1>1, <1>3, <1>4 DEF NoOrphanedRequest

\* The rest of a step that delivers results.
LEMMA SettleRequestsStages ==
    ASSUME StageInv, UNCHANGED <<pendingTaskOffers, runnerAcceptRejects>>, NoNewSettings,
           \A t \in Ids : (tasks'[t] # NoTask => tasks[t] # NoTask) /\ (started(t)' => started(t))
    PROVE  StageStep /\ Injective(pendingTaskOffers')
<1>1. \A t \in Ids : accepting(t)' => accepting(t)
  BY DEF accepting
<1>2. StageStep
  BY <1>1, QuietStages
<1> QED  BY <1>2 DEF StageInv, NoRepeats, Injective

LEMMA ResultStages ==
    ASSUME BrokerTypes, StageInv, NEW r \in Runners, taskDoneHandler(r) \/ taskErrorHandler(r)
    PROVE  StagesKept
<1>1. Head(toBroker[r]).id \in Ids
  BY Heard DEF taskDoneHandler, taskErrorHandler
<1>2. PICK result \in {"ok", "error"} : settleRequests({Head(toBroker[r]).id}, result)
  BY DEF taskDoneHandler, taskErrorHandler
<1>3. /\ UNCHANGED <<pendingTaskOffers, runnerAcceptRejects>> /\ UNCHANGED knownRunners
      /\ UNCHANGED toRunner /\ UNCHANGED taskStatus
  BY DEF taskDoneHandler, taskErrorHandler, runnerVars
<1>4. NoNewSettings /\ \A t \in Ids : started(t)' => started(t)
  BY <1>3 DEF NoNewSettings, started
<1>5. NoOrphanedRequest' /\ \A t \in Ids : tasks'[t] # NoTask => tasks[t] # NoTask
  BY <1>1, <1>2, <1>3, SettleRequestsOrphans
<1> QED  BY <1>3, <1>4, <1>5, SettleRequestsStages DEF StagesKept

LEMMA HandleTaskTimeoutStages ==
    ASSUME BrokerTypes, StageInv, NEW t \in Ids, handleTaskTimeout(t)
    PROVE  StagesKept
<1>1. /\ settleRequests({t}, "error")
      /\ UNCHANGED <<pendingTaskOffers, runnerAcceptRejects>> /\ UNCHANGED knownRunners
  BY DEF handleTaskTimeout
<1>2. NoNewSettings /\ \A u \in Ids : started(u)' => started(u)
  <2>1. CASE \E r \in Runners : gone(r)
    BY <2>1, GoneStages
  <2>2. CASE UNCHANGED <<runnerVars, channels>>
    BY <2>2 DEF runnerVars, channels, NoNewSettings, started
  <2>3. CASE /\ messageRunner(runnerOf(t), [type |-> "cancel", id |-> t])
             /\ UNCHANGED <<runnerVars, toBroker>>
    <3> DEFINE c == [type |-> "cancel", id |-> t]
    <3>1. c \in ToRunner /\ c.type = "cancel" /\ c.id = t /\ c \notin Settings
      BY DEF ToRunner, Settings
    <3>2. messageRunner(runnerOf(t), c) /\ runnerOf(t) \in Runners
      BY <2>3 DEF Ids, runnerOf
    <3> HIDE DEF c
    <3>3. \A x \in Runners : Range(toRunner'[x]) \subseteq
             Range(toRunner[x]) \cup (IF x = runnerOf(t) THEN {c} ELSE {})
      BY <3>1, <3>2, Messaged
    <3>4. NoNewSettings
      BY <3>1, <3>3 DEF NoNewSettings
    <3> QED  BY <2>3, <3>4 DEF runnerVars, started
  <2> QED  BY <2>1, <2>2, <2>3 DEF handleTaskTimeout
<1>3. NoOrphanedRequest' /\ \A u \in Ids : tasks'[u] # NoTask => tasks[u] # NoTask
  BY <1>1, SettleRequestsOrphans
<1> QED  BY <1>1, <1>2, <1>3, SettleRequestsStages DEF StagesKept

\* Connections: no task of a runner that is forgotten is left.
LEMMA DeregisterRunnerStages ==
    ASSUME BrokerTypes, StageInv, NEW r \in Runners, deregisterRunner(r)
    PROVE  StagesKept
<1> DEFINE T == ofRunner(r, {t \in Ids : tasks[t] # NoTask})
           P == {i \in 1..Len(pendingTaskOffers) : runnerOf(pendingTaskOffers[i]) # r}
<1>0. BrokerVarTypes
  BY TypesParts
<1>1. /\ settleRequests(T, "error")
      /\ knownRunners' = knownRunners \ {r}
      /\ pendingTaskOffers' = filter(pendingTaskOffers, P)
      /\ UNCHANGED runnerAcceptRejects /\ UNCHANGED toRunner /\ UNCHANGED taskStatus
  BY DEF deregisterRunner, runnerVars
<1>2. T \in SUBSET Ids /\ P \in SUBSET (1..Len(pendingTaskOffers))
  BY DEF ofRunner
<1>3. \A t \in Ids : tasks'[t] # NoTask /\ runnerOf(t) \in knownRunners
                        => runnerOf(t) \in knownRunners'
  <2>1. \A t \in Ids : tasks'[t] = IF t \in T THEN NoTask ELSE tasks[t]
    BY <1>1 DEF settleRequests
  <2>2. \A t \in Ids : tasks'[t] # NoTask => runnerOf(t) # r
    BY <2>1 DEF ofRunner
  <2> QED  BY <1>1, <2>2
<1> HIDE DEF T, P
<1>4. NoOrphanedRequest' /\ \A t \in Ids : tasks'[t] # NoTask => tasks[t] # NoTask
  BY <1>1, <1>2, <1>3, SettleRequestsOrphans
<1>5. /\ Range(pendingTaskOffers') \subseteq Range(pendingTaskOffers)
      /\ Injective(pendingTaskOffers')
  <2>1. Injective(pendingTaskOffers)
    BY DEF StageInv, NoRepeats, Injective
  <2> QED  BY <1>0, <1>1, <1>2, <2>1, FilterRange DEF BrokerVarTypes
<1>6. NoNewSettings /\ \A t \in Ids : /\ accepting(t)' => accepting(t)
                                      /\ started(t)' => started(t)
  BY <1>1 DEF NoNewSettings, accepting, started
<1>7. StageStep
  BY <1>4, <1>5, <1>6, QuietStages
<1> QED  BY <1>4, <1>5, <1>7 DEF StagesKept

LEMMA RegisterRunnerStages ==
    ASSUME BrokerTypes, StageInv, NEW r \in Runners, registerRunner(r)
    PROVE  StagesKept
<1> DEFINE e == [type |-> "registered"]
<1>1. /\ UNCHANGED <<pendingTaskOffers, runnerAcceptRejects, tasks, request, taskAcceptRejects>>
      /\ UNCHANGED taskStatus
      /\ knownRunners' = knownRunners \cup {r}
      /\ toRunner' = [toRunner EXCEPT ![r] = <<e>>]
  BY DEF registerRunner, requesterVars
<1>2. e \in ToRunner /\ e \notin Settings
  BY DEF ToRunner, Settings
<1> HIDE DEF e
<1>3. NoNewSettings
  <2>1. Range(<<e>>) = {e}
    BY <1>2, RangeSingleton
  <2>2. toRunner \in [Runners -> Seq(ToRunner)]
    BY TypesParts
  <2>3. toRunner'[r] = <<e>> /\ \A x \in Runners \ {r} : toRunner'[x] = toRunner[x]
    BY <1>1, <2>2
  <2> QED  BY <1>2, <2>1, <2>3 DEF NoNewSettings
<1>4. \A t \in Ids : (tasks'[t] # NoTask => tasks[t] # NoTask) /\ (started(t)' => started(t))
  BY <1>1 DEF started
<1>5. NoOrphanedRequest'
  BY <1>1 DEF StageInv, NoOrphanedRequest
<1> QED  BY <1>1, <1>3, <1>4, <1>5, SettleRequestsStages DEF StagesKept

\* Every step.
LEMMA StagesStep ==
    ASSUME BrokerTypes, CapacityInv, AcceptInv, StageInv, [BrokerNext]_vars
    PROVE  StageInv'
<1>1. ASSUME NEW q \in Requests, taskRequested(q)
      PROVE  StagesKept
  BY <1>1, TaskRequestedStages
<1>2. ASSUME NEW r \in Runners, RunnerMessage(r)
      PROVE  StagesKept
  BY <1>2, TaskOfferedStages, HandleRunnerAcceptStages, NotAcceptedStages, ResultStages
     DEF RunnerMessage
<1>3. ASSUME NEW r \in Runners,
             \/ RunnerReceives(r) \/ launcherDefers(r) \/ RunnerOffers(r)
             \/ registerRunner(r) \/ deregisterRunner(r)
             \/ runnerStops(r) \/ RunnerCloses(r) \/ runnerGone(r)
      PROVE  StagesKept
  BY <1>3, ReceivesStages, RunnerStages, RegisterRunnerStages, DeregisterRunnerStages
<1>4. ASSUME NEW id \in Ids,
             \/ acceptTimeout(id) \/ handleTaskTimeout(id)
             \/ TaskTimesOut(id) \/ TaskEnds(id)
             \/ offerExpires(id) \/ offerOutdated(id)
      PROVE  StagesKept
  BY <1>4, NotAcceptedStages, HandleTaskTimeoutStages, TaskStages, TimeStages
<1>5. ASSUME UNCHANGED vars
      PROVE  StagesKept
  <2>1. /\ UNCHANGED <<brokerVars, requesterVars>>
        /\ UNCHANGED toRunner /\ UNCHANGED taskStatus
    BY <1>5 DEF vars, channels, runnerVars
  <2>2. NoNewSettings /\ \A t \in Ids : started(t)' => started(t)
    BY <2>1 DEF NoNewSettings, started
  <2> QED  BY <2>1, <2>2, RunnerSide DEF StagesKept
<1>6. StagesKept
  BY <1>1, <1>2, <1>3, <1>4, <1>5 DEF BrokerNext
<1>7. StepTypes /\ BrokerTypes'
  BY TypesStep, StepTypesSuffice
<1> QED  BY <1>6, <1>7, StageStepSuffices DEF StagesKept

LEMMA StagesInit == BrokerInit => StageInv
<1> SUFFICES ASSUME BrokerInit
             PROVE  StageInv
  OBVIOUS
<1>1. Range(<<>>) = {} /\ Len(<<>>) = 0
  BY NothingSent, EmptySeq
<1>2. /\ \A t \in Ids : /\ runnerOf(t) \in Runners
                        /\ tasks[t] = NoTask /\ taskAcceptRejects[t] = NoRequest
      /\ \A r \in Runners : toBroker[r] = <<>> /\ toRunner[r] = <<>>
      /\ pendingTaskOffers = <<>>
      /\ \A t \in Ids : runnerAcceptRejects[t] = NoRequest
      /\ \A q \in Requests : request[q] = "idle"
  BY DEF BrokerInit, RunnerInit, Ids, runnerOf
<1>3. \A t \in Ids : ~underWay(t) /\ ~pending(t) /\ ~accepting(t)
  BY <1>1, <1>2 DEF underWay, pending, accepting
<1>4. OneStage /\ NotYetTask
  BY <1>3 DEF OneStage, NotYetTask
<1>5. NoRepeats /\ SettingsExpected
  BY <1>1, <1>2 DEF NoRepeats, Once, SettingsExpected
<1>6. NoOrphanedRequest
  <2>1. NoTask.request = NoRequest
    BY DEF NoTask
  <2> QED  BY <1>2, <2>1 DEF NoOrphanedRequest
<1> QED  BY <1>4, <1>5, <1>6 DEF StageInv

\* The third layer holds throughout.
THEOREM StageInvariant == BrokerSpec => []StageInv
<1>1. BrokerTypes /\ CapacityInv /\ AcceptInv /\ StageInv /\ [BrokerNext]_vars => StageInv'
  BY StagesStep
<1> QED
  BY <1>1, StagesInit, BrokerTypesInvariant, CapacityInvariant, AcceptInvariant, PTL
     DEF BrokerSpec

\* "These states should never happen": settings never reach a task that already
\* has its settings.
THEOREM SettingsExpectedHolds == BrokerSpec => []SettingsExpected
<1>1. StageInv => SettingsExpected
  BY DEF StageInv
<1> QED  BY <1>1, StageInvariant, PTL

\* startTask never waits for a task that the broker has forgotten.
THEOREM NoOrphanedRequestHolds == BrokerSpec => []NoOrphanedRequest
<1>1. StageInv => NoOrphanedRequest
  BY DEF StageInv
<1> QED  BY <1>1, StageInvariant, PTL

-----------------------------------------------------------------------------
(* No request is executed twice                                            *)

\* The inductive form of ExecutedOnce.
ExecutesInv ==
    \A q \in Requests :
        /\ request[q] \in {"idle", "requested"} => executes(q) = {}
        /\ \A t, u \in executes(q) : t = u

\* A task runs the request it was already to run, unless it is accepted for it
\* now; and no request goes back to waiting for a runner.
ExecutesStep ==
    \A q \in Requests :
        /\ request'[q] \in {"idle", "requested"} => request[q] \in {"idle", "requested"}
        /\ \A t \in executes(q)' :
              \/ t \in executes(q)
              \/ t \in Ids /\ runnerAcceptRejects[t] = q /\ request'[q] = "awaiting"

LEMMA ExecutesStepSuffices ==
    ASSUME AcceptInv, ExecutesInv, ExecutesStep
    PROVE  ExecutesInv'
<1> SUFFICES ASSUME NEW q \in Requests
             PROVE  /\ request'[q] \in {"idle", "requested"} => executes(q)' = {}
                    /\ \A t, u \in executes(q)' : t = u
  BY DEF ExecutesInv
<1>1. ASSUME NEW t \in Ids, runnerAcceptRejects[t] = q
      PROVE  request[q] = "requested" /\ \A u \in Ids : runnerAcceptRejects[u] = q => u = t
  BY <1>1, TaskRunnerAssumption DEF AcceptInv, OneAcceptPerRequest
<1>2. request'[q] \in {"idle", "requested"} => executes(q)' = {}
  BY DEF ExecutesInv, ExecutesStep
<1>3. ASSUME NEW t \in executes(q)', NEW u \in executes(q)'
      PROVE  t = u
  <2>1. CASE t \in executes(q) /\ u \in executes(q)
    BY <2>1 DEF ExecutesInv
  <2>2. CASE ~(t \in executes(q) /\ u \in executes(q))
    <3>1. request[q] = "requested"
      BY <1>1, <2>2 DEF ExecutesStep
    <3>2. executes(q) = {}
      BY <3>1 DEF ExecutesInv
    <3> QED  BY <1>1, <3>2 DEF ExecutesStep
  <2> QED  BY <2>1, <2>2
<1> QED  BY <1>2, <1>3

\* What a step may do to the settings of a running task and to a request.
SettingsStep ==
    \A t \in Ids :
        \/ settings'[t] \in {settings[t], NoRequest}
        \/ [type |-> "settings", id |-> t, request |-> settings'[t]]
              \in Range(toRunner[runnerOf(t)])

RequestStep ==
    \A q \in Requests :
        request'[q] \in {"idle", "requested"} => request[q] \in {"idle", "requested"}

LEMMA ExecutesFromParts ==
    ASSUME StepTypes, SettingsStep, RequestStep
    PROVE  ExecutesStep
<1> SUFFICES ASSUME NEW q \in Requests, NEW t \in executes(q)'
             PROVE  \/ t \in executes(q)
                    \/ t \in Ids /\ runnerAcceptRejects[t] = q /\ request'[q] = "awaiting"
  BY DEF ExecutesStep, RequestStep
<1> DEFINE m == [type |-> "settings", id |-> t, request |-> q]
<1>1. t \in Ids /\ (settings'[t] = q \/ m \in Range(toRunner'[runnerOf(t)]))
  BY DEF executes
<1>2. runnerOf(t) \in Runners
  BY <1>1 DEF Ids, runnerOf
<1>3. CASE settings'[t] = q
  BY <1>1, <1>3, TaskRunnerAssumption DEF SettingsStep, executes
<1>4. CASE m \in Range(toRunner'[runnerOf(t)])
  <2>1. m.type = "settings" /\ m.id = t /\ m.request = q
    OBVIOUS
  <2>2. m \in Range(toRunner[runnerOf(t)]) => t \in executes(q)
    BY <1>1 DEF executes
  <2> HIDE DEF m
  <2>3. m \in Range(toRunner[runnerOf(t)]) \/ forAccept(m)
    BY <1>2, <1>4, <2>1 DEF StepTypes, ToRunnerStep
  <2> QED  BY <1>1, <2>1, <2>2, <2>3 DEF forAccept
<1> QED  BY <1>1, <1>3, <1>4

LEMMA GoneSettings ==
    ASSUME NEW r, gone(r)
    PROVE  SettingsStep
  BY DEF gone, SettingsStep

LEMMA FinishSettings ==
    ASSUME BrokerTypes, NEW t \in Ids, NEW sent, finishTask(t, free, sent)
    PROVE  SettingsStep
<1>1. settings \in [Ids -> Requests \cup {NoRequest}]
  BY TypesParts DEF RunnerTypes
<1> QED  BY <1>1 DEF finishTask, SettingsStep

LEMMA SameSettings ==
    ASSUME UNCHANGED settings
    PROVE  SettingsStep
  BY DEF SettingsStep

LEMMA ReceivesSettings ==
    ASSUME BrokerTypes, NEW r \in Runners, RunnerReceives(r)
    PROVE  SettingsStep
<1>0. settings \in [Ids -> Requests \cup {NoRequest}]
  BY TypesParts DEF RunnerTypes
<1>1. CASE runnerRegistered(r) \/ offerAccepted(r)
  BY <1>1, SameSettings DEF runnerRegistered, offerAccepted
<1>2. CASE taskCancelled(r, free)
  <2> DEFINE t == Head(toRunner[r]).id
  <2>1. t \in Ids
    BY <1>2, Received DEF taskCancelled
  <2>2. CASE taskStatus[t] = "waitingForSettings"
    <3>1. finishTask(t, free, <<>>)
      BY <1>2, <2>2 DEF taskCancelled
    <3> HIDE DEF t
    <3> QED  BY <2>1, <3>1, FinishSettings
  <2>3. CASE taskStatus[t] = "running"
    BY <1>2, <2>3, SameSettings DEF taskCancelled
  <2>4. CASE taskStatus[t] \notin {"waitingForSettings", "running"}
    BY <1>2, <2>4, SameSettings DEF taskCancelled
  <2> QED  BY <2>2, <2>3, <2>4
<1>3. CASE receivedSettings(r)
  <2> DEFINE m == Head(toRunner[r])
  <2>1. /\ m \in ToRunner /\ m.type = "settings" /\ m.id \in Ids /\ runnerOf(m.id) = r
        /\ m \in Range(toRunner[r])
    BY <1>3, Received DEF receivedSettings
  <2>2. settings' = [settings EXCEPT ![m.id] = m.request] \/ UNCHANGED settings
    BY <1>3 DEF receivedSettings
  <2> HIDE DEF m
  <2>3. m = [type |-> "settings", id |-> m.id, request |-> m.request]
    BY <2>1 DEF ToRunner
  <2>4. CASE settings' = [settings EXCEPT ![m.id] = m.request]
    <3>1. settings'[m.id] = m.request /\ \A t \in Ids : t # m.id => settings'[t] = settings[t]
      BY <1>0, <2>1, <2>4
    <3> QED  BY <2>1, <2>3, <3>1 DEF SettingsStep
  <2> QED  BY <2>2, <2>4, SameSettings
<1> QED  BY <1>1, <1>2, <1>3 DEF RunnerReceives

\* Every step, as far as the settings of running tasks are concerned.
LEMMA SettingsKept ==
    ASSUME BrokerTypes, [BrokerNext]_vars
    PROVE  SettingsStep
<1>1. ASSUME NEW q \in Requests, taskRequested(q)
      PROVE  SettingsStep
  BY <1>1, SameSettings DEF taskRequested, runnerVars
<1>2. ASSUME NEW r \in Runners, RunnerMessage(r)
      PROVE  SettingsStep
  <2>1. UNCHANGED settings
    BY <1>2 DEF RunnerMessage, taskOffered, handleRunnerAccept, handleRunnerReject,
                handleRunnerDeferred, taskDoneHandler, taskErrorHandler, runnerVars
  <2> QED  BY <2>1, SameSettings
<1>3. ASSUME NEW r \in Runners,
             \/ launcherDefers(r) \/ RunnerOffers(r)
             \/ registerRunner(r) \/ deregisterRunner(r) \/ runnerStops(r)
      PROVE  SettingsStep
  <2>1. UNCHANGED settings
    BY <1>3 DEF launcherDefers, RunnerOffers, offerInterval, registerRunner,
                deregisterRunner, runnerStops, stop, runnerVars
  <2> QED  BY <2>1, SameSettings
<1>4. ASSUME NEW r \in Runners, RunnerReceives(r) \/ RunnerCloses(r) \/ runnerGone(r)
      PROVE  SettingsStep
  BY <1>4, ReceivesSettings, GoneSettings DEF RunnerCloses, closeConnection, runnerGone
<1>5. ASSUME NEW t \in Ids, handleTaskTimeout(t)
      PROVE  SettingsStep
  <2>1. (\E r \in Runners : gone(r)) \/ UNCHANGED settings
    BY <1>5 DEF handleTaskTimeout, runnerVars
  <2> QED  BY <2>1, GoneSettings, SameSettings
<1>6. ASSUME NEW t \in Ids, TaskTimesOut(t) \/ TaskEnds(t)
      PROVE  SettingsStep
  <2>1. (\E sent : finishTask(t, free, sent)) \/ UNCHANGED settings
    BY <1>6 DEF TaskTimesOut, taskTimedOut, TaskEnds, taskExecutionEnds
  <2> QED  BY <2>1, FinishSettings, SameSettings
<1>7. ASSUME NEW id \in Ids, acceptTimeout(id) \/ offerExpires(id) \/ offerOutdated(id)
      PROVE  SettingsStep
  <2>1. UNCHANGED settings
    BY <1>7 DEF acceptTimeout, offerExpires, offerOutdated, runnerVars
  <2> QED  BY <2>1, SameSettings
<1>8. CASE UNCHANGED vars
  BY <1>8, SameSettings DEF vars, runnerVars
<1> QED  BY <1>1, <1>2, <1>3, <1>4, <1>5, <1>6, <1>7, <1>8 DEF BrokerNext

LEMMA SameRequests ==
    ASSUME UNCHANGED request
    PROVE  RequestStep
  BY DEF RequestStep

LEMMA SettledRequests ==
    ASSUME NEW T, NEW result \in {"ok", "error"}, settleRequests(T, result)
    PROVE  RequestStep
  BY DEF settleRequests, RequestStep

\* Every step, as far as the requests are concerned.
LEMMA RequestsKept ==
    ASSUME BrokerTypes, [BrokerNext]_vars
    PROVE  RequestStep
<1>0. request \in [Requests -> {"idle", "requested", "awaiting", "ok", "error"}]
  BY TypesParts DEF BrokerVarTypes
<1>1. ASSUME NEW q \in Requests, taskRequested(q)
      PROVE  RequestStep
  BY <1>0, <1>1 DEF taskRequested, RequestStep
<1>2. ASSUME NEW r \in Runners, handleRunnerAccept(r)
      PROVE  RequestStep
  <2> DEFINE t == Head(toBroker[r]).id
             q == runnerAcceptRejects[t]
  <2>1. request' = request \/ request' = [request EXCEPT ![q] = "awaiting"]
    BY <1>2, AcceptCases DEF HandlesAccept, requesterVars
  <2> HIDE DEF q
  <2> QED  BY <1>0, <2>1 DEF RequestStep
<1>3. ASSUME NEW r \in Runners,
             \/ taskOffered(r) \/ handleRunnerReject(r) \/ handleRunnerDeferred(r)
             \/ RunnerReceives(r) \/ launcherDefers(r) \/ RunnerOffers(r)
             \/ registerRunner(r) \/ runnerStops(r) \/ RunnerCloses(r) \/ runnerGone(r)
      PROVE  RequestStep
  <2>1. UNCHANGED request
    BY <1>3 DEF taskOffered, handleRunnerReject, handleRunnerDeferred, RunnerReceives,
                launcherDefers, RunnerOffers, registerRunner, runnerStops, RunnerCloses,
                runnerGone, requesterVars
  <2> QED  BY <2>1, SameRequests
<1>4. ASSUME NEW r \in Runners,
             taskDoneHandler(r) \/ taskErrorHandler(r) \/ deregisterRunner(r)
      PROVE  RequestStep
  <2>1. \E T : \E result \in {"ok", "error"} : settleRequests(T, result)
    BY <1>4 DEF taskDoneHandler, taskErrorHandler, deregisterRunner
  <2> QED  BY <2>1, SettledRequests
<1>5. ASSUME NEW t \in Ids, handleTaskTimeout(t)
      PROVE  RequestStep
  BY <1>5, SettledRequests DEF handleTaskTimeout
<1>6. ASSUME NEW id \in Ids,
             \/ acceptTimeout(id) \/ TaskTimesOut(id) \/ TaskEnds(id)
             \/ offerExpires(id) \/ offerOutdated(id)
      PROVE  RequestStep
  <2>1. UNCHANGED request
    BY <1>6 DEF acceptTimeout, TaskTimesOut, TaskEnds, offerExpires, offerOutdated,
                requesterVars
  <2> QED  BY <2>1, SameRequests
<1>7. CASE UNCHANGED vars
  BY <1>7, SameRequests DEF vars, requesterVars
<1> QED
  BY <1>1, <1>2, <1>3, <1>4, <1>5, <1>6, <1>7 DEF BrokerNext, RunnerMessage

\* A request is executed by one task at most, and by none as long as it waits for
\* a runner, through timeouts, rejections, deferrals, disconnects and restarts.
THEOREM ExecutedOnceHolds == BrokerSpec => []ExecutedOnce
<1>1. BrokerInit => ExecutesInv
  <2> SUFFICES ASSUME BrokerInit, NEW q \in Requests
               PROVE  executes(q) = {}
    BY DEF ExecutesInv
  <2>1. \A t \in Ids : /\ settings[t] = NoRequest
                       /\ toRunner[runnerOf(t)] = <<>>
    BY DEF BrokerInit, RunnerInit, Ids, runnerOf
  <2> QED  BY <2>1, NothingSent, TaskRunnerAssumption DEF executes
<1>2. BrokerTypes /\ CapacityInv /\ AcceptInv /\ ExecutesInv /\ [BrokerNext]_vars => ExecutesInv'
  BY TypesStep, SettingsKept, RequestsKept, ExecutesFromParts, ExecutesStepSuffices
<1>3. ExecutesInv => ExecutedOnce
  <2> SUFFICES ASSUME ExecutesInv, NEW q \in Requests
               PROVE  Cardinality(executes(q)) <= 1
    BY DEF ExecutesInv, ExecutedOnce
  <2>1. CASE executes(q) = {}
    BY <2>1, FS_EmptySet
  <2>2. CASE executes(q) # {}
    <3>1. PICK t : t \in executes(q)
      BY <2>2
    <3>2. executes(q) = {t}
      BY <3>1 DEF ExecutesInv
    <3>3. Cardinality({t}) = 1
      BY FS_Singleton
    <3> QED  BY <3>2, <3>3
  <2> QED  BY <2>1, <2>2
<1> QED
  BY <1>1, <1>2, <1>3, BrokerTypesInvariant, CapacityInvariant, AcceptInvariant, PTL
     DEF BrokerSpec

=============================================================================
