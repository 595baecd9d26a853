-------------------------- MODULE WorkflowEngineProofs --------------------------
(***************************************************************************)
(* The engine, for every workflow: its types, that no node is left that    *)
(* may run, that sources name the data they came with, that merges do not  *)
(* run early, and that nothing is lost.                                    *)
(***************************************************************************)
EXTENDS WorkflowEngine, SequenceFacts

-----------------------------------------------------------------------------
(* The workflow                                                            *)

Connection == [from : wf.nodes, output : Nat, to : wf.nodes, input : Nat]

\* What EngineAssumption says of the workflow that is run.
LEMMA WorkflowFacts ==
    ASSUME wf \in Workflows
    PROVE  /\ wf.nodes \subseteq Nat \ {0} /\ IsFiniteSet(wf.nodes) /\ 1 \in wf.nodes
           /\ wf.conns \in Seq(Connection)
           /\ \A c \in Range(wf.conns) :
                 /\ c \in Connection /\ c.from \in wf.nodes /\ c.to \in wf.nodes
                 /\ c.output \in Nat /\ c.input \in Nat /\ c.to # 1
<1>1. /\ wf.nodes \subseteq Nat \ {0} /\ IsFiniteSet(wf.nodes) /\ 1 \in wf.nodes
      /\ wf.conns \in Seq(Connection)
      /\ \A c \in Range(wf.conns) : c.to # 1
  BY EngineAssumption DEF Connection
<1>2. Range(wf.conns) \subseteq Connection
  BY <1>1, InRange
<1> QED  BY <1>1, <1>2 DEF Connection

\* There are finitely many connections.
LEMMA ConnectionsFinite ==
    ASSUME wf \in Workflows
    PROVE  IsFiniteSet(Range(wf.conns))
<1>1. wf.conns \in Seq(Connection)
  BY WorkflowFacts
<1>2. DOMAIN wf.conns = 1..Len(wf.conns) /\ Len(wf.conns) \in Nat
  BY <1>1, LenProperties
<1> DEFINE R == Range(wf.conns)
           f == [i \in 1..Len(wf.conns) |-> wf.conns[i]]
<1>3. f \in Surjection(1..Len(wf.conns), R)
  <2>1. f \in [1..Len(wf.conns) -> R]
    BY <1>2 DEF Range
  <2>2. \A r \in R : \E i \in 1..Len(wf.conns) : f[i] = r
    BY <1>2 DEF Range
  <2> QED  BY <2>1, <2>2 DEF Surjection
<1>4. IsFiniteSet(1..Len(wf.conns))
  BY <1>2, FS_Interval
<1> QED  BY <1>3, <1>4, FS_Surjection

\* The number of inputs of a node, and the input of a connection.
LEMMA InputCount ==
    ASSUME wf \in Workflows
    PROVE  /\ \A n : inputCount(n) \in Nat \ {0}
           /\ \A c \in Range(wf.conns) : c.input + 1 \in 1..inputCount(c.to)
           /\ inputCount(1) = 1
<1>1. ASSUME NEW n
      PROVE  /\ inputCount(n) \in Nat \ {0}
             /\ \A c \in Range(wf.conns) : c.to = n => c.input + 1 \in 1..inputCount(n)
             /\ n = 1 => inputCount(n) = 1
  <2> DEFINE C == connsTo(n)
             I == {c.input : c \in C}
             J == I \cup {0}
  <2>1. C \subseteq Range(wf.conns)
    BY DEF connsTo
  <2>2. IsFiniteSet(C)
    BY <2>1, ConnectionsFinite, FS_Subset
  <2>3. IsFiniteSet(I)
    <3> DEFINE f == [c \in C |-> c.input]
    <3>1. f \in Surjection(C, I)
      BY DEF Surjection
    <3> QED  BY <2>2, <3>1, FS_Surjection
  <2>4. J \in SUBSET Nat /\ J # {}
    BY <2>1, WorkflowFacts
  <2>5. IsFiniteSet(J)
    BY <2>3, FS_AddElement
  <2> HIDE DEF J
  <2>6. PICK m : m = Max(J) /\ m \in J /\ m \in Nat /\ \A y \in J : y <= m
    <3>1. Max(J) \in J /\ \A y \in J : y <= Max(J)
      BY <2>4, <2>5, MaxProperties
    <3> QED  BY <2>4, <3>1
  <2>7. inputCount(n) = 1 + m
    BY <2>6 DEF inputCount, J
  <2>8. inputCount(n) \in Nat \ {0}
    BY <2>6, <2>7
  <2>9. ASSUME NEW c \in Range(wf.conns), c.to = n
        PROVE  c.input + 1 \in 1..inputCount(n)
    <3>1. c.input \in J /\ c.input \in Nat
      BY <2>9, WorkflowFacts DEF J, connsTo
    <3> QED  BY <2>6, <2>7, <3>1
  <2>10. ASSUME n = 1
         PROVE  inputCount(n) = 1
    <3>1. J = {0}
      BY <2>10, WorkflowFacts DEF J, connsTo
    <3> QED  BY <2>6, <2>7, <3>1
  <2> QED  BY <2>8, <2>9, <2>10
<1> QED  BY <1>1

\* The connections to add are finitely many.
LEMMA NodesToAdd ==
    ASSUME wf \in Workflows, NEW n, NEW out
    PROVE  /\ nodesToAdd(n, out) \subseteq Range(wf.conns)
           /\ IsFiniteSet(nodesToAdd(n, out))
           /\ \A c \in nodesToAdd(n, out) : c.from = n /\ c.output \in out
<1>1. nodesToAdd(n, out) \subseteq Range(wf.conns)
  BY DEF nodesToAdd
<1>2. IsFiniteSet(nodesToAdd(n, out))
  BY <1>1, ConnectionsFinite, FS_Subset
<1> QED  BY <1>1, <1>2 DEF nodesToAdd

-----------------------------------------------------------------------------
(* The loop over nodesToAdd                                                *)

\* Among connections of one node there is one that sorts before the others.
LEMMA NextToAdd ==
    ASSUME wf \in Workflows, NEW T \in SUBSET Range(wf.conns), T # {},
           \A c \in T : \A d \in T : c.from = d.from
    PROVE  nextToAdd(T) \in T
<1> DEFINE N == {c.to : c \in T}
<1>0. IsFiniteSet(T)
  BY ConnectionsFinite, FS_Subset
<1>1. IsFiniteSet(N)
  <2> DEFINE f == [c \in T |-> c.to]
  <2>1. f \in Surjection(T, N)
    BY DEF Surjection
  <2> QED  BY <1>0, <2>1, FS_Surjection
<1>2. N \in SUBSET Nat /\ N # {}
  BY WorkflowFacts
<1>3. PICK to \in N : \A y \in N : y <= to
  <2> HIDE DEF N
  <2> QED  BY <1>1, <1>2, MaxProperties
<1> DEFINE O == {c.output : c \in {d \in T : d.to = to}}
<1>4. O \in SUBSET Nat /\ O # {}
  BY <1>3, WorkflowFacts
<1>5. PICK output \in O : \A y \in O : output <= y
  <2> HIDE DEF O
  <2> QED  BY <1>4, MinProperties
<1> DEFINE I == {c.input : c \in {d \in T : d.to = to /\ d.output = output}}
<1>6. I \in SUBSET Nat /\ I # {}
  BY <1>5, WorkflowFacts
<1>7. PICK input \in I : \A y \in I : input <= y
  <2> HIDE DEF I
  <2> QED  BY <1>6, MinProperties
<1>8. PICK c \in T : c.to = to /\ c.output = output /\ c.input = input
  BY <1>7
<1>9. ASSUME NEW d \in T
      PROVE  c = d \/ sortsBefore(c, d)
  <2>1. /\ c.to \in Nat /\ d.to \in Nat /\ c.output \in Nat /\ d.output \in Nat
        /\ c.input \in Nat /\ d.input \in Nat /\ c \in Connection /\ d \in Connection
        /\ c.from = d.from
    BY WorkflowFacts
  <2>2. d.to <= c.to
    BY <1>3, <1>8
  <2>3. d.to = c.to => c.output <= d.output
    BY <1>5, <1>8
  <2>4. d.to = c.to /\ d.output = c.output => c.input <= d.input
    BY <1>7, <1>8
  <2> HIDE DEF N, O, I
  <2>5. ~sortsBefore(c, d) => c.to = d.to /\ c.output = d.output /\ c.input = d.input
    BY <2>1, <2>2, <2>3, <2>4 DEF sortsBefore
  <2>6. c.to = d.to /\ c.output = d.output /\ c.input = d.input => c = d
    BY <2>1 DEF Connection
  <2> QED  BY <2>5, <2>6
<1> QED  BY <1>8, <1>9 DEF nextToAdd

\* One round of the loop.
addOne(p) ==
    LET c == nextToAdd(p.todo)
    IN  [state |-> addNodeToBeExecuted(p.state, c), todo |-> p.todo \ {c}]

\* The recursive function of the loop is what its definition says.
LEMMA AddedUnfolds ==
    ASSUME NEW x, NEW conns, IsFiniteSet(conns)
    PROVE  /\ added(x, conns)[0] = [state |-> x, todo |-> conns]
           /\ \A k \in 1..Cardinality(conns) :
                 added(x, conns)[k] = addOne(added(x, conns)[k - 1])
<1> DEFINE start == [state |-> x, todo |-> conns]
           Is(f, n) == f = [k \in 0..n |-> IF k = 0 THEN start ELSE addOne(f[k - 1])]
           Bad == {n \in Nat : ~\E f : Is(f, n)}
<1>0. Cardinality(conns) \in Nat
  BY FS_CardinalityType
<1>1. Bad = {}
  <2>1. SUFFICES ASSUME Bad # {}
                 PROVE  FALSE
    OBVIOUS
  <2>2. PICK n \in Bad : \A m \in Bad : n <= m
    <3>1. Bad \in SUBSET Nat
      OBVIOUS
    <3> HIDE DEF Bad
    <3> QED  BY <2>1, <3>1, LeastNumber
  <2>3. CASE n = 0
    <3> DEFINE f == [k \in 0..0 |-> start]
    <3>1. Is(f, 0)
      OBVIOUS
    <3> HIDE DEF f, Is
    <3> QED  BY <2>2, <2>3, <3>1
  <2>4. CASE n # 0
    <3>0. n \in Nat
      BY <2>2
    <3>1. n - 1 \in Nat /\ n \in Nat /\ n - 1 \notin Bad
      <4> HIDE DEF Bad
      <4> QED  BY <2>2, <2>4, <3>0
    <3>2. PICK g : Is(g, n - 1)
      BY <3>1
    <3> HIDE DEF Bad, start
    <3> DEFINE f == [k \in 0..n |-> IF k = n THEN addOne(g[n - 1]) ELSE g[k]]
    <3>3. \A k \in 0..(n - 1) : g[k] = IF k = 0 THEN start ELSE addOne(g[k - 1])
      BY <3>2
    <3>4. ASSUME NEW k \in 0..n
          PROVE  f[k] = IF k = 0 THEN start ELSE addOne(f[k - 1])
      <4>1. CASE k = n
        <5>1. n - 1 \in 0..n /\ n - 1 # n
          BY <3>1
        <5>2. f[n - 1] = g[n - 1] /\ f[n] = addOne(g[n - 1])
          BY <3>1, <5>1
        <5> QED  BY <2>4, <4>1, <5>2
      <4>2. CASE k # n
        <5>1. k \in 0..(n - 1)
          BY <3>1, <4>2
        <5>2. f[k] = g[k]
          BY <4>2
        <5>3. k # 0 => k - 1 \in 0..n /\ k - 1 # n
          BY <3>1
        <5>4. k # 0 => f[k - 1] = g[k - 1]
          BY <5>3
        <5> QED  BY <3>3, <5>1, <5>2, <5>4
      <4> QED  BY <4>1, <4>2
    <3>5. Is(f, n)
      <4>1. f = [k \in 0..n |-> f[k]]
        OBVIOUS
      <4> HIDE DEF f
      <4> QED  BY <3>4, <4>1
    <3> HIDE DEF f, Is
    <3> QED  BY <2>2, <3>5 DEF Bad
  <2> QED  BY <2>3, <2>4
<1>2. \E f : Is(f, Cardinality(conns))
  <2> HIDE DEF Is
  <2> QED  BY <1>0, <1>1
<1>3. added(x, conns) = CHOOSE f : Is(f, Cardinality(conns))
  BY DEF added, addOne
<1> DEFINE a == CHOOSE f : Is(f, Cardinality(conns))
<1>4. Is(a, Cardinality(conns))
  <2> HIDE DEF Is
  <2> QED  BY <1>2
<1> HIDE DEF a, start
<1>5. \A k \in 0..Cardinality(conns) : a[k] = IF k = 0 THEN start ELSE addOne(a[k - 1])
  BY <1>4
<1>6. a[0] = start /\ \A k \in 1..Cardinality(conns) : a[k] = addOne(a[k - 1])
  BY <1>0, <1>5
<1> QED  BY <1>3, <1>6 DEF a, start

\* The loop handles each of the connections once.
LEMMA AddedSteps ==
    ASSUME wf \in Workflows, NEW x, NEW conns \in SUBSET Range(wf.conns),
           \A c \in conns : \A d \in conns : c.from = d.from
    PROVE  /\ Cardinality(conns) \in Nat
           /\ added(x, conns)[0].state = x /\ added(x, conns)[0].todo = conns
           /\ \A k \in 1..Cardinality(conns) :
                 \E c \in added(x, conns)[k - 1].todo :
                    /\ added(x, conns)[k].state =
                          addNodeToBeExecuted(added(x, conns)[k - 1].state, c)
                    /\ added(x, conns)[k].todo = added(x, conns)[k - 1].todo \ {c}
           /\ \A k \in 0..Cardinality(conns) : added(x, conns)[k].todo \subseteq conns
           /\ added(x, conns)[Cardinality(conns)].todo = {}
           /\ addNodes(x, conns) = added(x, conns)[Cardinality(conns)].state
<1> DEFINE a == added(x, conns)
           N == Cardinality(conns)
<1>0. IsFiniteSet(conns)
  BY ConnectionsFinite, FS_Subset
<1>1. N \in Nat
  BY <1>0, FS_CardinalityType
<1>2. a[0] = [state |-> x, todo |-> conns] /\ \A k \in 1..N : a[k] = addOne(a[k - 1])
  BY <1>0, AddedUnfolds
<1>3. a[0].state = x /\ a[0].todo = conns
  BY <1>2
<1>4. addNodes(x, conns) = a[N].state
  BY DEF addNodes
<1> HIDE DEF a, N
<1>5. ASSUME NEW k \in 1..N, a[k - 1].todo \subseteq conns, a[k - 1].todo # {}
      PROVE  \E c \in a[k - 1].todo :
                /\ a[k].state = addNodeToBeExecuted(a[k - 1].state, c)
                /\ a[k].todo = a[k - 1].todo \ {c}
  <2>1. nextToAdd(a[k - 1].todo) \in a[k - 1].todo
    <3>1. \A c \in a[k - 1].todo : \A d \in a[k - 1].todo : c.from = d.from
      BY <1>5
    <3>2. a[k - 1].todo \in SUBSET Range(wf.conns)
      BY <1>5
    <3> QED  BY <1>5, <3>1, <3>2, NextToAdd
  <2>2. a[k] = addOne(a[k - 1])
    BY <1>2
  <2> QED  BY <2>1, <2>2 DEF addOne
<1> DEFINE Good(k) == /\ a[k].todo \subseteq conns /\ IsFiniteSet(a[k].todo)
                      /\ Cardinality(a[k].todo) = N - k
           Bad == {k \in 0..N : ~Good(k)}
<1>6. ASSUME NEW k \in 1..N, Good(k - 1)
      PROVE  a[k - 1].todo # {} /\ Good(k)
  <2>1. a[k - 1].todo # {}
    <3>1. N - (k - 1) # 0
      BY <1>1
    <3> QED  BY <1>6, <3>1, FS_EmptySet
  <2>2. PICK c \in a[k - 1].todo : a[k].todo = a[k - 1].todo \ {c}
    BY <1>5, <1>6, <2>1
  <2>3. IsFiniteSet(a[k].todo) /\ Cardinality(a[k].todo) = Cardinality(a[k - 1].todo) - 1
    <3>1. PICK T : T = a[k - 1].todo
      OBVIOUS
    <3>2. IsFiniteSet(T) /\ c \in T
      BY <1>6, <2>2, <3>1
    <3>3. IsFiniteSet(T \ {c}) /\ Cardinality(T \ {c}) = Cardinality(T) - 1
      BY <3>2, FS_RemoveElement
    <3> QED  BY <2>2, <3>1, <3>3
  <2>4. N - (k - 1) - 1 = N - k
    BY <1>1
  <2> QED  BY <1>6, <2>1, <2>2, <2>3, <2>4
<1>7. Good(0)
  <2>1. N - 0 = N
    BY <1>1
  <2> QED  BY <1>0, <1>3, <2>1 DEF N
<1>8. Bad = {}
  <2>1. SUFFICES ASSUME Bad # {}
                 PROVE  FALSE
    OBVIOUS
  <2> HIDE DEF Good
  <2>2. PICK k \in Bad : \A m \in Bad : k <= m
    <3>1. Bad \in SUBSET Nat
      BY <1>1
    <3> HIDE DEF Bad
    <3> QED  BY <2>1, <3>1, LeastNumber
  <2>3. k \in 0..N /\ ~Good(k)
    BY <2>2
  <2>4. k # 0
    BY <1>7, <2>3
  <2>5. k \in 1..N /\ k - 1 \in 0..N /\ ~(k <= k - 1)
    BY <1>1, <2>3, <2>4
  <2>6. Good(k - 1)
    BY <2>2, <2>5
  <2> QED  BY <1>6, <2>3, <2>5, <2>6
<1>9. \A k \in 0..N : Good(k)
  <2> HIDE DEF Good
  <2> QED  BY <1>8
<1>10. a[N].todo = {}
  <2>1. N \in 0..N /\ N - N = 0
    BY <1>1
  <2> QED  BY <1>9, <2>1, FS_EmptySet
<1>11. ASSUME NEW k \in 1..N
       PROVE  \E c \in a[k - 1].todo :
                 /\ a[k].state = addNodeToBeExecuted(a[k - 1].state, c)
                 /\ a[k].todo = a[k - 1].todo \ {c}
  <2>1. k - 1 \in 0..N
    BY <1>1
  <2>2. Good(k - 1)
    BY <1>9, <2>1
  <2>3. a[k - 1].todo # {}
    BY <1>6, <2>2
  <2> QED  BY <1>5, <2>2, <2>3
<1> QED  BY <1>1, <1>3, <1>4, <1>9, <1>10, <1>11 DEF a, N

-----------------------------------------------------------------------------
(* The loop over the waiting nodes                                         *)

\* One round: nothing once a node is on the stack or none may run.
round(x) == IF x.stack # <<>> \/ readyNodes(x) = {} THEN x ELSE runFirstReady(x)

\* The recursive function of the loop is what its definition says.
LEMMA RoundsUnfold ==
    ASSUME NEW x, Cardinality(entriesOf(x.waiting)) \in Nat
    PROVE  /\ rounds(x)[0] = x
           /\ \A k \in 1..Cardinality(entriesOf(x.waiting)) :
                 rounds(x)[k] = round(rounds(x)[k - 1])
<1> DEFINE N == Cardinality(entriesOf(x.waiting))
           Is(f, n) == f = [k \in 0..n |-> IF k = 0 THEN x ELSE round(f[k - 1])]
           Bad == {n \in Nat : ~\E f : Is(f, n)}
<1>1. Bad = {}
  <2>1. SUFFICES ASSUME Bad # {}
                 PROVE  FALSE
    OBVIOUS
  <2>2. PICK n \in Bad : \A m \in Bad : n <= m
    <3>1. Bad \in SUBSET Nat
      OBVIOUS
    <3> HIDE DEF Bad
    <3> QED  BY <2>1, <3>1, LeastNumber
  <2>3. CASE n = 0
    <3> DEFINE f == [k \in 0..0 |-> x]
    <3>1. Is(f, 0)
      OBVIOUS
    <3> HIDE DEF f, Is
    <3> QED  BY <2>2, <2>3, <3>1
  <2>4. CASE n # 0
    <3>0. n \in Nat
      BY <2>2
    <3>1. n - 1 \in Nat /\ n \in Nat /\ n - 1 \notin Bad
      <4> HIDE DEF Bad
      <4> QED  BY <2>2, <2>4, <3>0
    <3>2. PICK g : Is(g, n - 1)
      BY <3>1
    <3> HIDE DEF Bad
    <3> DEFINE f == [k \in 0..n |-> IF k = n THEN round(g[n - 1]) ELSE g[k]]
    <3>3. \A k \in 0..(n - 1) : g[k] = IF k = 0 THEN x ELSE round(g[k - 1])
      BY <3>2
    <3>4. ASSUME NEW k \in 0..n
          PROVE  f[k] = IF k = 0 THEN x ELSE round(f[k - 1])
      <4>1. CASE k = n
        <5>1. n - 1 \in 0..n /\ n - 1 # n
          BY <3>1
        <5>2. f[n - 1] = g[n - 1] /\ f[n] = round(g[n - 1])
          BY <3>1, <5>1
        <5> QED  BY <2>4, <4>1, <5>2
      <4>2. CASE k # n
        <5>1. k \in 0..(n - 1)
          BY <3>1, <4>2
        <5>2. f[k] = g[k]
          BY <4>2
        <5>3. k # 0 => k - 1 \in 0..n /\ k - 1 # n
          BY <3>1
        <5>4. k # 0 => f[k - 1] = g[k - 1]
          BY <5>3
        <5> QED  BY <3>3, <5>1, <5>2, <5>4
      <4> QED  BY <4>1, <4>2
    <3>5. Is(f, n)
      <4>1. f = [k \in 0..n |-> f[k]]
        OBVIOUS
      <4> HIDE DEF f
      <4> QED  BY <3>4, <4>1
    <3> HIDE DEF f, Is
    <3> QED  BY <2>2, <3>5 DEF Bad
  <2> QED  BY <2>3, <2>4
<1>2. \E f : Is(f, N)
  <2> HIDE DEF Is
  <2> QED  BY <1>1
<1>3. rounds(x) = CHOOSE f : Is(f, N)
  BY DEF rounds, round
<1> DEFINE a == CHOOSE f : Is(f, N)
<1>4. Is(a, N)
  <2> HIDE DEF Is
  <2> QED  BY <1>2
<1>5. N \in Nat
  OBVIOUS
<1> HIDE DEF a, N
<1>6. \A k \in 0..N : a[k] = IF k = 0 THEN x ELSE round(a[k - 1])
  BY <1>4
<1>7. a[0] = x /\ \A k \in 1..N : a[k] = round(a[k - 1])
  BY <1>5, <1>6
<1> QED  BY <1>3, <1>7 DEF a, N

-----------------------------------------------------------------------------
(* Well-formed states of the stack and of what waits, before any partial   *)
(* execution                                                               *)

Data    == [node : Nat, serial : Nat, output : Nat]
Sources == [node : Nat, run : Nat, output : Nat]

\* Data that a node emitted.
emitted(d) == hasItems(d) /\ d # StartData

\* There is a source for each datum that a node emitted.
sourced(main, source) == \A i \in DOMAIN main : emitted(main[i]) => i \in DOMAIN source

\* Items of the stack: one place for each input of the node.
Items ==
    {t \in [node : wf.nodes, disabled : BOOLEAN, main : Seq(Data), source : Seq(Sources)] :
        Len(t.main) = inputCount(t.node) /\ sourced(t.main, t.source)}

\* Entries of a node: no data or data that a node emitted on each input, with its source,
\* and data on some input.
EntriesFor(n) ==
    {e \in [main : Seq(Data), source : Seq(Sources)] :
        /\ Len(e.main) = inputCount(n) /\ Len(e.source) = inputCount(n)
        /\ \A i \in 1..inputCount(n) : e.main[i] = Null \/ e.main[i].node # 0
        /\ \E i \in 1..inputCount(n) : e.main[i] # Null}

\* The entries of a node, none if it does not wait.
entriesAt(w, n) == IF n \in DOMAIN w THEN w[n] ELSE << >>

\* Node n has an entry with index i.
waits(w, n, i) == n \in DOMAIN w /\ i \in DOMAIN w[n]

WaitingOK(w) ==
    \A n \in DOMAIN w :
        /\ n \in wf.nodes /\ inputCount(n) > 1
        /\ DOMAIN w[n] \in SUBSET Nat /\ DOMAIN w[n] # {} /\ IsFiniteSet(DOMAIN w[n])
        /\ \A i \in DOMAIN w[n] : w[n][i] \in EntriesFor(n)

KeysOK(keys, w) == keys \in Seq(wf.nodes) /\ IsInjective(keys) /\ Range(keys) = DOMAIN w

ExecOK(x) ==
    /\ x = [stack |-> x.stack, waiting |-> x.waiting, keys |-> x.keys, outOfTurn |-> x.outOfTurn]
    /\ x.stack \in Seq(Items)
    /\ WaitingOK(x.waiting)
    /\ KeysOK(x.keys, x.waiting)
    /\ x.outOfTurn \in BOOLEAN

\* Assigning within the array.
LEMMA AssignWithin ==
    ASSUME NEW S, NEW s \in Seq(S), NEW i \in 1..Len(s), NEW v \in S, NEW filler
    PROVE  /\ assign(s, i, v, filler) \in Seq(S)
           /\ Len(assign(s, i, v, filler)) = Len(s)
           /\ \A k \in 1..Len(s) : assign(s, i, v, filler)[k] = IF k = i THEN v ELSE s[k]
<1>1. Len(s) \in Nat /\ \A k \in 1..Len(s) : s[k] \in S
  BY LenProperties, ElementOfSeq
<1> DEFINE f == [k \in 1..Len(s) |-> IF k = i THEN v ELSE s[k]]
<1>2. assign(s, i, v, filler) = f
  <2>1. ~(i > Len(s)) /\ \A k \in 1..Len(s) : ~(k > Len(s))
    BY <1>1
  <2> QED  BY <2>1 DEF assign
<1>3. f \in [1..Len(s) -> S]
  BY <1>1
<1>4. \A k \in 1..Len(s) : f[k] = IF k = i THEN v ELSE s[k]
  OBVIOUS
<1> HIDE DEF f
<1>5. f \in Seq(S) /\ Len(f) = Len(s)
  BY <1>1, <1>3, FunctionIsSequence
<1> QED  BY <1>2, <1>4, <1>5

\* u is w with entry i of node n added or replaced.
EntryPut(w, n, i, e, u) ==
    /\ WaitingOK(u) /\ DOMAIN u = DOMAIN w \cup {n}
    /\ \A m, j : waits(u, m, j) <=> waits(w, m, j) \/ (m = n /\ j = i)
    /\ \A m, j : waits(u, m, j) => u[m][j] = IF m = n /\ j = i THEN e ELSE w[m][j]

LEMMA PutEntry ==
    ASSUME NEW w, WaitingOK(w), NEW n \in wf.nodes, inputCount(n) > 1, NEW i \in Nat,
           NEW e \in EntriesFor(n),
           NEW u, u = put(w, n, put(entriesAt(w, n), i, e))
    PROVE  EntryPut(w, n, i, e, u)
<1>1. PICK old : old = entriesAt(w, n)
  OBVIOUS
<1>2. PICK new : new = put(old, i, e)
  OBVIOUS
<1>3. /\ DOMAIN old \in SUBSET Nat /\ IsFiniteSet(DOMAIN old)
      /\ \A j \in DOMAIN old : n \in DOMAIN w /\ j \in DOMAIN w[n] /\ old[j] = w[n][j]
      /\ n \in DOMAIN w => DOMAIN old = DOMAIN w[n]
  <2>1. CASE n \in DOMAIN w
    BY <1>1, <2>1 DEF WaitingOK, entriesAt
  <2>2. CASE n \notin DOMAIN w
    <3>1. DOMAIN old = {}
      BY <1>1, <2>2 DEF entriesAt
    <3> QED  BY <2>2, <3>1, FS_EmptySet
  <2> QED  BY <2>1, <2>2
<1>4. /\ DOMAIN new = DOMAIN old \cup {i}
      /\ new[i] = e
      /\ \A j \in DOMAIN old : j # i => new[j] = old[j]
  BY <1>2 DEF put
<1>5. /\ DOMAIN u = DOMAIN w \cup {n}
      /\ u[n] = new
      /\ \A m \in DOMAIN w : m # n => u[m] = w[m]
  BY <1>1, <1>2 DEF put
<1>6. \A m, j : waits(u, m, j) <=> waits(w, m, j) \/ (m = n /\ j = i)
  BY <1>3, <1>4, <1>5 DEF waits
<1>7. \A m, j : waits(u, m, j) => u[m][j] = IF m = n /\ j = i THEN e ELSE w[m][j]
  BY <1>3, <1>4, <1>5 DEF waits
<1>8. ASSUME NEW m \in DOMAIN u
      PROVE  /\ m \in wf.nodes /\ inputCount(m) > 1
             /\ DOMAIN u[m] \in SUBSET Nat /\ DOMAIN u[m] # {} /\ IsFiniteSet(DOMAIN u[m])
             /\ \A j \in DOMAIN u[m] : u[m][j] \in EntriesFor(m)
  <2>1. CASE m = n
    <3>1. IsFiniteSet(DOMAIN u[m])
      <4>1. IsFiniteSet(DOMAIN old \cup {i})
        BY <1>3, FS_AddElement
      <4> QED  BY <1>4, <1>5, <2>1, <4>1
    <3>2. \A j \in DOMAIN u[m] : u[m][j] \in EntriesFor(m)
      BY <1>3, <1>4, <1>5, <2>1 DEF WaitingOK
    <3> QED  BY <1>3, <1>4, <1>5, <2>1, <3>1, <3>2
  <2>2. CASE m # n
    <3>1. m \in DOMAIN w /\ u[m] = w[m]
      BY <1>5, <2>2
    <3> QED  BY <3>1 DEF WaitingOK
  <2> QED  BY <2>1, <2>2
<1> QED  BY <1>5, <1>6, <1>7, <1>8 DEF WaitingOK, EntryPut

\* The nodes that wait when an entry was added.
LEMMA PutKey ==
    ASSUME NEW keys, NEW w, KeysOK(keys, w), NEW n \in wf.nodes, NEW u,
           DOMAIN u = DOMAIN w \cup {n}
    PROVE  KeysOK(IF Contains(keys, n) THEN keys ELSE Append(keys, n), u)
<1>1. /\ keys \in Seq(wf.nodes) /\ IsInjective(keys) /\ Range(keys) = DOMAIN w
      /\ Len(keys) \in Nat /\ DOMAIN keys = 1..Len(keys)
  BY LenProperties DEF KeysOK
<1>2. Contains(keys, n) <=> n \in Range(keys)
  BY <1>1, InRange DEF Contains
<1>3. CASE Contains(keys, n)
  BY <1>1, <1>2, <1>3 DEF KeysOK
<1>4. CASE ~Contains(keys, n)
  <2>1. PICK new : new = Append(keys, n)
    OBVIOUS
  <2>2. /\ new \in Seq(wf.nodes) /\ Len(new) = Len(keys) + 1
        /\ \A k \in 1..Len(keys) : new[k] = keys[k]
        /\ new[Len(keys) + 1] = n
        /\ Range(new) = Range(keys) \cup {n}
    BY <1>1, <2>1, AppendProperties, RangeAppend
  <2>3. DOMAIN new = 1..(Len(keys) + 1)
    BY <2>2, LenProperties
  <2>4. ASSUME NEW a \in DOMAIN new, NEW b \in DOMAIN new, new[a] = new[b]
        PROVE  a = b
    <3>1. \A k \in 1..Len(keys) : keys[k] # n
      BY <1>4 DEF Contains
    <3>2. (a \in 1..Len(keys) \/ a = Len(keys) + 1) /\ (b \in 1..Len(keys) \/ b = Len(keys) + 1)
      BY <1>1, <2>3
    <3> QED  BY <1>1, <2>2, <2>4, <3>1, <3>2 DEF IsInjective
  <2> QED  BY <1>1, <1>4, <2>1, <2>2, <2>4 DEF KeysOK, IsInjective
<1> QED  BY <1>3, <1>4

\* Removing an entry, and the node with its last entry.
LEMMA RemoveEntry ==
    ASSUME NEW x, ExecOK(x), NEW n, NEW i, waits(x.waiting, n, i),
           NEW r, r = removeWaiting(x, n, i)
    PROVE  /\ ExecOK(r) /\ r.stack = x.stack /\ r.outOfTurn = x.outOfTurn
           /\ \A m, j : waits(r.waiting, m, j) <=> waits(x.waiting, m, j) /\ ~(m = n /\ j = i)
           /\ \A m, j : waits(r.waiting, m, j) => r.waiting[m][j] = x.waiting[m][j]
<1>1. PICK st, w, keys, late :
         /\ x = [stack |-> st, waiting |-> w, keys |-> keys, outOfTurn |-> late]
         /\ x.stack = st /\ x.waiting = w /\ x.keys = keys /\ x.outOfTurn = late
  BY DEF ExecOK
<1>2. /\ st \in Seq(Items) /\ WaitingOK(w) /\ KeysOK(keys, w) /\ late \in BOOLEAN
      /\ n \in DOMAIN w /\ i \in DOMAIN w[n]
  BY <1>1 DEF ExecOK, waits
<1>3. CASE DOMAIN w[n] = {i}
  <2>1. PICK new, left : new = removeKey(w, n) /\ left = RemoveFirst(keys, n)
    OBVIOUS
  <2>2. r = [stack |-> st, waiting |-> new, keys |-> left, outOfTurn |-> late]
    BY <1>1, <1>3, <2>1 DEF removeWaiting
  <2>3. /\ r.stack = st /\ r.waiting = new /\ r.keys = left /\ r.outOfTurn = late
    BY <2>2
  <2>4. DOMAIN new = DOMAIN w \ {n} /\ \A m \in DOMAIN w \ {n} : new[m] = w[m]
    BY <2>1 DEF removeKey
  <2>5. KeysOK(left, new)
    BY <1>2, <2>1, <2>4, RemoveKeyFacts DEF KeysOK
  <2>6. WaitingOK(new)
    BY <1>2, <2>4 DEF WaitingOK
  <2>7. \A m, j : waits(new, m, j) <=> waits(w, m, j) /\ ~(m = n /\ j = i)
    BY <1>3, <2>4 DEF waits
  <2>8. \A m, j : waits(new, m, j) => new[m][j] = w[m][j]
    BY <2>4 DEF waits
  <2> QED  BY <1>1, <1>2, <2>2, <2>3, <2>5, <2>6, <2>7, <2>8 DEF ExecOK
<1>4. CASE DOMAIN w[n] # {i}
  <2>1. PICK rest, new : rest = removeKey(w[n], i) /\ new = put(w, n, rest)
    OBVIOUS
  <2>2. r = [stack |-> st, waiting |-> new, keys |-> keys, outOfTurn |-> late]
    BY <1>1, <1>4, <2>1 DEF removeWaiting
  <2>3. /\ r.stack = st /\ r.waiting = new /\ r.keys = keys /\ r.outOfTurn = late
    BY <2>2
  <2>4. DOMAIN rest = DOMAIN w[n] \ {i} /\ \A j \in DOMAIN rest : rest[j] = w[n][j]
    BY <2>1 DEF removeKey
  <2>5. DOMAIN new = DOMAIN w /\ new[n] = rest /\ \A m \in DOMAIN w : m # n => new[m] = w[m]
    BY <1>2, <2>1 DEF put
  <2>6. ASSUME NEW m \in DOMAIN new
        PROVE  /\ m \in wf.nodes /\ inputCount(m) > 1
               /\ DOMAIN new[m] \in SUBSET Nat /\ DOMAIN new[m] # {}
               /\ IsFiniteSet(DOMAIN new[m])
               /\ \A j \in DOMAIN new[m] : new[m][j] \in EntriesFor(m)
    <3>1. CASE m = n
      <4>1. IsFiniteSet(DOMAIN rest)
        BY <1>2, <2>4, FS_RemoveElement DEF WaitingOK
      <4> QED  BY <1>2, <1>4, <2>4, <2>5, <3>1, <4>1 DEF WaitingOK
    <3>2. CASE m # n
      BY <1>2, <2>5, <3>2 DEF WaitingOK
    <3> QED  BY <3>1, <3>2
  <2>7. \A m, j : waits(new, m, j) <=> waits(w, m, j) /\ ~(m = n /\ j = i)
    BY <1>2, <2>4, <2>5 DEF waits
  <2>8. \A m, j : waits(new, m, j) => new[m][j] = w[m][j]
    BY <2>4, <2>5 DEF waits
  <2>9. KeysOK(keys, new)
    BY <1>2, <2>5 DEF KeysOK
  <2> QED  BY <1>1, <1>2, <2>2, <2>3, <2>6, <2>7, <2>8, <2>9 DEF ExecOK, WaitingOK
<1> QED  BY <1>3, <1>4

-----------------------------------------------------------------------------
(* addNodeToBeExecuted                                                     *)

\* What is delivered over the connection.
datumOf(c) == Datum(c.from, serial, c.output)

\* Tasks are counted.
Counted == serial \in Nat /\ \A n \in wf.nodes : Len(runData[n]) \in Nat

\* r differs from x by an item before the stack, and by what waits.
pushes(x, r, t) == t \in Items /\ r.stack = <<t>> \o x.stack

\* A node with one input goes to the stack.
Pushed(x, c, r) ==
    \E t \in Items :
        /\ inputCount(c.to) = 1 /\ t.node = c.to
        /\ t.main[1] = datumOf(c) /\ 1 \in DOMAIN t.source
        /\ t.source[1] = sourceOf(c.from, c.output)
        /\ pushes(x, r, t)
        /\ r.waiting = x.waiting /\ r.keys = x.keys /\ r.outOfTurn = x.outOfTurn

\* main and source are those of entry i of c.to, the first without data on the input,
\* with what is delivered.
filledAt(x, c, i, main, source) ==
    LET old == x.waiting[c.to][i]
    IN  /\ inputCount(c.to) > 1
        /\ waits(x.waiting, c.to, i) /\ old.main[c.input + 1] = Null
        /\ \A j : waits(x.waiting, c.to, j) /\ j < i =>
              x.waiting[c.to][j].main[c.input + 1] # Null
        /\ \A k \in 1..inputCount(c.to) :
              /\ main[k] = IF k = c.input + 1 THEN datumOf(c) ELSE old.main[k]
              /\ source[k] = IF k = c.input + 1 THEN sourceOf(c.from, c.output)
                                                ELSE old.source[k]

\* The entry still waits.
Filled(x, c, r) ==
    \E i \in Nat : \E e \in EntriesFor(c.to) :
        /\ filledAt(x, c, i, e.main, e.source)
        /\ r.stack = x.stack /\ r.outOfTurn = x.outOfTurn
        /\ \A m, j : waits(r.waiting, m, j) <=> waits(x.waiting, m, j)
        /\ \A m, j : waits(r.waiting, m, j) =>
              r.waiting[m][j] = IF m = c.to /\ j = i THEN e ELSE x.waiting[m][j]

\* The entry is complete and goes to the stack.
Completed(x, c, r) ==
    \E i \in Nat : \E t \in Items :
        /\ t.node = c.to /\ DOMAIN t.source = 1..inputCount(c.to)
        /\ filledAt(x, c, i, t.main, t.source)
        /\ pushes(x, r, t) /\ r.outOfTurn = x.outOfTurn
        /\ \A m, j : waits(r.waiting, m, j) <=> waits(x.waiting, m, j) /\ ~(m = c.to /\ j = i)
        /\ \A m, j : waits(r.waiting, m, j) => r.waiting[m][j] = x.waiting[m][j]

\* All entries have data on the input, and another one is made.
Opened(x, c, r) ==
    \E i \in Nat : \E e \in EntriesFor(c.to) :
        /\ inputCount(c.to) > 1
        /\ \A j : waits(x.waiting, c.to, j) => x.waiting[c.to][j].main[c.input + 1] # Null
        /\ \A k \in 1..inputCount(c.to) :
              /\ e.main[k] = IF k = c.input + 1 THEN datumOf(c) ELSE Null
              /\ k = c.input + 1 => e.source[k] = sourceOf(c.from, c.output)
        /\ r.stack = x.stack
        /\ x.outOfTurn => r.outOfTurn
        /\ ~r.outOfTurn => \A j : waits(x.waiting, c.to, j) => j < i
        /\ \A m, j : waits(r.waiting, m, j) <=> waits(x.waiting, m, j) \/ (m = c.to /\ j = i)
        /\ \A m, j : waits(r.waiting, m, j) =>
              r.waiting[m][j] = IF m = c.to /\ j = i THEN e ELSE x.waiting[m][j]

\* The data and the source that are delivered.
LEMMA Delivered ==
    ASSUME wf \in Workflows, Counted, NEW c \in Range(wf.conns)
    PROVE  /\ datumOf(c) \in Data /\ datumOf(c).node = c.from /\ datumOf(c).node # 0
           /\ datumOf(c).serial = serial /\ datumOf(c).output = c.output
           /\ datumOf(c) # Null
           /\ sourceOf(c.from, c.output) \in Sources
<1>1. c.from \in wf.nodes /\ c.from \in Nat \ {0} /\ c.output \in Nat
  BY WorkflowFacts
<1>2. serial \in Nat /\ Len(runData[c.from]) + 1 \in Nat
  BY <1>1 DEF Counted
<1> QED  BY <1>1, <1>2 DEF datumOf, Datum, Data, Null, sourceOf, Source, Sources

\* A node with one input.
LEMMA AddOneInput ==
    ASSUME wf \in Workflows, Counted, NEW x, ExecOK(x), NEW c \in Range(wf.conns),
           inputCount(c.to) = 1, NEW r, r = addNodeToBeExecuted(x, c)
    PROVE  ExecOK(r) /\ Pushed(x, c, r)
<1>1. PICK st, w, keys, late :
         /\ x = [stack |-> st, waiting |-> w, keys |-> keys, outOfTurn |-> late]
         /\ x.stack = st /\ x.waiting = w /\ x.keys = keys /\ x.outOfTurn = late
  BY DEF ExecOK
<1>2. PICK main, source : main = <<datumOf(c)>> /\ source = <<sourceOf(c.from, c.output)>>
  OBVIOUS
<1>3. PICK t : t = item(c.to, main, source)
  OBVIOUS
<1>4. /\ main \in Seq(Data) /\ Len(main) = 1 /\ main[1] = datumOf(c)
      /\ source \in Seq(Sources) /\ Len(source) = 1
      /\ source[1] = sourceOf(c.from, c.output)
  BY <1>2, Delivered, RangeSingleton
<1>5. 1 \in DOMAIN source
  BY <1>4, LenProperties
<1>6. t.node = c.to /\ t.main = main /\ t.source = source
  BY <1>3 DEF item
<1>7. t \in Items
  <2>1. c.to \in wf.nodes
    BY WorkflowFacts
  <2>2. t \in [node : wf.nodes, disabled : BOOLEAN, main : Seq(Data), source : Seq(Sources)]
    BY <1>3, <1>4, <2>1 DEF item
  <2>3. sourced(main, source)
    BY <1>4, <1>5, LenProperties DEF sourced
  <2> QED  BY <1>4, <1>6, <2>2, <2>3 DEF Items
<1>8. r = [stack |-> <<t>> \o st, waiting |-> w, keys |-> keys, outOfTurn |-> late]
  BY <1>1, <1>2, <1>3 DEF addNodeToBeExecuted, datumOf
<1>9. r.stack = <<t>> \o st /\ r.waiting = w /\ r.keys = keys /\ r.outOfTurn = late
  BY <1>8
<1>10. st \in Seq(Items) /\ WaitingOK(w) /\ KeysOK(keys, w) /\ late \in BOOLEAN
  BY <1>1 DEF ExecOK
<1>11. <<t>> \o st \in Seq(Items)
  BY <1>7, <1>10, Prepend
<1>12. ExecOK(r)
  BY <1>8, <1>9, <1>10, <1>11 DEF ExecOK
<1>13. Pushed(x, c, r)
  BY <1>1, <1>4, <1>5, <1>6, <1>7, <1>9 DEF Pushed, pushes
<1> QED  BY <1>12, <1>13

\* A node with several inputs: the entries that may get the data.
LEMMA FirstFree ==
    ASSUME NEW w, WaitingOK(w), NEW n, NEW input \in Nat,
           inputCount(n) \in Nat, input + 1 \in 1..inputCount(n),
           NEW entries, entries = entriesAt(w, n),
           NEW free, free = freeEntries(entries, input)
    PROVE  /\ \A i : i \in DOMAIN entries <=> waits(w, n, i)
           /\ \A i : waits(w, n, i) => entries[i] = w[n][i]
           /\ DOMAIN entries \in SUBSET Nat /\ IsFiniteSet(DOMAIN entries)
           /\ free \in SUBSET Nat
           /\ \A i : i \in free <=> waits(w, n, i) /\ w[n][i].main[input + 1] = Null
<1>1. /\ \A i : i \in DOMAIN entries <=> waits(w, n, i)
      /\ \A i : waits(w, n, i) => entries[i] = w[n][i]
      /\ DOMAIN entries \in SUBSET Nat /\ IsFiniteSet(DOMAIN entries)
  <2>1. CASE n \in DOMAIN w
    BY <2>1 DEF WaitingOK, waits, entriesAt
  <2>2. CASE n \notin DOMAIN w
    <3>1. DOMAIN entries = {}
      BY <2>2 DEF entriesAt
    <3> QED  BY <2>2, <3>1, FS_EmptySet DEF waits
  <2> QED  BY <2>1, <2>2
<1>2. ASSUME NEW i, waits(w, n, i)
      PROVE  i \in free <=> w[n][i].main[input + 1] = Null
  <2>1. PICK e : e = w[n][i]
    OBVIOUS
  <2>2. e \in EntriesFor(n)
    BY <1>2, <2>1 DEF WaitingOK, waits
  <2>4. Len(e.main) = inputCount(n) /\ (e.main[input + 1] = Null \/ e.main[input + 1].node # 0)
    BY <2>2 DEF EntriesFor
  <2>5. e.main[input + 1] # Hole
    BY <2>4 DEF Null, Hole, Datum
  <2>6. ~(input + 1 > Len(e.main))
    BY <2>4
  <2> QED  BY <1>1, <1>2, <2>1, <2>5, <2>6 DEF freeEntries
<1>3. \A i : i \in free => waits(w, n, i)
  BY <1>1 DEF freeEntries
<1>4. free \in SUBSET Nat
  BY <1>1, <1>3
<1> QED  BY <1>1, <1>2, <1>3, <1>4

\* An entry with data on one more input.
LEMMA AssignEntry ==
    ASSUME NEW n, NEW i \in 1..inputCount(n), inputCount(n) \in Nat,
           NEW main \in Seq(Data), NEW source \in Seq(Sources),
           Len(main) = inputCount(n), Len(source) = inputCount(n),
           \A k \in 1..inputCount(n) : main[k] = Null \/ main[k].node # 0,
           NEW d \in Data, d.node # 0, NEW s \in Sources,
           NEW e, e = [main |-> assign(main, i, d, Hole), source |-> assign(source, i, s, NoSource)]
    PROVE  /\ e \in EntriesFor(n)
           /\ \A k \in 1..inputCount(n) :
                 /\ e.main[k] = IF k = i THEN d ELSE main[k]
                 /\ e.source[k] = IF k = i THEN s ELSE source[k]
<1>1. PICK a, b : a = assign(main, i, d, Hole) /\ b = assign(source, i, s, NoSource)
  OBVIOUS
<1>2. /\ a \in Seq(Data) /\ Len(a) = inputCount(n)
      /\ \A k \in 1..inputCount(n) : a[k] = IF k = i THEN d ELSE main[k]
  BY <1>1, AssignWithin
<1>3. /\ b \in Seq(Sources) /\ Len(b) = inputCount(n)
      /\ \A k \in 1..inputCount(n) : b[k] = IF k = i THEN s ELSE source[k]
  BY <1>1, AssignWithin
<1>4. e = [main |-> a, source |-> b] /\ e.main = a /\ e.source = b
  BY <1>1
<1>5. a[i] # Null
  BY <1>2 DEF Null, Datum
<1>6. e \in [main : Seq(Data), source : Seq(Sources)]
  BY <1>2, <1>3, <1>4
<1>7. e \in EntriesFor(n)
  BY <1>2, <1>3, <1>4, <1>5, <1>6 DEF EntriesFor
<1> QED  BY <1>2, <1>3, <1>4, <1>7

\* What an item made of an entry is.
LEMMA EntryItem ==
    ASSUME NEW n \in wf.nodes, NEW main \in Seq(Data), NEW source \in Seq(Sources),
           Len(main) = inputCount(n), Len(source) = inputCount(n),
           NEW t, t = item(n, main, source)
    PROVE  t \in Items /\ t.node = n /\ t.main = main /\ t.source = source
<1>1. t.node = n /\ t.main = main /\ t.source = source
  BY DEF item
<1>2. t \in [node : wf.nodes, disabled : BOOLEAN, main : Seq(Data), source : Seq(Sources)]
  BY DEF item
<1>3. sourced(main, source)
  BY LenProperties DEF sourced
<1> QED  BY <1>1, <1>2, <1>3 DEF Items

\* A node with several inputs: an entry gets the data, and goes to the stack if it is
\* complete.
LEMMA AddToEntry ==
    ASSUME wf \in Workflows, Counted, NEW x, ExecOK(x), NEW c \in Range(wf.conns),
           inputCount(c.to) > 1, NEW r, r = addNodeToBeExecuted(x, c)
    PROVE  ExecOK(r) /\ (Filled(x, c, r) \/ Completed(x, c, r) \/ Opened(x, c, r))
<1> DEFINE n == c.to
           input == c.input
           d == datumOf(c)
           s == sourceOf(c.from, c.output)
           st == x.stack
           w == x.waiting
           keys == x.keys
           entries == entriesAt(w, n)
           free == freeEntries(entries, input)
           i == IF free # {} THEN Min(free) ELSE Cardinality(DOMAIN entries)
           old == IF free # {} THEN entries[i] ELSE prepareWaitingToExecution(n)
           e == [main   |-> assign(old.main, input + 1, d, Hole),
                 source |-> assign(old.source, input + 1, s, NoSource)]
           u == put(w, n, put(entries, i, e))
           k == IF Contains(keys, n) THEN keys ELSE Append(keys, n)
           late == x.outOfTurn \/ (free = {} /\ \E j \in DOMAIN entries : j >= i)
           y == [stack |-> st, waiting |-> u, keys |-> k, outOfTurn |-> late]
           t == item(n, e.main, e.source)
           z == removeWaiting(y, n, i)
<1>1. r = IF inputCount(n) = 1 THEN [x EXCEPT !.stack = <<item(n, <<d>>, <<s>>)>> \o @]
          ELSE IF Contains(e.main, Null) THEN y
          ELSE [z EXCEPT !.stack = <<t>> \o @]
  BY DEF addNodeToBeExecuted, datumOf, entriesAt
<1>2. /\ input + 1 \in 1..inputCount(n) /\ inputCount(n) \in Nat /\ inputCount(n) > 1
      /\ n \in wf.nodes /\ input \in Nat
  BY InputCount, WorkflowFacts
<1>3. /\ d \in Data /\ d.node # 0 /\ s \in Sources
  BY Delivered
<1>4. st \in Seq(Items) /\ WaitingOK(w) /\ KeysOK(keys, w) /\ x.outOfTurn \in BOOLEAN
  BY DEF ExecOK
<1>5. /\ entries = entriesAt(w, n) /\ free = freeEntries(entries, input)
      /\ i = IF free # {} THEN Min(free) ELSE Cardinality(DOMAIN entries)
      /\ old = IF free # {} THEN entries[i] ELSE prepareWaitingToExecution(n)
  OBVIOUS
<1>6. e = [main   |-> assign(old.main, input + 1, d, Hole),
           source |-> assign(old.source, input + 1, s, NoSource)]
  OBVIOUS
<1>7. /\ u = put(w, n, put(entriesAt(w, n), i, e))
      /\ k = IF Contains(keys, n) THEN keys ELSE Append(keys, n)
      /\ late \in BOOLEAN
  BY <1>4
<1>8. /\ y = [stack |-> st, waiting |-> u, keys |-> k, outOfTurn |-> late]
      /\ z = removeWaiting(y, n, i) /\ t = item(n, e.main, e.source)
  OBVIOUS
<1>9. /\ late <=> x.outOfTurn \/ (free = {} /\ \E j \in DOMAIN entries : j >= i)
      /\ n = c.to /\ input = c.input /\ w = x.waiting /\ st = x.stack /\ d = datumOf(c)
      /\ s = sourceOf(c.from, c.output)
  OBVIOUS
<1> HIDE DEF n, input, d, s, st, w, keys, entries, free, i, old, e, u, k, late, y, t, z
<1>10. /\ \A j : j \in DOMAIN entries <=> waits(w, n, j)
       /\ \A j : waits(w, n, j) => entries[j] = w[n][j]
       /\ DOMAIN entries \in SUBSET Nat /\ IsFiniteSet(DOMAIN entries)
       /\ free \in SUBSET Nat
       /\ \A j : j \in free <=> waits(w, n, j) /\ w[n][j].main[input + 1] = Null
  BY <1>2, <1>4, <1>5, FirstFree
<1>11. /\ i \in Nat
       /\ free # {} => i \in free /\ waits(w, n, i) /\ \A j \in free : i <= j
  <2>1. CASE free # {}
    BY <1>5, <1>10, <2>1, MinProperties
  <2>2. CASE free = {}
    BY <1>5, <1>10, <2>2, FS_CardinalityType
  <2> QED  BY <2>1, <2>2
<1>12. /\ old.main \in Seq(Data) /\ old.source \in Seq(Sources)
       /\ Len(old.main) = inputCount(n) /\ Len(old.source) = inputCount(n)
       /\ \A l \in 1..inputCount(n) : old.main[l] = Null \/ old.main[l].node # 0
       /\ free = {} => \A l \in 1..inputCount(n) : old.main[l] = Null
  <2>1. CASE free # {}
    <3>1. old = w[n][i] /\ w[n][i] \in EntriesFor(n)
      BY <1>4, <1>5, <1>10, <1>11, <2>1 DEF WaitingOK, waits
    <3> QED  BY <2>1, <3>1 DEF EntriesFor
  <2>2. CASE free = {}
    <3> DEFINE f == [l \in 1..inputCount(n) |-> Null]
               g == [l \in 1..inputCount(n) |-> NoSource]
    <3>1. old.main = f /\ old.source = g
      BY <1>5, <2>2 DEF prepareWaitingToExecution
    <3>2. f \in [1..inputCount(n) -> Data] /\ g \in [1..inputCount(n) -> Sources]
      BY DEF Null, Datum, Data, NoSource, Source, Sources
    <3>3. \A l \in 1..inputCount(n) : f[l] = Null
      OBVIOUS
    <3> HIDE DEF f, g
    <3>4. f \in Seq(Data) /\ Len(f) = inputCount(n) /\ g \in Seq(Sources) /\ Len(g) = inputCount(n)
      BY <1>2, <3>2, FunctionIsSequence
    <3> QED  BY <3>1, <3>3, <3>4
  <2> QED  BY <2>1, <2>2
<1>13. /\ e \in EntriesFor(n)
       /\ \A l \in 1..inputCount(n) :
             /\ e.main[l] = IF l = input + 1 THEN d ELSE old.main[l]
             /\ e.source[l] = IF l = input + 1 THEN s ELSE old.source[l]
  <2>1. PICK main \in Seq(Data), source \in Seq(Sources), p \in 1..inputCount(n) :
           main = old.main /\ source = old.source /\ p = input + 1
    BY <1>2, <1>12
  <2>2. e = [main |-> assign(main, p, d, Hole), source |-> assign(source, p, s, NoSource)]
    BY <1>6, <2>1
  <2>3. /\ Len(main) = inputCount(n) /\ Len(source) = inputCount(n)
        /\ \A l \in 1..inputCount(n) : main[l] = Null \/ main[l].node # 0
    BY <1>12, <2>1
  <2>4. inputCount(n) \in Nat
    BY <1>2
  <2>5. /\ e \in EntriesFor(n)
        /\ \A l \in 1..inputCount(n) :
              /\ e.main[l] = IF l = p THEN d ELSE main[l]
              /\ e.source[l] = IF l = p THEN s ELSE source[l]
    BY <1>3, <2>2, <2>3, <2>4, AssignEntry
  <2> QED  BY <2>1, <2>5
<1>14. /\ WaitingOK(u) /\ DOMAIN u = DOMAIN w \cup {n}
       /\ \A m, j : waits(u, m, j) <=> waits(w, m, j) \/ (m = n /\ j = i)
       /\ \A m, j : waits(u, m, j) => u[m][j] = IF m = n /\ j = i THEN e ELSE w[m][j]
  <2>1. inputCount(n) > 1 /\ n \in wf.nodes
    BY <1>2
  <2>2. u = put(w, n, put(entriesAt(w, n), i, e)) /\ WaitingOK(w) /\ i \in Nat /\ e \in EntriesFor(n)
    BY <1>4, <1>7, <1>11, <1>13
  <2>3. EntryPut(w, n, i, e, u)
    BY <2>1, <2>2, PutEntry
  <2> QED  BY <2>3 DEF EntryPut
<1>15. KeysOK(k, u)
  <2>1. n \in wf.nodes /\ KeysOK(keys, w) /\ DOMAIN u = DOMAIN w \cup {n}
    BY <1>2, <1>4, <1>14
  <2> QED  BY <1>7, <2>1, PutKey
<1>16. /\ y.stack = st /\ y.waiting = u /\ y.keys = k /\ y.outOfTurn = late
       /\ y = [stack |-> y.stack, waiting |-> y.waiting, keys |-> y.keys,
               outOfTurn |-> y.outOfTurn]
  BY <1>8
<1>17. ExecOK(y)
  BY <1>4, <1>7, <1>14, <1>15, <1>16 DEF ExecOK
<1>18. inputCount(n) # 1
  BY <1>2
<1>19. ASSUME free # {}
       PROVE  filledAt(x, c, i, e.main, e.source)
  <2>1. ASSUME NEW j, waits(w, n, j), j < i, w[n][j].main[input + 1] = Null
        PROVE  FALSE
    <3>1. j \in free
      BY <1>10, <2>1
    <3>2. j \in Nat /\ i <= j
      BY <1>10, <1>11, <1>19, <3>1
    <3> QED  BY <1>11, <2>1, <3>2
  <2>2. old = w[n][i] /\ waits(w, n, i) /\ old.main[input + 1] = Null
    BY <1>5, <1>10, <1>11, <1>19
  <2>3. /\ inputCount(n) > 1
        /\ waits(w, n, i) /\ w[n][i].main[input + 1] = Null
        /\ \A j : waits(w, n, j) /\ j < i => w[n][j].main[input + 1] # Null
        /\ \A l \in 1..inputCount(n) :
              /\ e.main[l] = IF l = input + 1 THEN d ELSE w[n][i].main[l]
              /\ e.source[l] = IF l = input + 1 THEN s ELSE w[n][i].source[l]
    BY <1>2, <1>13, <2>1, <2>2
  <2> QED  BY <2>3 DEF filledAt, n, input, w, d, s
<1>20. ASSUME free = {}
       PROVE  Contains(e.main, Null)
  <2>1. PICK l \in 1..inputCount(n) : l # input + 1
    <3>1. 1 \in 1..inputCount(n) /\ 2 \in 1..inputCount(n)
      BY <1>2
    <3> QED  BY <3>1
  <2>2. e.main[l] = Null
    BY <1>12, <1>13, <1>20, <2>1
  <2>3. Len(e.main) = inputCount(n) /\ e.main \in Seq(Data)
    BY <1>13 DEF EntriesFor
  <2> QED  BY <2>1, <2>2, <2>3 DEF Contains
<1>21. CASE free = {}
  <2>1. r = y
    BY <1>1, <1>18, <1>20, <1>21
  <2>2. \A j : waits(w, n, j) => w[n][j].main[input + 1] # Null
    BY <1>10, <1>21
  <2>3. \A l \in 1..inputCount(n) :
           /\ e.main[l] = IF l = input + 1 THEN d ELSE Null
           /\ l = input + 1 => e.source[l] = s
    BY <1>12, <1>13, <1>21
  <2>4. x.outOfTurn => r.outOfTurn
    BY <1>9, <1>16, <2>1
  <2>5. ASSUME ~r.outOfTurn, NEW j, waits(w, n, j)
        PROVE  j < i
    <3>1. ~(j >= i)
      BY <1>9, <1>10, <1>16, <1>21, <2>1, <2>5
    <3>2. j \in Nat
      BY <1>10, <2>5
    <3> QED  BY <1>11, <3>1, <3>2
  <2>6. r.stack = st /\ r.waiting = u
    BY <1>16, <2>1
  <2>7. /\ inputCount(n) > 1
        /\ \A j : waits(w, n, j) => w[n][j].main[input + 1] # Null
        /\ \A l \in 1..inputCount(n) :
              /\ e.main[l] = IF l = input + 1 THEN d ELSE Null
              /\ l = input + 1 => e.source[l] = s
        /\ r.stack = st
        /\ x.outOfTurn => r.outOfTurn
        /\ ~r.outOfTurn => \A j : waits(w, n, j) => j < i
        /\ \A m, j : waits(r.waiting, m, j) <=> waits(w, m, j) \/ (m = n /\ j = i)
        /\ \A m, j : waits(r.waiting, m, j) =>
              r.waiting[m][j] = IF m = n /\ j = i THEN e ELSE w[m][j]
    BY <1>2, <1>14, <2>2, <2>3, <2>4, <2>5, <2>6
  <2>8. i \in Nat /\ e \in EntriesFor(n)
    BY <1>11, <1>13
  <2>9. Opened(x, c, r)
    BY <2>7, <2>8 DEF Opened, n, input, d, s, st, w
  <2> QED  BY <1>17, <2>1, <2>9
<1>22. CASE free # {} /\ Contains(e.main, Null)
  <2>1. r = y
    BY <1>1, <1>18, <1>22
  <2>2. \A m, j : waits(u, m, j) <=> waits(w, m, j)
    BY <1>11, <1>14, <1>22
  <2>3. r.outOfTurn = x.outOfTurn
    <3>1. late <=> x.outOfTurn
      BY <1>9, <1>22
    <3> QED  BY <1>4, <1>7, <1>16, <2>1, <3>1
  <2>4. r.stack = st /\ r.waiting = u
    BY <1>16, <2>1
  <2>5. /\ filledAt(x, c, i, e.main, e.source)
        /\ r.stack = st /\ r.outOfTurn = x.outOfTurn
        /\ \A m, j : waits(r.waiting, m, j) <=> waits(w, m, j)
        /\ \A m, j : waits(r.waiting, m, j) =>
              r.waiting[m][j] = IF m = n /\ j = i THEN e ELSE w[m][j]
    BY <1>14, <1>19, <1>22, <2>2, <2>3, <2>4
  <2>6. i \in Nat /\ e \in EntriesFor(n)
    BY <1>11, <1>13
  <2>7. Filled(x, c, r)
    BY <2>5, <2>6 DEF Filled, n, st, w
  <2> QED  BY <1>17, <2>1, <2>7
<1>23. CASE free # {} /\ ~Contains(e.main, Null)
  <2>1. waits(y.waiting, n, i)
    BY <1>14, <1>16
  <2>2. /\ ExecOK(z) /\ z.stack = st /\ z.outOfTurn = late
        /\ \A m, j : waits(z.waiting, m, j) <=> waits(u, m, j) /\ ~(m = n /\ j = i)
        /\ \A m, j : waits(z.waiting, m, j) => z.waiting[m][j] = u[m][j]
    BY <1>8, <1>16, <1>17, <2>1, RemoveEntry
  <2>3. late = x.outOfTurn
    <3>1. late <=> x.outOfTurn
      BY <1>9, <1>23
    <3> QED  BY <1>4, <1>7, <3>1
  <2>4. /\ e.main \in Seq(Data) /\ e.source \in Seq(Sources) /\ Len(e.main) = inputCount(n)
        /\ Len(e.source) = inputCount(n) /\ DOMAIN e.source = 1..inputCount(n)
    BY <1>13, LenProperties DEF EntriesFor
  <2>5. t \in Items /\ t.node = n /\ t.main = e.main /\ t.source = e.source
    <3>1. PICK main \in Seq(Data), source \in Seq(Sources) : main = e.main /\ source = e.source
      BY <2>4
    <3>2. /\ t = item(n, main, source) /\ n \in wf.nodes
          /\ Len(main) = inputCount(n) /\ Len(source) = inputCount(n)
      BY <1>2, <1>8, <2>4, <3>1
    <3> QED  BY <3>1, <3>2, EntryItem
  <2>6. r = [z EXCEPT !.stack = <<t>> \o @]
    BY <1>1, <1>18, <1>23
  <2>7. /\ r = [stack |-> r.stack, waiting |-> r.waiting, keys |-> r.keys,
                outOfTurn |-> r.outOfTurn]
        /\ r.stack = <<t>> \o st /\ r.waiting = z.waiting /\ r.keys = z.keys
        /\ r.outOfTurn = late
    <3>1. PICK a, b, f, g : z = [stack |-> a, waiting |-> b, keys |-> f, outOfTurn |-> g]
      BY <2>2 DEF ExecOK
    <3>2. z.stack = a /\ z.waiting = b /\ z.keys = f /\ z.outOfTurn = g
      BY <3>1
    <3>3. r = [stack |-> <<t>> \o a, waiting |-> b, keys |-> f, outOfTurn |-> g]
      BY <2>6, <3>1
    <3> QED  BY <2>2, <3>2, <3>3
  <2>8. ExecOK(r)
    <3>1. <<t>> \o st \in Seq(Items)
      BY <1>4, <2>5, Prepend
    <3> QED  BY <1>7, <2>2, <2>7, <3>1 DEF ExecOK
  <2>9. Completed(x, c, r)
    <3>1. \A m, j : waits(r.waiting, m, j) <=> waits(w, m, j) /\ ~(m = n /\ j = i)
      BY <1>14, <2>2, <2>7
    <3>2. \A m, j : waits(r.waiting, m, j) => r.waiting[m][j] = w[m][j]
      BY <1>14, <2>2, <2>7
    <3>3. /\ t.node = n /\ DOMAIN t.source = 1..inputCount(n)
          /\ filledAt(x, c, i, t.main, t.source)
          /\ t \in Items /\ r.stack = <<t>> \o st /\ r.outOfTurn = x.outOfTurn
          /\ i \in Nat
      BY <1>11, <1>19, <1>23, <2>3, <2>4, <2>5, <2>7
    <3> QED  BY <3>1, <3>2, <3>3 DEF Completed, pushes, n, st, w
  <2> QED  BY <2>8, <2>9
<1> QED  BY <1>21, <1>22, <1>23

\* What addNodeToBeExecuted does with the data that is delivered over a connection.
LEMMA AddNode ==
    ASSUME wf \in Workflows, Counted, NEW x, ExecOK(x), NEW c \in Range(wf.conns),
           NEW r, r = addNodeToBeExecuted(x, c)
    PROVE  /\ ExecOK(r)
           /\ Pushed(x, c, r) \/ Filled(x, c, r) \/ Completed(x, c, r) \/ Opened(x, c, r)
<1>1. inputCount(c.to) = 1 \/ inputCount(c.to) > 1
  <2>1. inputCount(c.to) \in Nat \ {0}
    BY InputCount
  <2> QED  BY <2>1
<1> QED  BY <1>1, AddOneInput, AddToEntry


-----------------------------------------------------------------------------
(* runWaitingNode                                                          *)

\* The first entry of a node that may run goes to the empty stack.
Taken(x, r) ==
    \E n \in wf.nodes : \E i \in Nat : \E t \in Items :
        /\ mayRun(x, n) /\ waits(x.waiting, n, i)
        /\ ~r.outOfTurn => \A j : waits(x.waiting, n, j) => i <= j
        /\ t.node = n /\ t.source = x.waiting[n][i].source
        /\ DOMAIN t.source = 1..inputCount(n)
        /\ \A k \in 1..inputCount(n) :
              t.main[k] = IF x.waiting[n][i].main[k] = Null THEN EmptyData
                                                            ELSE x.waiting[n][i].main[k]
        /\ r.stack = <<t>> /\ (x.outOfTurn => r.outOfTurn)
        /\ \A m, j : waits(r.waiting, m, j) <=> waits(x.waiting, m, j) /\ ~(m = n /\ j = i)
        /\ \A m, j : waits(r.waiting, m, j) => r.waiting[m][j] = x.waiting[m][j]

\* The text order is a number, and the first index is one of those that wait.
LEMMA AsText ==
    ASSUME NEW i \in Nat
    PROVE  asText(i) \in Nat
<1> DEFINE S == {i} \cup ({i * 10^d : d \in 1..5} \cap 1..(10^6 - 1))
<1>1. IsFiniteSet(S) /\ S \in SUBSET Nat /\ S # {}
  <2>1. 10^6 \in Int
    OBVIOUS
  <2>2. PICK top \in Int : top = 10^6 - 1
    BY <2>1
  <2>3. PICK T : T = {i * 10^d : d \in 1..5}
    OBVIOUS
  <2>4. IsFiniteSet(1..top) /\ 1..top \subseteq Nat
    BY FS_Interval
  <2>5. IsFiniteSet(T \cap (1..top))
    BY <2>4, FS_Subset
  <2>6. IsFiniteSet((T \cap (1..top)) \cup {i})
    BY <2>5, FS_AddElement
  <2>7. S = (T \cap (1..top)) \cup {i}
    BY <2>2, <2>3
  <2> HIDE DEF S
  <2> QED  BY <2>4, <2>6, <2>7
<1>2. asText(i) = Max(S)
  BY DEF asText
<1> HIDE DEF S
<1> QED  BY <1>1, <1>2, MaxProperties

LEMMA FirstRunIndex ==
    ASSUME NEW S \in SUBSET Nat, S # {}
    PROVE  firstRunIndex(S) \in S
<1> DEFINE texts == {asText(i) : i \in S}
           first == Min(texts)
           T == {i \in S : asText(i) = first}
<1>1. texts \in SUBSET Nat /\ texts # {}
  BY AsText
<1>2. first \in texts
  <2> HIDE DEF texts
  <2> QED  BY <1>1, MinProperties
<1>3. T \in SUBSET Nat /\ T # {}
  <2> HIDE DEF first
  <2> QED  BY <1>2
<1>4. firstRunIndex(S) = Min(T)
  BY DEF firstRunIndex
<1>5. T \subseteq S
  OBVIOUS
<1> HIDE DEF T
<1> QED  BY <1>3, <1>4, <1>5, MinProperties

\* Every entry has data, so the first node that may run goes to the stack.
LEMMA RunFirst ==
    ASSUME wf \in Workflows, NEW x, ExecOK(x), x.stack = <<>>, readyNodes(x) # {},
           NEW r, r = runFirstReady(x)
    PROVE  ExecOK(r) /\ Taken(x, r)
<1> DEFINE p == Min(readyNodes(x))
           n == x.keys[p]
           i == firstRunIndex(DOMAIN x.waiting[n])
           e == x.waiting[n][i]
           main == [k \in 1..inputCount(n) |->
                       IF k > Len(e.main) \/ e.main[k] = Null THEN EmptyData ELSE e.main[k]]
           z == removeWaiting(x, n, i)
           y == [z EXCEPT !.outOfTurn = @ \/ i # Min(DOMAIN x.waiting[n])]
           t == item(n, main, e.source)
<1>1. r = IF \E k \in DOMAIN main : hasItems(main[k])
            THEN [y EXCEPT !.stack = Append(@, t)] ELSE y
  BY DEF runFirstReady
<1>2. /\ p = Min(readyNodes(x)) /\ n = x.keys[p] /\ i = firstRunIndex(DOMAIN x.waiting[n])
      /\ e = x.waiting[n][i]
  OBVIOUS
<1>a. /\ z = removeWaiting(x, n, i) /\ t = item(n, main, e.source)
      /\ y = [z EXCEPT !.outOfTurn = @ \/ i # Min(DOMAIN x.waiting[n])]
  OBVIOUS
<1>b. /\ DOMAIN main = 1..inputCount(n)
      /\ \A k \in 1..inputCount(n) :
            main[k] = IF k > Len(e.main) \/ e.main[k] = Null THEN EmptyData ELSE e.main[k]
      /\ main = [k \in 1..inputCount(n) |-> main[k]]
  OBVIOUS
<1> HIDE DEF p, n, i, e, main, z, y, t
<1>3. /\ WaitingOK(x.waiting) /\ x.keys \in Seq(wf.nodes) /\ Range(x.keys) = DOMAIN x.waiting
      /\ DOMAIN x.keys = 1..Len(x.keys) /\ Len(x.keys) \in Nat
  BY LenProperties DEF ExecOK, KeysOK
<1>4. readyNodes(x) \in SUBSET Nat /\ readyNodes(x) \subseteq DOMAIN x.keys
  BY <1>3 DEF readyNodes
<1>5. p \in readyNodes(x)
  BY <1>2, <1>4, MinProperties
<1>6. n \in DOMAIN x.waiting /\ mayRun(x, n)
  BY <1>2, <1>3, <1>5 DEF readyNodes, Range
<1>7. /\ n \in wf.nodes /\ inputCount(n) > 1
      /\ DOMAIN x.waiting[n] \in SUBSET Nat /\ DOMAIN x.waiting[n] # {}
      /\ \A j \in DOMAIN x.waiting[n] : x.waiting[n][j] \in EntriesFor(n)
  BY <1>3, <1>6 DEF WaitingOK
<1>8. /\ i \in DOMAIN x.waiting[n]
      /\ i = Min(DOMAIN x.waiting[n]) => \A j \in DOMAIN x.waiting[n] : i <= j
  <2>1. PICK D : D = DOMAIN x.waiting[n]
    OBVIOUS
  <2>2. D \in SUBSET Nat /\ D # {} /\ i = firstRunIndex(D)
    BY <1>2, <1>7, <2>1
  <2>3. i \in D /\ (i = Min(D) => \A j \in D : i <= j)
    BY <2>2, MinProperties, FirstRunIndex
  <2> QED  BY <2>1, <2>3
<1>9. /\ i \in Nat /\ waits(x.waiting, n, i)
      /\ i = Min(DOMAIN x.waiting[n]) => \A j : waits(x.waiting, n, j) => i <= j
  BY <1>6, <1>7, <1>8 DEF waits
<1>10. e \in EntriesFor(n) /\ inputCount(n) \in Nat
  BY <1>2, <1>7, <1>8, InputCount
<1>11. /\ e.main \in Seq(Data) /\ e.source \in Seq(Sources)
       /\ Len(e.main) = inputCount(n) /\ Len(e.source) = inputCount(n)
       /\ \A k \in 1..inputCount(n) : e.main[k] = Null \/ e.main[k].node # 0
       /\ \E k \in 1..inputCount(n) : e.main[k] # Null
  BY <1>10 DEF EntriesFor
<1>12. DOMAIN e.source = 1..inputCount(n)
  BY <1>11, LenProperties
<1>13. /\ DOMAIN main = 1..inputCount(n)
       /\ \A k \in 1..inputCount(n) :
             main[k] = IF e.main[k] = Null THEN EmptyData ELSE e.main[k]
  <2>1. \A k \in 1..inputCount(n) : ~(k > Len(e.main))
    BY <1>10, <1>11
  <2> QED  BY <1>b, <2>1
<1>14. main \in Seq(Data) /\ Len(main) = inputCount(n)
  <2>1. \A k \in 1..inputCount(n) : e.main[k] \in Data
    BY <1>11, ElementOfSeq
  <2>2. EmptyData \in Data
    BY DEF EmptyData, Datum, Data
  <2>3. main \in [1..inputCount(n) -> Data]
    BY <1>b, <1>13, <2>1, <2>2
  <2> QED  BY <1>10, <2>3, FunctionIsSequence
<1>15. \E k \in DOMAIN main : hasItems(main[k])
  <2>1. PICK k \in 1..inputCount(n) : e.main[k] # Null
    BY <1>11
  <2>2. main[k] = e.main[k] /\ e.main[k].node # 0
    BY <1>11, <1>13, <2>1
  <2>3. hasItems(main[k])
    BY <2>2 DEF hasItems, Null, Hole, EmptyData, Datum
  <2> QED  BY <1>13, <2>3
<1>16. t \in Items /\ t.node = n /\ t.main = main /\ t.source = e.source
  <2>1. PICK source \in Seq(Sources) : source = e.source
    BY <1>11
  <2>2. t = item(n, main, source) /\ Len(source) = inputCount(n)
    BY <1>a, <1>11, <2>1
  <2> QED  BY <1>7, <1>14, <2>1, <2>2, EntryItem
<1>c. /\ ExecOK(z) /\ z.stack = <<>> /\ z.outOfTurn = x.outOfTurn
      /\ \A m, j : waits(z.waiting, m, j) <=> waits(x.waiting, m, j) /\ ~(m = n /\ j = i)
      /\ \A m, j : waits(z.waiting, m, j) => z.waiting[m][j] = x.waiting[m][j]
  BY <1>a, <1>9, RemoveEntry
<1>17. /\ ExecOK(y) /\ y.stack = <<>> /\ (x.outOfTurn => y.outOfTurn)
       /\ ~y.outOfTurn => i = Min(DOMAIN x.waiting[n])
       /\ \A m, j : waits(y.waiting, m, j) <=> waits(x.waiting, m, j) /\ ~(m = n /\ j = i)
       /\ \A m, j : waits(y.waiting, m, j) => y.waiting[m][j] = x.waiting[m][j]
  <2>1. PICK a, b, f, g : z = [stack |-> a, waiting |-> b, keys |-> f, outOfTurn |-> g]
    BY <1>c DEF ExecOK
  <2>2. PICK late \in BOOLEAN : late <=> i # Min(DOMAIN x.waiting[n])
    OBVIOUS
  <2>3. z.stack = a /\ z.waiting = b /\ z.keys = f /\ z.outOfTurn = g
    BY <2>1
  <2>4. g \in BOOLEAN /\ a \in Seq(Items) /\ WaitingOK(b) /\ KeysOK(f, b)
    BY <1>c, <2>3 DEF ExecOK
  <2>5. PICK h \in BOOLEAN : h <=> g \/ late
    OBVIOUS
  <2>6. y = [stack |-> a, waiting |-> b, keys |-> f,
             outOfTurn |-> g \/ i # Min(DOMAIN x.waiting[n])]
    BY <1>a, <2>1
  <2>7. (g \/ i # Min(DOMAIN x.waiting[n])) = h
    BY <2>2, <2>4, <2>5
  <2>8. y = [stack |-> a, waiting |-> b, keys |-> f, outOfTurn |-> h]
    BY <2>6, <2>7
  <2>9. y.stack = a /\ y.waiting = b /\ y.keys = f /\ y.outOfTurn = h
    BY <2>8
  <2>10. ExecOK(y)
    BY <2>4, <2>8, <2>9 DEF ExecOK
  <2> QED  BY <1>c, <2>2, <2>3, <2>5, <2>9, <2>10
<1>18. r = [y EXCEPT !.stack = Append(@, t)]
  BY <1>1, <1>15
<1>19. /\ r = [stack |-> r.stack, waiting |-> r.waiting, keys |-> r.keys,
               outOfTurn |-> r.outOfTurn]
       /\ r.stack = <<t>> /\ r.waiting = y.waiting /\ r.keys = y.keys
       /\ r.outOfTurn = y.outOfTurn
  <2>1. PICK a, b, f, g : y = [stack |-> a, waiting |-> b, keys |-> f, outOfTurn |-> g]
    BY <1>17 DEF ExecOK
  <2>2. y.stack = a /\ y.waiting = b /\ y.keys = f /\ y.outOfTurn = g
    BY <2>1
  <2>3. r = [stack |-> Append(a, t), waiting |-> b, keys |-> f, outOfTurn |-> g]
    BY <1>18, <2>1
  <2>4. Append(a, t) = <<t>>
    <3>1. a = <<>>
      BY <1>17, <2>2
    <3> QED  BY <3>1
  <2> QED  BY <1>17, <2>2, <2>3, <2>4
<1>20. ExecOK(r)
  <2>1. <<t>> \in Seq(Items)
    BY <1>16, RangeSingleton
  <2>2. /\ WaitingOK(r.waiting) /\ KeysOK(r.keys, r.waiting) /\ r.outOfTurn \in BOOLEAN
    BY <1>17, <1>19 DEF ExecOK
  <2> QED  BY <1>19, <2>1, <2>2 DEF ExecOK
<1>21. Taken(x, r)
  <2>1. /\ t.node = n /\ t.source = x.waiting[n][i].source
        /\ DOMAIN t.source = 1..inputCount(n)
        /\ \A k \in 1..inputCount(n) :
              t.main[k] = IF x.waiting[n][i].main[k] = Null THEN EmptyData
                                                            ELSE x.waiting[n][i].main[k]
    <3>1. t.main = main /\ t.source = e.source /\ t.node = n /\ e = x.waiting[n][i]
      BY <1>2, <1>16
    <3> QED  BY <1>12, <1>13, <3>1
  <2>2. /\ r.stack = <<t>> /\ (x.outOfTurn => r.outOfTurn)
        /\ ~r.outOfTurn => \A j : waits(x.waiting, n, j) => i <= j
        /\ \A m, j : waits(r.waiting, m, j) <=> waits(x.waiting, m, j) /\ ~(m = n /\ j = i)
        /\ \A m, j : waits(r.waiting, m, j) => r.waiting[m][j] = x.waiting[m][j]
    BY <1>9, <1>17, <1>19
  <2> QED  BY <1>6, <1>7, <1>9, <1>16, <2>1, <2>2 DEF Taken
<1> QED  BY <1>20, <1>21

\* Finitely many entries wait, and some if a node waits.
LEMMA EntriesFinite ==
    ASSUME wf \in Workflows, NEW x, ExecOK(x)
    PROVE  /\ Cardinality(entriesOf(x.waiting)) \in Nat
           /\ readyNodes(x) # {} => Cardinality(entriesOf(x.waiting)) # 0
<1>1. PICK w, keys : w = x.waiting /\ keys = x.keys
  OBVIOUS
<1>2. WaitingOK(w) /\ keys \in Seq(wf.nodes) /\ Range(keys) = DOMAIN w
  BY <1>1 DEF ExecOK, KeysOK
<1> DEFINE of(n) == {<<n, i>> : i \in DOMAIN w[n]}
           all == {of(n) : n \in DOMAIN w}
<1>3. IsFiniteSet(DOMAIN w)
  <2>1. DOMAIN w \subseteq wf.nodes
    BY <1>2 DEF WaitingOK
  <2> QED  BY <2>1, WorkflowFacts, FS_Subset
<1>4. IsFiniteSet(all)
  <2> DEFINE f == [n \in DOMAIN w |-> of(n)]
  <2>1. f \in Surjection(DOMAIN w, all)
    BY DEF Surjection
  <2> HIDE DEF f, all
  <2> QED  BY <1>3, <2>1, FS_Surjection
<1>5. ASSUME NEW n \in DOMAIN w
      PROVE  IsFiniteSet(of(n)) /\ of(n) # {}
  <2>1. IsFiniteSet(DOMAIN w[n]) /\ DOMAIN w[n] # {}
    BY <1>2 DEF WaitingOK
  <2> DEFINE f == [i \in DOMAIN w[n] |-> <<n, i>>]
  <2>2. f \in Surjection(DOMAIN w[n], of(n))
    BY DEF Surjection
  <2>3. of(n) # {}
    BY <2>1
  <2> HIDE DEF f, of
  <2> QED  BY <2>1, <2>2, <2>3, FS_Surjection
<1>6. \A S \in all : IsFiniteSet(S)
  <2> HIDE DEF of
  <2> QED  BY <1>5
<1>7. entriesOf(x.waiting) = UNION all
  BY <1>1 DEF entriesOf
<1>8. IsFiniteSet(UNION all)
  <2> HIDE DEF all
  <2> QED  BY <1>4, <1>6, FS_UNION
<1>9. Cardinality(entriesOf(x.waiting)) \in Nat
  <2> HIDE DEF all
  <2> QED  BY <1>7, <1>8, FS_CardinalityType
<1>10. ASSUME readyNodes(x) # {}
       PROVE  Cardinality(entriesOf(x.waiting)) # 0
  <2>1. PICK n : n \in DOMAIN w
    BY <1>1, <1>2, <1>10 DEF readyNodes, Range
  <2>2. UNION all # {}
    <3> HIDE DEF of
    <3> QED  BY <1>5, <2>1
  <2> HIDE DEF all
  <2> QED  BY <1>7, <1>8, <2>2, FS_EmptySet
<1> QED  BY <1>9, <1>10

\* The loop over the waiting nodes: a node goes to the stack if one may run.
LEMMA RunWaiting ==
    ASSUME wf \in Workflows, NEW x, ExecOK(x), x.stack = <<>>, NEW r, r = runWaitingNode(x)
    PROVE  /\ ExecOK(r)
           /\ \/ readyNodes(x) = {} /\ r = x
              \/ readyNodes(x) # {} /\ Taken(x, r)
<1> DEFINE N == Cardinality(entriesOf(x.waiting))
           a == rounds(x)
<1>1. N \in Nat /\ (readyNodes(x) # {} => N # 0)
  BY EntriesFinite
<1>2. a[0] = x /\ \A k \in 1..N : a[k] = round(a[k - 1])
  BY <1>1, RoundsUnfold
<1>3. r = a[N]
  BY DEF runWaitingNode
<1> HIDE DEF N, a
<1>4. CASE readyNodes(x) = {}
  <2> DEFINE Bad == {k \in 0..N : a[k] # x}
  <2>1. Bad = {}
    <3>1. SUFFICES ASSUME Bad # {}
                   PROVE  FALSE
      OBVIOUS
    <3>2. PICK k \in Bad : \A m \in Bad : k <= m
      <4>1. Bad \in SUBSET Nat
        BY <1>1
      <4> HIDE DEF Bad
      <4> QED  BY <3>1, <4>1, LeastNumber
    <3>3. k \in 0..N /\ a[k] # x /\ k # 0
      BY <1>2, <3>2
    <3>4. k \in 1..N /\ k - 1 \in 0..N /\ ~(k <= k - 1)
      BY <1>1, <3>3
    <3>5. a[k - 1] = x
      BY <3>2, <3>4
    <3>6. a[k] = round(x)
      BY <1>2, <3>4, <3>5
    <3> QED  BY <1>4, <3>3, <3>6 DEF round
  <2>2. N \in 0..N
    BY <1>1
  <2>3. r = x
    BY <1>3, <2>1, <2>2
  <2> QED  BY <1>4, <2>3
<1>5. CASE readyNodes(x) # {}
  <2>1. PICK y : y = runFirstReady(x)
    OBVIOUS
  <2>2. ExecOK(y) /\ Taken(x, y)
    BY <1>5, <2>1, RunFirst
  <2>3. y.stack # <<>>
    BY <2>2 DEF Taken
  <2>4. 1 \in 1..N /\ 1 - 1 = 0 /\ N \in 1..N
    BY <1>1, <1>5
  <2>5. a[1] = y
    BY <1>2, <1>5, <2>1, <2>4 DEF round
  <2> DEFINE Bad == {k \in 1..N : a[k] # y}
  <2>6. Bad = {}
    <3>1. SUFFICES ASSUME Bad # {}
                   PROVE  FALSE
      OBVIOUS
    <3>2. PICK k \in Bad : \A m \in Bad : k <= m
      <4>1. Bad \in SUBSET Nat
        BY <1>1
      <4> HIDE DEF Bad
      <4> QED  BY <3>1, <4>1, LeastNumber
    <3>3. k \in 1..N /\ a[k] # y /\ k # 1
      BY <2>5, <3>2
    <3>4. k - 1 \in 1..N /\ ~(k <= k - 1)
      BY <1>1, <3>3
    <3>5. a[k - 1] = y
      BY <3>2, <3>4
    <3>6. a[k] = round(y)
      BY <1>2, <3>3, <3>5
    <3> QED  BY <2>3, <3>3, <3>6 DEF round
  <2>7. r = y
    BY <1>3, <2>4, <2>6
  <2> QED  BY <1>5, <2>2, <2>7
<1> QED  BY <1>4, <1>5

-----------------------------------------------------------------------------
(* The state, before any partial execution                                 *)

\* What addNodeToBeExecuted does with one connection.
AddedOne(x, c, r) == Pushed(x, c, r) \/ Filled(x, c, r) \/ Completed(x, c, r) \/ Opened(x, c, r)

\* The loop over the connections, one by one.
AddsAll(x, conns) ==
    LET a == added(x, conns)
        N == Cardinality(conns)
    IN  /\ N \in Nat /\ conns \subseteq Range(wf.conns)
        /\ a[0].state = x /\ a[0].todo = conns
        /\ \A k \in 0..N : a[k].todo \subseteq conns /\ ExecOK(a[k].state)
        /\ \A k \in 1..N :
              \E c \in a[k - 1].todo :
                 a[k].todo = a[k - 1].todo \ {c} /\ AddedOne(a[k - 1].state, c, a[k].state)
        /\ a[N].todo = {}
        /\ addNodes(x, conns) = a[N].state

LEMMA AddAll ==
    ASSUME wf \in Workflows, Counted, NEW x, ExecOK(x), NEW n, NEW out,
           NEW conns, conns = nodesToAdd(n, out)
    PROVE  AddsAll(x, conns)
<1> DEFINE a == added(x, conns)
           N == Cardinality(conns)
<1>1. /\ conns \in SUBSET Range(wf.conns)
      /\ \A c \in conns : \A d \in conns : c.from = d.from
  BY NodesToAdd
<1>2. /\ N \in Nat /\ a[0].state = x /\ a[0].todo = conns
      /\ \A k \in 1..N :
            \E c \in a[k - 1].todo :
               /\ a[k].state = addNodeToBeExecuted(a[k - 1].state, c)
               /\ a[k].todo = a[k - 1].todo \ {c}
      /\ \A k \in 0..N : a[k].todo \subseteq conns
      /\ a[N].todo = {}
      /\ addNodes(x, conns) = a[N].state
  BY <1>1, AddedSteps
<1> HIDE DEF a, N
<1>3. ASSUME NEW k \in 1..N, ExecOK(a[k - 1].state)
      PROVE  /\ ExecOK(a[k].state)
             /\ \E c \in a[k - 1].todo :
                   /\ a[k].todo = a[k - 1].todo \ {c}
                   /\ AddedOne(a[k - 1].state, c, a[k].state)
  <2>1. PICK c \in a[k - 1].todo :
           /\ a[k].state = addNodeToBeExecuted(a[k - 1].state, c)
           /\ a[k].todo = a[k - 1].todo \ {c}
    BY <1>2
  <2>2. k - 1 \in 0..N
    BY <1>2
  <2>3. c \in Range(wf.conns)
    BY <1>1, <1>2, <2>2
  <2>4. PICK y, r : y = a[k - 1].state /\ r = a[k].state
    OBVIOUS
  <2>5. ExecOK(y) /\ r = addNodeToBeExecuted(y, c)
    BY <1>3, <2>1, <2>4
  <2>6. ExecOK(r) /\ AddedOne(y, c, r)
    BY <2>3, <2>5, AddNode DEF AddedOne
  <2> QED  BY <2>1, <2>4, <2>6
<1> DEFINE Bad == {k \in 0..N : ~ExecOK(a[k].state)}
<1>4. Bad = {}
  <2>1. SUFFICES ASSUME Bad # {}
                 PROVE  FALSE
    OBVIOUS
  <2>2. PICK k \in Bad : \A m \in Bad : k <= m
    <3>1. Bad \in SUBSET Nat
      BY <1>2
    <3> HIDE DEF Bad
    <3> QED  BY <2>1, <3>1, LeastNumber
  <2>3. k \in 0..N /\ ~ExecOK(a[k].state) /\ k # 0
    BY <1>2, <2>2
  <2>4. k \in 1..N /\ k - 1 \in 0..N /\ ~(k <= k - 1)
    BY <1>2, <2>3
  <2>5. ExecOK(a[k - 1].state)
    BY <2>2, <2>4
  <2> QED  BY <1>3, <2>3, <2>4, <2>5
<1>5. \A k \in 0..N : ExecOK(a[k].state)
  BY <1>4
<1>6. \A k \in 1..N : k - 1 \in 0..N
  BY <1>2
<1>7. \A k \in 1..N : \E c \in a[k - 1].todo :
                   /\ a[k].todo = a[k - 1].todo \ {c}
                   /\ AddedOne(a[k - 1].state, c, a[k].state)
  BY <1>3, <1>5, <1>6
<1> QED  BY <1>1, <1>2, <1>5, <1>7 DEF a, N, AddsAll

TaskStates == {"success", "error", "failed", "waiting"}

TaskData ==
    {t \in [main : Seq(Data), source : Seq(Sources), state : TaskStates, out : SUBSET Nat,
            serial : Nat] :
        sourced(t.main, t.source)}

\* The types of the variables before any partial execution.
Base ==
    /\ wf \in Workflows /\ ExecOK(execState)
    /\ runData \in [wf.nodes -> Seq(TaskData)]
    /\ serial \in Nat \ {0} /\ restarts \in Nat /\ executionError \in BOOLEAN
    /\ pc \in {"loop", "node", "ended"} /\ status \in {"running", "canceled"}
    /\ result \in {"none", "success", "error", "waiting", "canceled"}
    /\ pc = "ended" <=> result # "none"
    /\ IF pc = "node" THEN current \in Items ELSE current = NoItem
    /\ destination = 0 /\ runNodeFilter = wf.nodes
    /\ lastNodeExecuted \in wf.nodes \cup {0}

\* An execution that waits has the node on the stack, and its last task is of it.
WaitsOnLast ==
    result = "waiting" =>
        /\ stack # <<>> /\ lastNodeExecuted \in wf.nodes
        /\ runData[lastNodeExecuted] # <<>> /\ Last(runData[lastNodeExecuted]).state = "waiting"

\* The components of the state of the stack and of what waits.
LEMMA ExecState ==
    ASSUME NEW x, x = execState
    PROVE  /\ x.stack = stack /\ x.waiting = waitingExecution /\ x.keys = waitingNodes
           /\ x.outOfTurn = outOfTurn
           /\ x = [stack |-> stack, waiting |-> waitingExecution, keys |-> waitingNodes,
                   outOfTurn |-> outOfTurn]
  BY DEF execState

\* What depends on the workflow alone does not change.
LEMMA SameWorkflow ==
    ASSUME wf' = wf
    PROVE  /\ Items' = Items /\ \A n : inputCount(n)' = inputCount(n)
           /\ \A n : EntriesFor(n)' = EntriesFor(n)
           /\ \A n, m : (n \in ancestors(Graph, m))' <=> n \in ancestors(Graph, m)
<1>1. \A n : inputCount(n)' = inputCount(n)
  BY DEF inputCount, connsTo
<1>2. Items' = Items
  BY <1>1 DEF Items
<1>3. \A n : EntriesFor(n)' = EntriesFor(n)
  BY <1>1 DEF EntriesFor
<1>4. \A n, m : (n \in ancestors(Graph, m))' <=> n \in ancestors(Graph, m)
  BY DEF ancestors, Graph
<1> QED  BY <1>1, <1>2, <1>3, <1>4

\* The next state of the stack and of what waits is well-formed.
LEMMA NextExecOK ==
    ASSUME wf' = wf, NEW r, ExecOK(r),
           stack' = r.stack, waitingExecution' = r.waiting, waitingNodes' = r.keys,
           outOfTurn' = r.outOfTurn
    PROVE  ExecOK(execState)'
<1>1. /\ r.stack \in Seq(Items) /\ WaitingOK(r.waiting) /\ KeysOK(r.keys, r.waiting)
      /\ r.outOfTurn \in BOOLEAN
  BY DEF ExecOK
<1>2. /\ execState'.stack = r.stack /\ execState'.waiting = r.waiting
      /\ execState'.keys = r.keys /\ execState'.outOfTurn = r.outOfTurn
      /\ execState' = [stack |-> r.stack, waiting |-> r.waiting, keys |-> r.keys,
                       outOfTurn |-> r.outOfTurn]
  BY DEF execState
<1>3. KeysOK(execState.keys, execState.waiting)'
  BY <1>1, <1>2 DEF KeysOK
<1>4. WaitingOK(execState.waiting)'
  BY <1>1, <1>2, SameWorkflow DEF WaitingOK
<1>5. (execState.stack \in Seq(Items))'
  BY <1>1, <1>2, SameWorkflow
<1> QED  BY <1>1, <1>2, <1>3, <1>4, <1>5 DEF ExecOK

\* The state after the node: its connections were handled one by one, and then, with
\* nothing on the stack, a waiting node was looked for.
Finished(out, y) ==
    /\ y = addNodes(execState, nodesToAdd(current.node, out))
    /\ ExecOK(y)
    /\ IF y.stack # <<>> \/ readyNodes(y) = {}
         THEN /\ stack' = y.stack /\ waitingExecution' = y.waiting /\ waitingNodes' = y.keys
              /\ outOfTurn' = y.outOfTurn
         ELSE \E r : /\ Taken(y, r) /\ ExecOK(r)
                     /\ stack' = r.stack /\ waitingExecution' = r.waiting
                     /\ waitingNodes' = r.keys /\ outOfTurn' = r.outOfTurn

LEMMA BaseCounted ==
    ASSUME Base
    PROVE  Counted /\ \A n \in wf.nodes : runData[n] \in Seq(TaskData)
<1>1. \A n \in wf.nodes : runData[n] \in Seq(TaskData)
  BY DEF Base
<1>2. \A n \in wf.nodes : Len(runData[n]) \in Nat
  BY <1>1, LenProperties
<1> QED  BY <1>1, <1>2 DEF Counted, Base

LEMMA FinishNode ==
    ASSUME Base, pc = "node", NEW state, NEW out, finishNode(state, out)
    PROVE  (\E y : Finished(out, y)) /\ wf' = wf /\ ExecOK(execState)'
<1>1. PICK x, conns : x = execState /\ conns = nodesToAdd(current.node, out)
  OBVIOUS
<1>2. PICK y : y = addNodes(x, conns)
  OBVIOUS
<1>3. ExecOK(x) /\ wf \in Workflows /\ Counted
  BY <1>1, BaseCounted DEF Base
<1>4. ExecOK(y)
  <2>1. PICK N : N = Cardinality(conns)
    OBVIOUS
  <2>2. /\ N \in Nat /\ \A k \in 0..N : ExecOK(added(x, conns)[k].state)
        /\ y = added(x, conns)[N].state
    <3>1. AddsAll(x, conns)
      BY <1>1, <1>3, AddAll
    <3> QED  BY <1>2, <2>1, <3>1 DEF AddsAll
  <2>3. N \in 0..N
    BY <2>2
  <2> QED  BY <2>2, <2>3
<1>5. current.node # destination
  <2>1. current \in Items /\ destination = 0
    BY DEF Base
  <2>2. current.node \in wf.nodes
    BY <2>1 DEF Items
  <2> QED  BY <1>3, <2>1, <2>2, WorkflowFacts
<1>6. PICK r : r = IF y.stack = <<>> THEN runWaitingNode(y) ELSE y
  OBVIOUS
<1>7. /\ stack' = r.stack /\ waitingExecution' = r.waiting /\ waitingNodes' = r.keys
      /\ outOfTurn' = r.outOfTurn /\ wf' = wf
  BY <1>1, <1>2, <1>5, <1>6 DEF finishNode, startVars
<1>8. CASE y.stack # <<>>
  <2>1. r = y
    BY <1>6, <1>8
  <2>2. Finished(out, y)
    BY <1>1, <1>2, <1>4, <1>7, <1>8, <2>1 DEF Finished
  <2> QED  BY <1>4, <1>7, <2>1, <2>2, NextExecOK
<1>9. CASE y.stack = <<>>
  <2>1. r = runWaitingNode(y)
    BY <1>6, <1>9
  <2>2. /\ ExecOK(r)
        /\ \/ readyNodes(y) = {} /\ r = y
           \/ readyNodes(y) # {} /\ Taken(y, r)
    BY <1>3, <1>4, <1>9, <2>1, RunWaiting
  <2>3. Finished(out, y)
    <3>1. CASE readyNodes(y) = {}
      BY <1>1, <1>2, <1>4, <1>7, <2>2, <3>1 DEF Finished
    <3>2. CASE readyNodes(y) # {}
      BY <1>1, <1>2, <1>4, <1>7, <1>9, <2>2, <3>2 DEF Finished
    <3> QED  BY <3>1, <3>2
  <2> QED  BY <1>7, <2>2, <2>3, NextExecOK
<1> QED  BY <1>8, <1>9

-----------------------------------------------------------------------------
(* The kinds of steps before any partial execution                         *)

waitVars == <<waitingExecution, waitingNodes, outOfTurn>>

\* Neither the items, nor what waits, nor the run data change: the node is tried again,
\* the execution is canceled, or the loop ends.
Quiet ==
    /\ UNCHANGED <<stack, waitVars, runData, current, serial, branchEnds, executionError>>
    /\ \/ UNCHANGED <<pc, result>> /\ (pc = "node" \/ UNCHANGED lastNodeExecuted)
       \/ /\ pc = "loop" /\ pc' = "ended" /\ UNCHANGED lastNodeExecuted
          /\ \/ result' = "canceled"
             \/ result' = "error" /\ executionError /\ stack = <<>>
             \/ result' = "success" /\ stack = <<>>

\* The first item of the stack is executed.
Starts ==
    /\ pc = "loop" /\ stack # <<>> /\ current' = Head(stack) /\ stack' = Tail(stack)
    /\ pc' = "node" /\ executionError' = FALSE
    /\ UNCHANGED <<waitVars, runData, serial, branchEnds, result>>

\* The node returned data, or continued on fail.
Finishes(state, out) ==
    /\ pc = "node" /\ state \in {"success", "error"} /\ out \in SUBSET Nat
    /\ state = "error" => current.node \in wf.continueOnFail \cap wf.fails
    /\ pushTask(state, out) /\ \E y : Finished(out, y)
    /\ current' = NoItem /\ lastNodeExecuted' = current.node /\ pc' = "loop"
    /\ executionError' = (state = "error")
    /\ UNCHANGED <<branchEnds, result>>

\* The node returned null.
EndsBranch ==
    /\ pc = "node" /\ current' = NoItem /\ branchEnds' = branchEnds \cup {current}
    /\ pc' = "loop" /\ lastNodeExecuted' = current.node
    /\ UNCHANGED <<stack, waitVars, runData, serial, executionError, result>>

\* The node failed or waits, and is put back.
PutsBack(state, how) ==
    /\ pc = "node" /\ <<state, how>> \in {<<"failed", "error">>, <<"waiting", "waiting">>}
    /\ pushTask(state, {}) /\ putBack
    /\ current' = NoItem /\ lastNodeExecuted' = current.node /\ pc' = "ended"
    /\ result' \in {how, "canceled"} /\ executionError' = (how = "error")
    /\ UNCHANGED <<waitVars, branchEnds>>

\* The task of the last node, which failed or waited, is removed.
Drops ==
    /\ lastNodeExecuted \in wf.nodes /\ runData[lastNodeExecuted] # <<>>
    /\ Last(runData[lastNodeExecuted]).state \in {"failed", "error", "waiting"}
    /\ result = "waiting" => Last(runData[lastNodeExecuted]).state = "waiting"
    /\ runData' = [runData EXCEPT ![lastNodeExecuted] = Front(@)]

\* A resumption or a retry.
Restarts ==
    /\ pc = "ended" /\ restarts' = restarts + 1 /\ pc' = "loop"
    /\ result \in {"error", "waiting"} /\ result' = "none" /\ executionError' = FALSE
    /\ \/ stack' = stack
       \/ stack # <<>> /\ stack' = [stack EXCEPT ![1].disabled = TRUE]
    /\ Drops \/ (runData' = runData /\ result = "error")
    /\ UNCHANGED <<waitVars, current, serial, branchEnds, lastNodeExecuted>>

\* A step that is not a partial execution.
KnownStep ==
    \/ Quiet \/ Starts \/ EndsBranch \/ Restarts
    \/ \E state, out : Finishes(state, out)
    \/ \E state, how : PutsBack(state, how)

\* The number of the outputs.
LEMMA OutcomesType ==
    ASSUME wf \in Workflows, NEW n
    PROVE  outcomes(n) \subseteq SUBSET Nat /\ firstInput \in SUBSET Nat
<1>1. outputs(n) \subseteq Nat
  BY WorkflowFacts DEF outputs
<1> QED  BY <1>1 DEF outcomes, firstInput

\* A destination is never given up.
LEMMA DestinationStays ==
    ASSUME wf \in Workflows, [EngineNext]_engineVars
    PROVE  /\ wf' = wf
           /\ destination' = 0 => destination = 0
           /\ (\E dest \in wf.nodes, dirty \in SUBSET wf.changed : PartialRun(dest, dirty))
                 => destination' # 0
<1>1. 0 \notin wf.nodes
  BY WorkflowFacts
<1>2. CASE UNCHANGED engineVars
  BY <1>1, <1>2 DEF engineVars, startVars, PartialRun
<1>3. CASE StartNode \/ SkipNode \/ NodeReturnsNull \/ RetryNode \/ End \/ Cancel
  BY <1>1, <1>3 DEF StartNode, SkipNode, NodeReturnsNull, RetryNode, End, Cancel, startVars,
                    PartialRun
<1>4. CASE NodeSucceeds \/ ContinueOnFail
  BY <1>1, <1>4 DEF NodeSucceeds, ContinueOnFail, finishNode, startVars, PartialRun
<1>5. CASE NodeFails \/ NodeWaits
  BY <1>1, <1>5 DEF NodeFails, NodeWaits, endsWith, startVars, PartialRun
<1>6. CASE Resume \/ Retry
  BY <1>1, <1>6 DEF Resume, Retry, restart, PartialRun
<1>7. CASE \E dest \in wf.nodes, dirty \in SUBSET wf.changed : PartialRun(dest, dirty)
  BY <1>1, <1>7 DEF PartialRun, restart
<1> QED  BY <1>2, <1>3, <1>4, <1>5, <1>6, <1>7 DEF EngineNext, EngineStep

\* Every step is of one of the kinds.
LEMMA Steps ==
    ASSUME Base, WaitsOnLast, [EngineNext]_engineVars, destination' = 0
    PROVE  KnownStep /\ wf' = wf
<1>1. wf' = wf /\ ~\E dest \in wf.nodes, dirty \in SUBSET wf.changed : PartialRun(dest, dirty)
  BY DestinationStays DEF Base
<1>2. CASE UNCHANGED engineVars
  BY <1>1, <1>2 DEF engineVars, execVars, KnownStep, Quiet, waitVars
<1>3. CASE StartNode
  BY <1>1, <1>3 DEF StartNode, KnownStep, Starts, waitVars
<1>4. CASE SkipNode
  <2>1. stack \in Seq(Items) /\ stack # <<>>
    BY <1>4, ExecState DEF SkipNode, Base, ExecOK
  <2>2. Head(stack) \in Items
    BY <2>1, RangeTail
  <2> QED  BY <1>4, <2>2 DEF SkipNode, Base, Items
<1>5. CASE NodeSucceeds
  <2>1. PICK out \in SUBSET Nat : finishNode("success", out)
    BY <1>5, OutcomesType DEF NodeSucceeds, Base
  <2>2. \E y : Finished(out, y)
    BY <1>5, <2>1, FinishNode DEF NodeSucceeds
  <2>3. Finishes("success", out)
    BY <1>5, <2>1, <2>2 DEF NodeSucceeds, Finishes, finishNode
  <2> QED  BY <1>1, <2>3 DEF KnownStep
<1>6. CASE NodeReturnsNull
  BY <1>1, <1>6 DEF NodeReturnsNull, KnownStep, EndsBranch, execVars, waitVars
<1>7. CASE RetryNode
  BY <1>1, <1>7 DEF RetryNode, mayThrow, KnownStep, Quiet, execVars, waitVars
<1>8. CASE ContinueOnFail
  <2>1. finishNode("error", firstInput) /\ firstInput \in SUBSET Nat /\ pc = "node"
    BY <1>8, OutcomesType DEF ContinueOnFail, Base, mayThrow
  <2>2. \E y : Finished(firstInput, y)
    BY <2>1, FinishNode
  <2>3. Finishes("error", firstInput)
    BY <1>8, <2>1, <2>2 DEF ContinueOnFail, mayThrow, Finishes, finishNode
  <2> QED  BY <1>1, <2>3 DEF KnownStep
<1>9. CASE NodeFails
  <2>1. PutsBack("failed", "error")
    BY <1>9 DEF NodeFails, mayThrow, PutsBack, endsWith, waitVars
  <2> QED  BY <1>1, <2>1 DEF KnownStep
<1>10. CASE NodeWaits
  <2>1. PutsBack("waiting", "waiting")
    BY <1>10 DEF NodeWaits, PutsBack, endsWith, waitVars
  <2> QED  BY <1>1, <2>1 DEF KnownStep
<1>11. CASE End
  BY <1>1, <1>11 DEF End, Base, KnownStep, Quiet, execVars, waitVars
<1>12. CASE Cancel
  BY <1>1, <1>12 DEF Cancel, KnownStep, Quiet, execVars, waitVars
<1>13. CASE Resume
  <2>1. Drops
    BY <1>13 DEF Resume, dropWaitingTask, WaitsOnLast, Drops
  <2>2. Restarts
    BY <1>13, <2>1 DEF Resume, restart, WaitsOnLast, Restarts, waitVars
  <2> QED  BY <1>1, <2>2 DEF KnownStep
<1>14. CASE Retry
  <2>1. Drops \/ runData' = runData
    <3>1. CASE /\ lastNodeExecuted \in wf.nodes /\ runData[lastNodeExecuted] # <<>>
               /\ Last(runData[lastNodeExecuted]).state \in {"failed", "error"}
      BY <1>14, <3>1 DEF Retry, Drops
    <3>2. CASE lastNodeExecuted \notin wf.nodes
      BY <1>14, <3>2 DEF Retry, Base
    <3>3. CASE /\ lastNodeExecuted \in wf.nodes
               /\ ~(/\ runData[lastNodeExecuted] # <<>>
                    /\ Last(runData[lastNodeExecuted]).state \in {"failed", "error"})
      BY <1>14, <3>3 DEF Retry, Base
    <3> QED  BY <3>1, <3>2, <3>3
  <2>2. Restarts
    BY <1>14, <2>1 DEF Retry, restart, Restarts, execVars, waitVars
  <2> QED  BY <1>1, <2>2 DEF KnownStep
<1> QED  BY <1>1, <1>2, <1>3, <1>4, <1>5, <1>6, <1>7, <1>8, <1>9, <1>10, <1>11, <1>12,
            <1>13, <1>14 DEF EngineNext, EngineStep

-----------------------------------------------------------------------------
(* Types                                                                   *)

\* A task is added.
LEMMA PushTask ==
    ASSUME Base, pc = "node", NEW state \in TaskStates, NEW out \in SUBSET Nat,
           pushTask(state, out), NEW n, n = current.node, NEW t, t = task(state, out)
    PROVE  /\ n \in wf.nodes /\ t \in TaskData
           /\ t.main = current.main /\ t.source = current.source /\ t.state = state
           /\ t.out = out /\ t.serial = serial
           /\ runData' \in [wf.nodes -> Seq(TaskData)]
           /\ runData'[n] = Append(runData[n], t)
           /\ \A m \in wf.nodes : m # n => runData'[m] = runData[m]
           /\ Len(runData[n]) \in Nat /\ Len(runData'[n]) = Len(runData[n]) + 1
           /\ \A k \in 1..Len(runData[n]) : runData'[n][k] = runData[n][k]
           /\ runData'[n][Len(runData[n]) + 1] = t
           /\ serial' = serial + 1 /\ serial' \in Nat \ {0}
<1>1. current \in Items /\ serial \in Nat \ {0} /\ runData \in [wf.nodes -> Seq(TaskData)]
  BY DEF Base
<1>2. /\ n \in wf.nodes /\ current.main \in Seq(Data) /\ current.source \in Seq(Sources)
      /\ sourced(current.main, current.source)
  BY <1>1 DEF Items
<1>3. /\ t \in TaskData /\ t.main = current.main /\ t.source = current.source
      /\ t.state = state /\ t.out = out /\ t.serial = serial
  BY <1>1, <1>2 DEF task, TaskData
<1>4. PICK s : s = runData[n] /\ s \in Seq(TaskData)
  BY <1>1, <1>2
<1>5. runData' = [runData EXCEPT ![n] = Append(s, t)] /\ serial' = serial + 1
  BY <1>4 DEF pushTask
<1>6. /\ Append(s, t) \in Seq(TaskData) /\ Len(Append(s, t)) = Len(s) + 1 /\ Len(s) \in Nat
      /\ \A k \in 1..Len(s) : Append(s, t)[k] = s[k]
      /\ Append(s, t)[Len(s) + 1] = t
  BY <1>3, <1>4, AppendProperties, LenProperties
<1>7. /\ runData'[n] = Append(s, t)
      /\ \A m \in wf.nodes : m # n => runData'[m] = runData[m]
      /\ runData' \in [wf.nodes -> Seq(TaskData)]
  BY <1>1, <1>2, <1>5, <1>6
<1>8. serial' \in Nat \ {0}
  BY <1>1, <1>5
<1> QED  BY <1>2, <1>3, <1>4, <1>5, <1>6, <1>7, <1>8

\* A task is removed.
LEMMA DropTask ==
    ASSUME Base, Drops, NEW n, n = lastNodeExecuted
    PROVE  /\ n \in wf.nodes
           /\ runData' \in [wf.nodes -> Seq(TaskData)]
           /\ \A m \in wf.nodes : m # n => runData'[m] = runData[m]
           /\ Len(runData[n]) \in Nat \ {0} /\ Len(runData'[n]) = Len(runData[n]) - 1
           /\ \A k \in 1..Len(runData'[n]) :
                 k \in 1..Len(runData[n]) /\ k # Len(runData[n]) /\ runData'[n][k] = runData[n][k]
           /\ runData[n][Len(runData[n])].state \in {"failed", "error", "waiting"}
           /\ result = "waiting" => runData[n][Len(runData[n])].state = "waiting"
<1>1. n \in wf.nodes /\ runData \in [wf.nodes -> Seq(TaskData)]
  BY DEF Drops, Base
<1>2. PICK s : s = runData[n] /\ s \in Seq(TaskData) /\ s # <<>>
  BY <1>1 DEF Drops
<1>3. /\ Front(s) \in Seq(TaskData) /\ Len(Front(s)) = Len(s) - 1
      /\ \A i \in 1..(Len(s) - 1) : Front(s)[i] = s[i]
      /\ Len(s) \in Nat \ {0}
  BY <1>2, FrontFacts, EmptySeq
<1>4. runData' = [runData EXCEPT ![n] = Front(s)]
  BY <1>1, <1>2 DEF Drops
<1>5. /\ runData'[n] = Front(s)
      /\ \A m \in wf.nodes : m # n => runData'[m] = runData[m]
      /\ runData' \in [wf.nodes -> Seq(TaskData)]
  BY <1>1, <1>3, <1>4
<1>6. /\ s[Len(s)].state \in {"failed", "error", "waiting"}
      /\ result = "waiting" => s[Len(s)].state = "waiting"
  BY <1>2 DEF Drops, Last
<1>7. \A k \in 1..(Len(s) - 1) : k \in 1..Len(s) /\ k # Len(s)
  BY <1>3
<1> QED  BY <1>1, <1>2, <1>3, <1>5, <1>6, <1>7

\* The variables that say where the loop is.
LEMMA ControlStep ==
    ASSUME Base, WaitsOnLast, [EngineNext]_engineVars, destination' = 0
    PROVE  /\ (restarts \in Nat)' /\ (executionError \in BOOLEAN)'
           /\ (pc \in {"loop", "node", "ended"})' /\ (status \in {"running", "canceled"})'
           /\ (result \in {"none", "success", "error", "waiting", "canceled"})'
           /\ (pc = "ended" <=> result # "none")'
           /\ runNodeFilter' = wf.nodes
           /\ (lastNodeExecuted \in wf.nodes \cup {0})'
           /\ (IF pc = "node" THEN current \in Items ELSE current = NoItem)'
<1>1. wf' = wf /\ ~\E dest \in wf.nodes, dirty \in SUBSET wf.changed : PartialRun(dest, dirty)
  BY DestinationStays DEF Base
<1>2. Items' = Items
  BY <1>1, SameWorkflow
<1>3. pc = "node" => current \in Items /\ current.node \in wf.nodes
  BY DEF Base, Items
<1>4. CASE UNCHANGED engineVars
  BY <1>2, <1>4 DEF engineVars, startVars, Base
<1>5. CASE StartNode
  <2>1. stack \in Seq(Items) /\ stack # <<>>
    BY <1>5, ExecState DEF StartNode, Base, ExecOK
  <2>2. current' \in Items
    BY <1>5, <2>1, RangeTail DEF StartNode
  <2> QED  BY <1>2, <1>5, <2>2 DEF StartNode, startVars, Base
<1>6. CASE SkipNode
  <2>1. stack \in Seq(Items) /\ stack # <<>>
    BY <1>6, ExecState DEF SkipNode, Base, ExecOK
  <2>2. Head(stack) \in Items
    BY <2>1, RangeTail
  <2> QED  BY <1>6, <2>2 DEF SkipNode, Base, Items
<1>7. CASE NodeSucceeds \/ ContinueOnFail
  <2>1. PICK state, out : finishNode(state, out) /\ pc = "node"
    BY <1>7 DEF NodeSucceeds, ContinueOnFail, mayThrow
  <2>2. /\ restarts' = restarts /\ pc' = "loop" /\ status' = status /\ result' = result
        /\ current' = NoItem /\ lastNodeExecuted' = current.node
        /\ runNodeFilter' = runNodeFilter /\ executionError' = (state = "error")
    BY <2>1 DEF finishNode, startVars
  <2> QED  BY <1>1, <1>3, <2>1, <2>2 DEF Base
<1>8. CASE NodeReturnsNull
  BY <1>1, <1>3, <1>8 DEF NodeReturnsNull, startVars, Base
<1>9. CASE RetryNode
  BY <1>1, <1>2, <1>3, <1>9 DEF RetryNode, mayThrow, startVars, Base
<1>10. CASE NodeFails \/ NodeWaits
  <2>1. PICK state, how : endsWith(state, how) /\ pc = "node" /\ how \in {"error", "waiting"}
    BY <1>10 DEF NodeFails, NodeWaits, mayThrow
  <2>2. /\ restarts' = restarts /\ pc' = "ended" /\ status' = status
        /\ result' \in {how, "canceled"}
        /\ current' = NoItem /\ lastNodeExecuted' = current.node
        /\ runNodeFilter' = runNodeFilter /\ executionError' = (how = "error")
    BY <2>1 DEF endsWith, startVars
  <2> QED  BY <1>1, <1>3, <2>1, <2>2 DEF Base
<1>11. CASE End
  BY <1>1, <1>2, <1>11 DEF End, startVars, Base
<1>12. CASE Cancel
  BY <1>1, <1>2, <1>12 DEF Cancel, startVars, Base, Running
<1>13. CASE Resume \/ Retry
  <2>1. /\ pc = "ended" /\ restarts' = restarts + 1 /\ pc' = "loop" /\ status' = "running"
        /\ result' = "none" /\ executionError' = FALSE /\ current' = current
        /\ runNodeFilter' = runNodeFilter /\ lastNodeExecuted' = lastNodeExecuted
    BY <1>13 DEF Resume, Retry, restart
  <2>2. (restarts \in Nat)'
    BY <2>1 DEF Base
  <2>3. (executionError \in BOOLEAN)' /\ (pc = "ended" <=> result # "none")'
    BY <2>1
  <2>4. current = NoItem /\ runNodeFilter = wf.nodes /\ lastNodeExecuted \in wf.nodes \cup {0}
    BY <2>1 DEF Base
  <2>5. (IF pc = "node" THEN current \in Items ELSE current = NoItem)'
    BY <2>1, <2>4
  <2> QED  BY <1>1, <2>1, <2>2, <2>3, <2>4, <2>5
<1> QED  BY <1>1, <1>4, <1>5, <1>6, <1>7, <1>8, <1>9, <1>10, <1>11, <1>12, <1>13
            DEF EngineNext, EngineStep

\* The stack with its first item disabled.
firstDisabled(s, u) == s \in Seq(Items) /\ s # <<>> /\ u = [s EXCEPT ![1].disabled = TRUE]

LEMMA DisabledFirst ==
    ASSUME NEW s, NEW u, firstDisabled(s, u)
    PROVE  /\ u \in Seq(Items) /\ Len(u) = Len(s)
           /\ \A i \in 1..Len(s) :
                 /\ u[i].node = s[i].node /\ u[i].main = s[i].main /\ u[i].source = s[i].source
<1>1. /\ Len(s) \in Nat \ {0} /\ DOMAIN s = 1..Len(s) /\ 1 \in 1..Len(s)
      /\ \A i \in 1..Len(s) : s[i] \in Items
  BY EmptySeq, LenProperties, ElementOfSeq DEF firstDisabled
<1>2. PICK t, v : t = s[1] /\ v = [t EXCEPT !.disabled = TRUE]
  OBVIOUS
<1>3. v \in Items /\ v.node = t.node /\ v.main = t.main /\ v.source = t.source
  BY <1>1, <1>2 DEF Items
<1>4. u = [i \in 1..Len(s) |-> IF i = 1 THEN v ELSE s[i]]
  BY <1>1, <1>2 DEF firstDisabled
<1>5. u \in [1..Len(s) -> Items]
  BY <1>1, <1>3, <1>4
<1>6. u \in Seq(Items) /\ Len(u) = Len(s)
  BY <1>1, <1>5, FunctionIsSequence
<1>7. \A i \in 1..Len(s) :
         /\ u[i].node = s[i].node /\ u[i].main = s[i].main /\ u[i].source = s[i].source
  BY <1>2, <1>3, <1>4
<1> QED  BY <1>6, <1>7

\* The types are kept.
LEMMA BaseStep ==
    ASSUME Base, WaitsOnLast, [EngineNext]_engineVars, destination' = 0
    PROVE  Base' /\ WaitsOnLast'
<1>1. wf' = wf /\ KnownStep
  BY Steps
<1>2. /\ stack \in Seq(Items) /\ WaitingOK(waitingExecution)
      /\ KeysOK(waitingNodes, waitingExecution) /\ outOfTurn \in BOOLEAN
      /\ wf \in Workflows /\ runData \in [wf.nodes -> Seq(TaskData)] /\ serial \in Nat \ {0}
  BY ExecState DEF Base, ExecOK
<1>3. ASSUME stack' \in Seq(Items), UNCHANGED waitVars
      PROVE  ExecOK(execState)'
  <2>1. PICK r : r = [stack |-> stack', waiting |-> waitingExecution,
                      keys |-> waitingNodes, outOfTurn |-> outOfTurn]
    OBVIOUS
  <2>2. /\ r.stack = stack' /\ r.waiting = waitingExecution' /\ r.keys = waitingNodes'
        /\ r.outOfTurn = outOfTurn'
        /\ r.stack \in Seq(Items) /\ r.waiting = waitingExecution /\ r.keys = waitingNodes
        /\ r.outOfTurn = outOfTurn
        /\ r = [stack |-> r.stack, waiting |-> r.waiting, keys |-> r.keys,
                outOfTurn |-> r.outOfTurn]
    BY <1>3, <2>1 DEF waitVars
  <2>3. ExecOK(r)
    BY <1>2, <2>2 DEF ExecOK
  <2> QED  BY <1>1, <2>2, <2>3, NextExecOK
<1>4. ASSUME ExecOK(execState)', serial' \in Nat \ {0}, runData' \in [wf.nodes -> Seq(TaskData)]
      PROVE  Base'
  BY <1>1, <1>2, <1>4, ControlStep DEF Base
<1>5. CASE Quiet
  <2>1. Base'
    BY <1>2, <1>3, <1>4, <1>5 DEF Quiet
  <2>2. WaitsOnLast'
    <3>1. /\ stack' = stack /\ runData' = runData
          /\ result' = "waiting" => result = "waiting" /\ lastNodeExecuted' = lastNodeExecuted
      BY <1>5 DEF Quiet, Base
    <3> QED  BY <1>1, <3>1 DEF WaitsOnLast
  <2> QED  BY <2>1, <2>2
<1>6. CASE Starts
  <2>1. stack' \in Seq(Items)
    BY <1>2, <1>6, RangeTail DEF Starts
  <2>2. Base'
    BY <1>2, <1>3, <1>4, <1>6, <2>1 DEF Starts
  <2>3. result' # "waiting"
    BY <1>6 DEF Starts, Base
  <2> QED  BY <2>2, <2>3 DEF WaitsOnLast
<1>7. CASE EndsBranch
  <2>1. Base'
    BY <1>2, <1>3, <1>4, <1>7 DEF EndsBranch
  <2> QED  BY <1>7, <2>1 DEF EndsBranch, Base, WaitsOnLast
<1>8. CASE Restarts
  <2>1. stack' \in Seq(Items)
    <3>1. stack' = stack \/ firstDisabled(stack, stack')
      BY <1>2, <1>8 DEF Restarts, firstDisabled
    <3>2. PICK u : u = stack'
      OBVIOUS
    <3>3. firstDisabled(stack, u) => u \in Seq(Items)
      BY DisabledFirst
    <3> QED  BY <1>2, <3>1, <3>2, <3>3
  <2>2. runData' \in [wf.nodes -> Seq(TaskData)]
    BY <1>2, <1>8, DropTask DEF Restarts
  <2>3. Base'
    BY <1>2, <1>3, <1>4, <1>8, <2>1, <2>2 DEF Restarts
  <2> QED  BY <1>8, <2>3 DEF Restarts, WaitsOnLast
<1>9. ASSUME NEW state, NEW out, Finishes(state, out)
      PROVE  Base' /\ WaitsOnLast'
  <2>1. pc = "node" /\ state \in TaskStates /\ out \in SUBSET Nat /\ pushTask(state, out)
    BY <1>9 DEF Finishes, TaskStates
  <2>2. runData' \in [wf.nodes -> Seq(TaskData)] /\ serial' \in Nat \ {0}
    BY <2>1, PushTask
  <2>3. ExecOK(execState)'
    <3>1. PICK y : Finished(out, y)
      BY <1>9 DEF Finishes
    <3> QED  BY <1>1, <3>1, NextExecOK DEF Finished
  <2>4. Base'
    BY <1>4, <2>2, <2>3
  <2> QED  BY <1>9, <2>4 DEF Finishes, Base, WaitsOnLast
<1>10. ASSUME NEW state, NEW how, PutsBack(state, how)
       PROVE  Base' /\ WaitsOnLast'
  <2>1. pc = "node" /\ state \in TaskStates /\ {} \in SUBSET Nat /\ pushTask(state, {})
    BY <1>10 DEF PutsBack, TaskStates
  <2>2. PICK n, t : n = current.node /\ t = task(state, {})
    OBVIOUS
  <2>3. /\ runData' \in [wf.nodes -> Seq(TaskData)] /\ serial' \in Nat \ {0}
        /\ n \in wf.nodes /\ t.state = state /\ Len(runData[n]) \in Nat
        /\ Len(runData'[n]) = Len(runData[n]) + 1
        /\ runData'[n][Len(runData[n]) + 1] = t
    BY <2>1, <2>2, PushTask
  <2>4. stack' = <<current>> \o stack /\ current \in Items
    BY <1>10 DEF PutsBack, putBack, Base
  <2>5. stack' \in Seq(Items) /\ Len(stack') = Len(stack) + 1 /\ Len(stack) \in Nat
    BY <1>2, <2>4, Prepend, LenProperties
  <2>6. Base'
    BY <1>3, <1>4, <1>10, <2>3, <2>5 DEF PutsBack
  <2>7. WaitsOnLast'
    <3>1. result' = "waiting" => state = "waiting"
      BY <1>10 DEF PutsBack
    <3>2. stack' # <<>> /\ runData'[n] # <<>>
      <4>1. Len(stack') # 0 /\ Len(runData'[n]) # 0
        BY <2>3, <2>5
      <4> QED  BY <4>1
    <3>3. Last(runData'[n]) = t
      BY <2>3 DEF Last
    <3>4. lastNodeExecuted' = n
      BY <1>10, <2>2 DEF PutsBack
    <3> QED  BY <1>1, <2>3, <3>1, <3>2, <3>3, <3>4 DEF WaitsOnLast
  <2> QED  BY <2>6, <2>7
<1> QED  BY <1>1, <1>5, <1>6, <1>7, <1>8, <1>9, <1>10 DEF KnownStep

\* The types, as long as there is no destination.
TypeInv == wf \in Workflows /\ (destination = 0 => Base /\ WaitsOnLast)

LEMMA TypeInit ==
    ASSUME EngineInit
    PROVE  TypeInv
<1>1. wf \in Workflows
  BY DEF EngineInit
<1>2. PICK t : t = [node |-> 1, disabled |-> FALSE, main |-> <<StartData>>, source |-> <<>>]
  OBVIOUS
<1>3. t \in Items
  <2>1. StartData \in Data
    BY DEF StartData, Datum, Data
  <2>2. <<StartData>> \in Seq(Data) /\ Len(<<StartData>>) = 1
    BY <2>1, RangeSingleton
  <2>3. 1 \in wf.nodes /\ inputCount(1) = 1
    BY <1>1, WorkflowFacts, InputCount
  <2>4. <<>> \in Seq(Sources)
    BY EmptySeq
  <2>5. sourced(<<StartData>>, <<>>)
    BY DEF sourced, emitted
  <2> QED  BY <1>2, <2>2, <2>3, <2>4, <2>5 DEF Items
<1>4. stack = <<t>> /\ waitingExecution = << >> /\ waitingNodes = <<>> /\ outOfTurn = FALSE
  BY <1>2 DEF EngineInit
<1>5. stack \in Seq(Items)
  BY <1>3, <1>4, RangeSingleton
<1>6. DOMAIN waitingExecution = {}
  BY <1>4
<1>7. KeysOK(waitingNodes, waitingExecution)
  <2>1. waitingNodes \in Seq(wf.nodes) /\ Range(waitingNodes) = {} /\ DOMAIN waitingNodes = {}
    BY <1>4, EmptySeq DEF Range
  <2> QED  BY <1>6, <2>1 DEF KeysOK, IsInjective
<1>8. ExecOK(execState)
  BY <1>4, <1>5, <1>6, <1>7, ExecState DEF ExecOK, WaitingOK
<1>9. runData \in [wf.nodes -> Seq(TaskData)]
  BY EmptySeq DEF EngineInit
<1>10. /\ serial \in Nat \ {0} /\ restarts \in Nat /\ executionError \in BOOLEAN
       /\ pc = "loop" /\ status = "running" /\ result = "none" /\ current = NoItem
       /\ destination = 0 /\ runNodeFilter = wf.nodes /\ lastNodeExecuted = 0
  <2>1. /\ serial = 1 /\ restarts = 0 /\ executionError = FALSE
        /\ pc = "loop" /\ status = "running" /\ result = "none" /\ current = NoItem
        /\ destination = 0 /\ runNodeFilter = wf.nodes /\ lastNodeExecuted = 0
    BY Zenon DEF EngineInit
  <2>2. executionError \in BOOLEAN
    BY <2>1, Zenon
  <2>3. serial \in Nat \ {0} /\ restarts \in Nat
    BY <2>1
  <2> QED  BY <2>1, <2>2, <2>3, Zenon
<1>11. Base
  BY <1>1, <1>8, <1>9, <1>10 DEF Base
<1> QED  BY <1>1, <1>10, <1>11 DEF TypeInv, WaitsOnLast

LEMMA TypeStep ==
    ASSUME TypeInv, [EngineNext]_engineVars
    PROVE  TypeInv'
<1>1. wf' = wf /\ wf \in Workflows /\ (destination' = 0 => destination = 0)
  BY DestinationStays DEF TypeInv
<1>2. ASSUME destination' = 0
      PROVE  Base' /\ WaitsOnLast'
  BY <1>1, <1>2, BaseStep DEF TypeInv
<1> QED  BY <1>1, <1>2 DEF TypeInv

\* The types are those the runs check.
LEMMA BaseTypes ==
    ASSUME Base
    PROVE  EngineTypeOK
<1>1. /\ stack \in Seq(Items) /\ WaitingOK(waitingExecution)
      /\ KeysOK(waitingNodes, waitingExecution) /\ wf \in Workflows
  BY ExecState DEF Base, ExecOK
<1>2. \A i \in DOMAIN stack : stack[i].node \in wf.nodes /\ stack[i].main # <<>>
  <2>1. ASSUME NEW i \in DOMAIN stack
        PROVE  stack[i].node \in wf.nodes /\ stack[i].main # <<>>
    <3>1. stack[i] \in Items
      BY <1>1, LenProperties, ElementOfSeq
    <3>2. PICK main : main = stack[i].main
      OBVIOUS
    <3>3. Len(main) = inputCount(stack[i].node)
      BY <3>1, <3>2 DEF Items
    <3>4. Len(main) # 0
      BY <1>1, <3>3, InputCount
    <3>5. main # <<>>
      BY <3>4
    <3> QED  BY <3>1, <3>2, <3>5 DEF Items
  <2> QED  BY <2>1
<1>3. /\ Range(waitingNodes) = DOMAIN waitingExecution
      /\ \A n \in DOMAIN waitingExecution : inputCount(n) > 1 /\ DOMAIN waitingExecution[n] # {}
  BY <1>1 DEF KeysOK, WaitingOK
<1>4. pc = "node" <=> current # NoItem
  <2>1. 0 \notin wf.nodes
    BY <1>1, WorkflowFacts
  <2>2. pc = "node" => current.node \in wf.nodes
    BY DEF Base, Items
  <2> QED  BY <2>1, <2>2 DEF Base, NoItem
<1>5. DOMAIN runData = wf.nodes
  BY DEF Base
<1> QED  BY <1>1, <1>2, <1>3, <1>4, <1>5 DEF EngineTypeOK, Base

LEMMA TypesHold == EngineSpec => []TypeInv
<1>1. EngineInit => TypeInv
  BY TypeInit
<1>2. TypeInv /\ [EngineNext]_engineVars => TypeInv'
  BY TypeStep
<1> QED  BY <1>1, <1>2, PTL DEF EngineSpec

\* The stack, the run data and what waits have their types in every workflow and however
\* often an execution is retried or resumed: only nodes with several inputs wait, each
\* with an entry, waitingNodes are the keys, and items are of nodes of the workflow.
THEOREM EngineTypes == EngineSpec => [](destination = 0 => EngineTypeOK)
<1>1. TypeInv => (destination = 0 => EngineTypeOK)
  BY BaseTypes DEF TypeInv
<1> QED  BY <1>1, TypesHold, PTL

-----------------------------------------------------------------------------
(* No node that may run is left                                            *)

\* With an empty stack between two nodes, none of the nodes that wait may run.
NoneReady ==
    /\ result = "success" => stack = <<>>
    /\ branchEnds = {} /\ stack = <<>> /\ pc # "node" =>
          \A n \in DOMAIN waitingExecution : ~mayRun(execState, n)

ReadyInv == destination = 0 => NoneReady

\* Whether a node may run depends on what waits alone.
LEMMA MayRunNext ==
    ASSUME wf' = wf, NEW x, waitingExecution' = x.waiting, waitingNodes' = x.keys, NEW n
    PROVE  mayRun(execState, n)' <=> mayRun(x, n)
<1>1. execState'.waiting = x.waiting /\ execState'.keys = x.keys
  BY DEF execState
<1>2. parentIsWaiting(execState, n)' <=> parentIsWaiting(x, n)
  BY <1>1 DEF parentIsWaiting, getParentNodes, ancestors, Graph
<1>3. requiredInputsMissing(execState, n)' <=> requiredInputsMissing(x, n)
  BY <1>1, SameWorkflow DEF requiredInputsMissing
<1> QED  BY <1>2, <1>3 DEF mayRun

LEMMA ReadyStep ==
    ASSUME TypeInv, ReadyInv, [EngineNext]_engineVars
    PROVE  ReadyInv'
<1>1. SUFFICES ASSUME destination' = 0
               PROVE  NoneReady'
  BY DEF ReadyInv
<1>2. Base /\ WaitsOnLast /\ NoneReady /\ KnownStep /\ wf' = wf
  BY <1>1, DestinationStays, Steps DEF TypeInv, ReadyInv
<1>3. ASSUME UNCHANGED <<waitVars, branchEnds>>, stack' = stack,
             pc # "node", result' = "success" => stack = <<>>
      PROVE  NoneReady'
  <2>1. PICK x : x = execState
    OBVIOUS
  <2>2. /\ waitingExecution' = x.waiting /\ waitingNodes' = x.keys
        /\ x.waiting = waitingExecution
    BY <1>3, <2>1, ExecState DEF waitVars
  <2>3. \A n : mayRun(execState, n)' <=> mayRun(x, n)
    BY <1>2, <2>2, MayRunNext
  <2> QED  BY <1>2, <1>3, <2>1, <2>2, <2>3 DEF NoneReady
<1>4. CASE Quiet
  <2>1. CASE pc = "node"
    <3>1. pc' = "node" /\ result' # "success"
      BY <1>2, <1>4, <2>1 DEF Quiet, Base
    <3> QED  BY <3>1 DEF NoneReady
  <2>2. CASE pc # "node"
    BY <1>2, <1>3, <1>4, <2>2 DEF Quiet, NoneReady
  <2> QED  BY <2>1, <2>2
<1>5. CASE Starts
  <2>1. pc' = "node" /\ result' # "success"
    BY <1>2, <1>5 DEF Starts, Base
  <2> QED  BY <2>1 DEF NoneReady
<1>6. CASE EndsBranch
  <2>1. branchEnds' # {} /\ result' # "success"
    BY <1>2, <1>6 DEF EndsBranch, Base
  <2> QED  BY <2>1 DEF NoneReady
<1>7. CASE Restarts
  <2>1. CASE stack' = stack
    BY <1>3, <1>7, <2>1 DEF Restarts
  <2>2. CASE stack # <<>> /\ stack' = [stack EXCEPT ![1].disabled = TRUE]
    <3>1. stack' # <<>> /\ result' # "success"
      <4>1. stack \in Seq(Items)
        BY <1>2, ExecState DEF Base, ExecOK
      <4>2. Len(stack') = Len(stack) /\ Len(stack) \in Nat \ {0}
        <5>1. PICK u : u = stack'
          OBVIOUS
        <5>2. firstDisabled(stack, u)
          BY <2>2, <4>1, <5>1 DEF firstDisabled
        <5>3. Len(u) = Len(stack)
          BY <5>2, DisabledFirst
        <5> QED  BY <2>2, <4>1, <5>1, <5>3, EmptySeq
      <4>3. Len(stack') # 0
        BY <4>2
      <4> QED  BY <1>7, <4>3 DEF Restarts
    <3> QED  BY <3>1 DEF NoneReady
  <2> QED  BY <1>7, <2>1, <2>2 DEF Restarts
<1>8. ASSUME NEW state, NEW out, Finishes(state, out)
      PROVE  NoneReady'
  <2>1. result' # "success"
    BY <1>2, <1>8 DEF Finishes, Base
  <2>2. PICK y : Finished(out, y)
    BY <1>8 DEF Finishes
  <2>3. ASSUME stack' = <<>>, NEW n \in DOMAIN waitingExecution'
        PROVE  ~mayRun(execState, n)'
    <3>1. y.stack = <<>> /\ readyNodes(y) = {}
      <4>1. ASSUME NEW r, Taken(y, r), stack' = r.stack
            PROVE  FALSE
        BY <2>3, <4>1 DEF Taken
      <4> QED  BY <2>2, <2>3, <4>1 DEF Finished
    <3>2. waitingExecution' = y.waiting /\ waitingNodes' = y.keys /\ ExecOK(y)
      BY <2>2, <3>1 DEF Finished
    <3>3. n \in Range(y.keys)
      BY <2>3, <3>2 DEF ExecOK, KeysOK
    <3>4. ~mayRun(y, n)
      BY <3>1, <3>3 DEF readyNodes, Range
    <3> QED  BY <1>2, <3>2, <3>4, MayRunNext
  <2> QED  BY <2>1, <2>3 DEF NoneReady
<1>9. ASSUME NEW state, NEW how, PutsBack(state, how)
      PROVE  NoneReady'
  <2>1. stack' # <<>> /\ result' # "success"
    <3>1. stack \in Seq(Items) /\ current \in Items
      BY <1>2, <1>9, ExecState DEF Base, ExecOK, PutsBack
    <3>2. Len(stack') = Len(stack) + 1 /\ Len(stack) \in Nat
      BY <1>9, <3>1, Prepend, LenProperties DEF PutsBack, putBack
    <3>3. Len(stack') # 0
      BY <3>2
    <3> QED  BY <1>9, <3>3 DEF PutsBack
  <2> QED  BY <2>1 DEF NoneReady
<1> QED  BY <1>2, <1>4, <1>5, <1>6, <1>7, <1>8, <1>9 DEF KnownStep

\* Unless a node returned null (which skips the look at the waiting nodes), an execution
\* that succeeds leaves a node waiting only if it lacks inputs that it requires, or a node
\* before it waits: the loop over waitingExecution misses no node that could run.
THEOREM NoneReadyAtEnd == EngineSpec => [](branchEnds = {} => NothingReadyAtEnd)
<1>1. EngineInit => ReadyInv
  BY DEF EngineInit, ReadyInv, NoneReady
<1>2. TypeInv /\ ReadyInv /\ [EngineNext]_engineVars => ReadyInv'
  BY ReadyStep
<1>3. TypeInv /\ ReadyInv => (branchEnds = {} => NothingReadyAtEnd)
  BY DEF TypeInv, Base, ReadyInv, NoneReady, NothingReadyAtEnd
<1> QED  BY <1>1, <1>2, <1>3, TypesHold, PTL DEF EngineSpec

-----------------------------------------------------------------------------
(* Data and their sources                                                  *)

\* Datum d of source s is on input i - 1.
spotIn(main, source, i, d, s) ==
    /\ i \in DOMAIN main /\ main[i] = d /\ emitted(d)
    /\ i \in DOMAIN source /\ source[i] = s

\* The datum is on the stack or waits, for that input of node n.
spot(st, w, n, i, d, s) ==
    \/ \E t \in Range(st) : t.node = n /\ spotIn(t.main, t.source, i, d, s)
    \/ \E k : waits(w, n, k) /\ spotIn(w[n][k].main, w[n][k].source, i, d, s)

\* The datum and the source of connection c.
arrives(c, n, i, d, s) ==
    n = c.to /\ i = c.input + 1 /\ d = datumOf(c) /\ s = sourceOf(c.from, c.output)

\* An entry with one more input has the data of before and that of the connection.
LEMMA FilledSpots ==
    ASSUME wf \in Workflows, NEW x, ExecOK(x), NEW c \in Range(wf.conns), NEW k,
           NEW main, NEW source, filledAt(x, c, k, main, source),
           DOMAIN main = 1..inputCount(c.to),
           NEW i, NEW d, NEW s, spotIn(main, source, i, d, s)
    PROVE  spot(x.stack, x.waiting, c.to, i, d, s) \/ arrives(c, c.to, i, d, s)
<1>1. PICK n : n = c.to
  OBVIOUS
<1>2. PICK e : e = x.waiting[n][k]
  OBVIOUS
<1>3. e \in EntriesFor(n) /\ waits(x.waiting, n, k)
  BY <1>1, <1>2 DEF filledAt, waits, ExecOK, WaitingOK
<1>4. /\ i \in 1..inputCount(n) /\ main[i] = d /\ emitted(d) /\ source[i] = s
  BY <1>1 DEF spotIn
<1>5. /\ main[i] = IF i = c.input + 1 THEN datumOf(c) ELSE e.main[i]
      /\ source[i] = IF i = c.input + 1 THEN sourceOf(c.from, c.output) ELSE e.source[i]
  BY <1>1, <1>2, <1>4 DEF filledAt
<1>6. CASE i = c.input + 1
  BY <1>4, <1>5, <1>6 DEF arrives
<1>7. CASE i # c.input + 1
  <2>1. DOMAIN e.main = 1..inputCount(n) /\ DOMAIN e.source = 1..inputCount(n)
    BY <1>3, LenProperties DEF EntriesFor
  <2>2. spotIn(e.main, e.source, i, d, s)
    BY <1>4, <1>5, <1>7, <2>1 DEF spotIn
  <2> QED  BY <1>1, <1>2, <1>3, <2>2 DEF spot
<1> QED  BY <1>6, <1>7

\* Nothing but the data of the connection is added.
LEMMA SpotsAdded ==
    ASSUME wf \in Workflows, NEW x, ExecOK(x), NEW c \in Range(wf.conns), NEW r,
           AddedOne(x, c, r),
           NEW n, NEW i, NEW d, NEW s, spot(r.stack, r.waiting, n, i, d, s)
    PROVE  spot(x.stack, x.waiting, n, i, d, s) \/ arrives(c, n, i, d, s)
<1>1. PICK st, w, u : st = x.stack /\ w = x.waiting /\ u = r.waiting
  OBVIOUS
<1>2. st \in Seq(Items)
  BY <1>1 DEF ExecOK
<1>3. ASSUME NEW t \in Items, r.stack = <<t>> \o st
      PROVE  Range(r.stack) = {t} \cup Range(st)
  BY <1>2, <1>3, Prepend
<1>4. CASE Pushed(x, c, r)
  <2>1. PICK t \in Items :
           /\ inputCount(c.to) = 1 /\ t.node = c.to
           /\ t.main[1] = datumOf(c) /\ 1 \in DOMAIN t.source
           /\ t.source[1] = sourceOf(c.from, c.output)
           /\ r.stack = <<t>> \o st /\ u = w
    BY <1>1, <1>4 DEF Pushed, pushes
  <2>2. DOMAIN t.main = 1..1 /\ c.input = 0
    <3>1. Len(t.main) = 1 /\ t.main \in Seq(Data)
      BY <2>1 DEF Items
    <3>2. c.input + 1 \in 1..1 /\ c.input \in Nat
      BY <2>1, InputCount, WorkflowFacts
    <3> QED  BY <3>1, <3>2, LenProperties
  <2>3. ASSUME t.node = n, spotIn(t.main, t.source, i, d, s)
        PROVE  arrives(c, n, i, d, s)
    <3>1. i = 1 /\ d = datumOf(c) /\ s = sourceOf(c.from, c.output)
      BY <2>1, <2>2, <2>3 DEF spotIn
    <3> QED  BY <2>1, <2>2, <2>3, <3>1 DEF arrives
  <2>4. Range(r.stack) = {t} \cup Range(st)
    BY <1>3, <2>1
  <2> QED  BY <1>1, <2>1, <2>3, <2>4 DEF spot
<1>5. CASE Filled(x, c, r)
  <2>1. PICK k \in Nat, e \in EntriesFor(c.to) :
           /\ filledAt(x, c, k, e.main, e.source)
           /\ r.stack = st
           /\ \A m, j : waits(u, m, j) <=> waits(w, m, j)
           /\ \A m, j : waits(u, m, j) => u[m][j] = IF m = c.to /\ j = k THEN e ELSE w[m][j]
    BY <1>1, <1>5 DEF Filled
  <2>2. DOMAIN e.main = 1..inputCount(c.to)
    BY LenProperties DEF EntriesFor
  <2>3. ASSUME n = c.to, spotIn(e.main, e.source, i, d, s)
        PROVE  spot(st, w, n, i, d, s) \/ arrives(c, n, i, d, s)
    BY <1>1, <2>1, <2>2, <2>3, FilledSpots
  <2>4. ASSUME NEW j, waits(u, n, j), spotIn(u[n][j].main, u[n][j].source, i, d, s)
        PROVE  spot(st, w, n, i, d, s) \/ arrives(c, n, i, d, s)
    <3>1. CASE n = c.to /\ j = k
      BY <2>1, <2>3, <2>4, <3>1
    <3>2. CASE ~(n = c.to /\ j = k)
      <4>1. u[n][j] = w[n][j] /\ waits(w, n, j)
        BY <2>1, <2>4, <3>2
      <4> QED  BY <2>4, <4>1 DEF spot
    <3> QED  BY <3>1, <3>2
  <2> QED  BY <1>1, <2>1, <2>4 DEF spot
<1>6. CASE Completed(x, c, r)
  <2>1. PICK k \in Nat, t \in Items :
           /\ t.node = c.to /\ DOMAIN t.source = 1..inputCount(c.to)
           /\ filledAt(x, c, k, t.main, t.source)
           /\ r.stack = <<t>> \o st
           /\ \A m, j : waits(u, m, j) => waits(w, m, j)
           /\ \A m, j : waits(u, m, j) => u[m][j] = w[m][j]
    BY <1>1, <1>6 DEF Completed, pushes
  <2>2. DOMAIN t.main = 1..inputCount(c.to)
    BY <2>1, LenProperties DEF Items
  <2>3. ASSUME t.node = n, spotIn(t.main, t.source, i, d, s)
        PROVE  spot(st, w, n, i, d, s) \/ arrives(c, n, i, d, s)
    BY <1>1, <2>1, <2>2, <2>3, FilledSpots
  <2>4. Range(r.stack) = {t} \cup Range(st)
    BY <1>3, <2>1
  <2>5. ASSUME NEW j, waits(u, n, j), spotIn(u[n][j].main, u[n][j].source, i, d, s)
        PROVE  spot(st, w, n, i, d, s)
    BY <2>1, <2>5 DEF spot
  <2> QED  BY <1>1, <2>3, <2>4, <2>5 DEF spot
<1>7. CASE Opened(x, c, r)
  <2>1. PICK k \in Nat, e \in EntriesFor(c.to) :
           /\ \A l \in 1..inputCount(c.to) :
                 /\ e.main[l] = IF l = c.input + 1 THEN datumOf(c) ELSE Null
                 /\ l = c.input + 1 => e.source[l] = sourceOf(c.from, c.output)
           /\ r.stack = st
           /\ \A m, j : waits(u, m, j) <=> waits(w, m, j) \/ (m = c.to /\ j = k)
           /\ \A m, j : waits(u, m, j) => u[m][j] = IF m = c.to /\ j = k THEN e ELSE w[m][j]
    BY <1>1, <1>7 DEF Opened
  <2>2. DOMAIN e.main = 1..inputCount(c.to)
    BY LenProperties DEF EntriesFor
  <2>3. ASSUME n = c.to, spotIn(e.main, e.source, i, d, s)
        PROVE  arrives(c, n, i, d, s)
    <3>1. i \in 1..inputCount(c.to) /\ e.main[i] = d /\ emitted(d) /\ e.source[i] = s
      BY <2>2, <2>3 DEF spotIn
    <3>2. e.main[i] # Null
      BY <3>1 DEF emitted, hasItems
    <3> QED  BY <2>1, <2>3, <3>1, <3>2 DEF arrives
  <2>4. ASSUME NEW j, waits(u, n, j), spotIn(u[n][j].main, u[n][j].source, i, d, s)
        PROVE  spot(st, w, n, i, d, s) \/ arrives(c, n, i, d, s)
    <3>1. CASE n = c.to /\ j = k
      BY <2>1, <2>3, <2>4, <3>1
    <3>2. CASE ~(n = c.to /\ j = k)
      <4>1. u[n][j] = w[n][j] /\ waits(w, n, j)
        BY <2>1, <2>4, <3>2
      <4> QED  BY <2>4, <4>1 DEF spot
    <3> QED  BY <3>1, <3>2
  <2> QED  BY <1>1, <2>1, <2>4 DEF spot
<1> QED  BY <1>4, <1>5, <1>6, <1>7 DEF AddedOne

\* A waiting node that goes to the stack takes its data along.
LEMMA SpotsTaken ==
    ASSUME wf \in Workflows, NEW x, ExecOK(x), NEW r, Taken(x, r),
           NEW n, NEW i, NEW d, NEW s, spot(r.stack, r.waiting, n, i, d, s)
    PROVE  spot(x.stack, x.waiting, n, i, d, s)
<1>1. PICK w, u : w = x.waiting /\ u = r.waiting
  OBVIOUS
<1>2. PICK m \in wf.nodes, k \in Nat, t \in Items :
         /\ waits(w, m, k) /\ t.node = m /\ t.source = w[m][k].source
         /\ \A l \in 1..inputCount(m) :
               t.main[l] = IF w[m][k].main[l] = Null THEN EmptyData ELSE w[m][k].main[l]
         /\ r.stack = <<t>>
         /\ \A o, j : waits(u, o, j) => waits(w, o, j)
         /\ \A o, j : waits(u, o, j) => u[o][j] = w[o][j]
  BY <1>1 DEF Taken
<1>3. DOMAIN t.main = 1..inputCount(m) /\ Range(r.stack) = {t}
  BY <1>2, LenProperties, RangeSingleton DEF Items
<1>4. w[m][k] \in EntriesFor(m)
  BY <1>1, <1>2 DEF ExecOK, WaitingOK, waits
<1>5. DOMAIN w[m][k].main = 1..inputCount(m)
  BY <1>4, LenProperties DEF EntriesFor
<1>6. ASSUME t.node = n, spotIn(t.main, t.source, i, d, s)
      PROVE  spot(x.stack, w, n, i, d, s)
  <2>1. i \in 1..inputCount(m) /\ t.main[i] = d /\ emitted(d)
    BY <1>3, <1>6 DEF spotIn
  <2>2. d # EmptyData
    BY <2>1 DEF emitted, hasItems
  <2>3. w[m][k].main[i] = d
    BY <1>2, <2>1, <2>2
  <2>4. spotIn(w[m][k].main, w[m][k].source, i, d, s)
    BY <1>2, <1>5, <1>6, <2>1, <2>3 DEF spotIn
  <2> QED  BY <1>2, <1>6, <2>4 DEF spot
<1>7. ASSUME NEW j, waits(u, n, j), spotIn(u[n][j].main, u[n][j].source, i, d, s)
      PROVE  spot(x.stack, w, n, i, d, s)
  BY <1>2, <1>7 DEF spot
<1> QED  BY <1>1, <1>3, <1>6, <1>7 DEF spot

\* After a node, nothing but what it emitted is added.
LEMMA SpotsFinished ==
    ASSUME Base, NEW out, NEW y, Finished(out, y),
           NEW n, NEW i, NEW d, NEW s, spot(stack, waitingExecution, n, i, d, s)'
    PROVE  \/ spot(stack, waitingExecution, n, i, d, s)
           \/ \E c \in nodesToAdd(current.node, out) : arrives(c, n, i, d, s)
<1>1. PICK x, conns : x = execState /\ conns = nodesToAdd(current.node, out)
  OBVIOUS
<1>2. /\ ExecOK(x) /\ wf \in Workflows /\ Counted
      /\ x.stack = stack /\ x.waiting = waitingExecution
  BY <1>1, BaseCounted, ExecState DEF Base
<1>3. ExecOK(y) /\ y = addNodes(x, conns)
  BY <1>1 DEF Finished
<1>4. spot(y.stack, y.waiting, n, i, d, s)
  <2>1. CASE y.stack # <<>> \/ readyNodes(y) = {}
    <3>1. stack' = y.stack /\ waitingExecution' = y.waiting
      BY <2>1 DEF Finished
    <3> QED  BY <3>1 DEF spot, waits
  <2>2. CASE ~(y.stack # <<>> \/ readyNodes(y) = {})
    <3>1. PICK r : Taken(y, r) /\ stack' = r.stack /\ waitingExecution' = r.waiting
      BY <2>2 DEF Finished
    <3>2. spot(r.stack, r.waiting, n, i, d, s)
      BY <3>1 DEF spot, waits
    <3> QED  BY <1>2, <1>3, <3>1, <3>2, SpotsTaken
  <2> QED  BY <2>1, <2>2
<1> DEFINE a == added(x, conns)
           N == Cardinality(conns)
<1>5. /\ N \in Nat /\ conns \subseteq Range(wf.conns) /\ a[0].state = x
      /\ \A k \in 0..N : a[k].todo \subseteq conns /\ ExecOK(a[k].state)
      /\ \A k \in 1..N : \E c \in a[k - 1].todo : AddedOne(a[k - 1].state, c, a[k].state)
      /\ addNodes(x, conns) = a[N].state
  <2>1. AddsAll(x, conns)
    BY <1>1, <1>2, AddAll
  <2> QED  BY <2>1 DEF AddsAll
<1> HIDE DEF a, N
<1> DEFINE Bad == {k \in 0..N : spot(a[k].state.stack, a[k].state.waiting, n, i, d, s)}
<1>6. N \in Bad
  BY <1>3, <1>4, <1>5
<1>7. PICK k \in Bad : \A m \in Bad : k <= m
  <2>1. Bad \in SUBSET Nat
    BY <1>5
  <2> HIDE DEF Bad
  <2> QED  BY <1>6, <2>1, LeastNumber
<1>8. CASE k = 0
  BY <1>2, <1>5, <1>7, <1>8
<1>9. CASE k # 0
  <2>1. k \in 1..N /\ k - 1 \in 0..N /\ ~(k <= k - 1)
    BY <1>5, <1>7, <1>9
  <2>2. ~spot(a[k - 1].state.stack, a[k - 1].state.waiting, n, i, d, s)
    BY <1>7, <2>1
  <2>3. PICK c \in a[k - 1].todo : AddedOne(a[k - 1].state, c, a[k].state)
    BY <1>5, <2>1
  <2>4. PICK z, r : z = a[k - 1].state /\ r = a[k].state
    OBVIOUS
  <2>5. c \in conns /\ c \in Range(wf.conns) /\ ExecOK(z)
    BY <1>5, <2>1, <2>3, <2>4
  <2>6. AddedOne(z, c, r) /\ spot(r.stack, r.waiting, n, i, d, s)
    BY <1>7, <2>3, <2>4
  <2>7. arrives(c, n, i, d, s)
    BY <1>2, <2>2, <2>4, <2>5, <2>6, SpotsAdded
  <2> QED  BY <1>1, <2>5, <2>7
<1> QED  BY <1>8, <1>9

\* A node that continues on fail feeds nodes with one input only.
ErrorsFeedOne ==
    \A c \in Range(wf.conns) : c.from \in wf.continueOnFail => inputCount(c.to) = 1

\* The source leads over a connection to the task that emitted the datum.
refOK(n, i, d, s) ==
    /\ \E c \in Range(wf.conns) :
          c.from = s.node /\ c.output = s.output /\ c.to = n /\ c.input = i - 1
    /\ s.node \in wf.nodes /\ s.run \in DOMAIN runData[s.node]
    /\ d = Datum(s.node, runData[s.node][s.run].serial, s.output)
    /\ s.output \in runData[s.node][s.run].out

\* The datum waits, is on the stack, is executed, or was executed.
held(n, i, d, s) ==
    \/ spot(stack, waitingExecution, n, i, d, s)
    \/ current.node = n /\ spotIn(current.main, current.source, i, d, s)
    \/ /\ n \in wf.nodes
       /\ \E k \in DOMAIN runData[n] :
             spotIn(runData[n][k].main, runData[n][k].source, i, d, s)

\* The last task of the last node, which a retry would remove.
isLast(s) == s.node = lastNodeExecuted /\ s.run = Len(runData[lastNodeExecuted])

SourceInv ==
    /\ \A n, i, d, s : held(n, i, d, s) => refOK(n, i, d, s)
    /\ \A n \in wf.nodes : \A k \in DOMAIN runData[n] :
          runData[n][k].state \in {"failed", "waiting"} => runData[n][k].out = {}
    /\ pc = "node" => executionError = FALSE
    /\ ErrorsFeedOne /\ ((pc = "loop" /\ executionError = TRUE /\ stack = <<>>) \/ result = "error") =>
          \A n, i, d, s : held(n, i, d, s) => ~isLast(s)

SourceHolds == destination = 0 /\ (restarts = 0 \/ ErrorsFeedOne) => SourceInv

\* The tasks are numbered from 1.
LEMMA TasksOf ==
    ASSUME Base, NEW n \in wf.nodes
    PROVE  DOMAIN runData[n] = 1..Len(runData[n]) /\ Len(runData[n]) \in Nat
  BY BaseCounted, LenProperties

\* Another task leaves the sources as they are.
LEMMA RefGrows ==
    ASSUME Base, Base', wf' = wf, pc = "node", NEW state \in TaskStates, NEW out \in SUBSET Nat,
           pushTask(state, out), NEW n, NEW i, NEW d, NEW s, refOK(n, i, d, s)
    PROVE  /\ refOK(n, i, d, s)'
           /\ ~(s.node = current.node /\ s.run = Len(runData'[current.node]))
<1>1. PICK m, t : m = current.node /\ t = task(state, out)
  OBVIOUS
<1>2. /\ m \in wf.nodes
      /\ \A l \in wf.nodes : l # m => runData'[l] = runData[l]
      /\ Len(runData[m]) \in Nat /\ Len(runData'[m]) = Len(runData[m]) + 1
      /\ \A k \in 1..Len(runData[m]) : runData'[m][k] = runData[m][k]
  <2>1. m \in wf.nodes /\ (\A l \in wf.nodes : l # m => runData'[l] = runData[l])
    BY <1>1, PushTask
  <2>2. Len(runData[m]) \in Nat /\ Len(runData'[m]) = Len(runData[m]) + 1
    BY <1>1, PushTask
  <2>3. \A k \in 1..Len(runData[m]) : runData'[m][k] = runData[m][k]
    BY <1>1, PushTask
  <2> QED  BY <2>1, <2>2, <2>3
<1>3. DOMAIN runData[m] = 1..Len(runData[m]) /\ DOMAIN runData'[m] = 1..(Len(runData[m]) + 1)
  <2>1. DOMAIN runData[m] = 1..Len(runData[m])
    BY <1>2, TasksOf
  <2>2. runData'[m] \in Seq(TaskData)'
    BY <1>2 DEF Base
  <2>3. DOMAIN runData'[m] = 1..Len(runData'[m])
    BY <2>2, LenProperties
  <2> QED  BY <1>2, <2>1, <2>3
<1>4. s.run \in DOMAIN runData'[s.node] /\ runData'[s.node][s.run] = runData[s.node][s.run]
  <2>1. s.node \in wf.nodes /\ s.run \in DOMAIN runData[s.node]
    BY DEF refOK
  <2>2. CASE s.node = m
    <3>1. s.run \in 1..Len(runData[m])
      BY <1>3, <2>1, <2>2
    <3>2. s.run \in 1..(Len(runData[m]) + 1)
      BY <1>2, <3>1
    <3> QED  BY <1>2, <1>3, <2>2, <3>1, <3>2
  <2>3. CASE s.node # m
    BY <1>2, <2>1, <2>3
  <2> QED  BY <2>2, <2>3
<1>5. refOK(n, i, d, s)'
  BY <1>4 DEF refOK
<1>6. ~(s.node = m /\ s.run = Len(runData'[m]))
  <2>1. SUFFICES ASSUME s.node = m
                 PROVE  s.run # Len(runData'[m])
    OBVIOUS
  <2>2. s.run \in 1..Len(runData[m])
    BY <1>3, <2>1 DEF refOK
  <2> QED  BY <1>2, <2>2
<1> QED  BY <1>1, <1>5, <1>6

\* The data of the new task is that of the item that was executed.
LEMMA TaskSpots ==
    ASSUME Base, Base', wf' = wf, pc = "node", NEW state \in TaskStates, NEW out \in SUBSET Nat,
           pushTask(state, out), NEW n \in wf.nodes, NEW k \in DOMAIN runData'[n]
    PROVE  \/ k \in DOMAIN runData[n] /\ runData'[n][k] = runData[n][k]
           \/ /\ n = current.node /\ k = Len(runData[n]) + 1
              /\ runData'[n][k] = task(state, out)
              /\ runData'[n][k].main = current.main /\ runData'[n][k].source = current.source
              /\ runData'[n][k].state = state /\ runData'[n][k].out = out
              /\ runData'[n][k].serial = serial
<1>1. PICK m, t : m = current.node /\ t = task(state, out)
  OBVIOUS
<1>2. /\ m \in wf.nodes
      /\ t.main = current.main /\ t.source = current.source /\ t.state = state
      /\ t.out = out /\ t.serial = serial
      /\ \A l \in wf.nodes : l # m => runData'[l] = runData[l]
      /\ Len(runData[m]) \in Nat /\ Len(runData'[m]) = Len(runData[m]) + 1
      /\ \A j \in 1..Len(runData[m]) : runData'[m][j] = runData[m][j]
      /\ runData'[m][Len(runData[m]) + 1] = t
  <2>1. /\ m \in wf.nodes
        /\ t.main = current.main /\ t.source = current.source /\ t.state = state
        /\ t.out = out /\ t.serial = serial
    BY <1>1, PushTask
  <2>2. /\ \A l \in wf.nodes : l # m => runData'[l] = runData[l]
        /\ Len(runData[m]) \in Nat /\ Len(runData'[m]) = Len(runData[m]) + 1
    BY <1>1, PushTask
  <2>3. /\ \A j \in 1..Len(runData[m]) : runData'[m][j] = runData[m][j]
        /\ runData'[m][Len(runData[m]) + 1] = t
    BY <1>1, PushTask
  <2> QED  BY <2>1, <2>2, <2>3
<1>3. CASE n = m
  <2>1. DOMAIN runData[m] = 1..Len(runData[m])
    BY <1>2, TasksOf
  <2>2. runData'[m] \in Seq(TaskData)'
    BY <1>2 DEF Base
  <2>3. DOMAIN runData'[m] = 1..Len(runData'[m])
    BY <2>2, LenProperties
  <2>4. k \in 1..Len(runData[m]) \/ k = Len(runData[m]) + 1
    BY <1>2, <1>3, <2>3
  <2> QED  BY <1>1, <1>2, <1>3, <2>1, <2>4
<1>4. CASE n # m
  BY <1>2, <1>4
<1> QED  BY <1>3, <1>4

\* What an errored node emits to nodes with one input goes to the stack.
LEMMA ErrorsPush ==
    ASSUME Base, pc = "node", NEW out, NEW y, Finished(out, y), ErrorsFeedOne,
           current.node \in wf.continueOnFail, stack' = <<>>
    PROVE  nodesToAdd(current.node, out) = {}
<1>1. PICK x, conns : x = execState /\ conns = nodesToAdd(current.node, out)
  OBVIOUS
<1>2. ExecOK(x) /\ wf \in Workflows /\ Counted
  BY <1>1, BaseCounted DEF Base
<1>3. y = addNodes(x, conns) /\ y.stack = <<>>
  <2>1. ASSUME NEW r, Taken(y, r), stack' = r.stack
        PROVE  FALSE
    BY <2>1 DEF Taken
  <2> QED  BY <1>1, <2>1 DEF Finished
<1> DEFINE a == added(x, conns)
           N == Cardinality(conns)
<1>4. /\ N \in Nat /\ conns \subseteq Range(wf.conns)
      /\ \A k \in 0..N : a[k].todo \subseteq conns /\ ExecOK(a[k].state)
      /\ \A k \in 1..N : \E c \in a[k - 1].todo :
            /\ a[k].todo = a[k - 1].todo \ {c}
            /\ AddedOne(a[k - 1].state, c, a[k].state)
      /\ addNodes(x, conns) = a[N].state
  <2>1. AddsAll(x, conns)
    BY <1>1, <1>2, AddAll
  <2> QED  BY <2>1 DEF AddsAll
<1>5. N = 0 => conns = {}
  <2>1. IsFiniteSet(conns)
    BY <1>1, <1>2, NodesToAdd
  <2> QED  BY <2>1, FS_EmptySet
<1> HIDE DEF a, N
<1>6. CASE N # 0
  <2>1. N \in 1..N /\ N - 1 \in 0..N
    BY <1>4, <1>6
  <2>2. PICK c \in a[N - 1].todo : AddedOne(a[N - 1].state, c, a[N].state)
    BY <1>4, <2>1
  <2>3. PICK z : z = a[N - 1].state
    OBVIOUS
  <2>4. c \in conns /\ c \in Range(wf.conns) /\ ExecOK(z) /\ AddedOne(z, c, y)
    BY <1>3, <1>4, <2>1, <2>2, <2>3
  <2>5. inputCount(c.to) = 1
    <3>1. c.from = current.node
      BY <1>1, <1>2, <2>4, NodesToAdd
    <3> QED  BY <2>4, <3>1 DEF ErrorsFeedOne
  <2>6. Pushed(z, c, y)
    <3>1. ~(inputCount(c.to) > 1)
      BY <2>5
    <3> QED  BY <2>4, <3>1 DEF AddedOne, Filled, Completed, Opened, filledAt
  <2>7. PICK t \in Items : y.stack = <<t>> \o z.stack
    BY <2>6 DEF Pushed, pushes
  <2>8. z.stack \in Seq(Items)
    BY <2>4 DEF ExecOK
  <2>9. Len(y.stack) = Len(z.stack) + 1 /\ Len(z.stack) \in Nat
    BY <2>7, <2>8, Prepend, LenProperties
  <2>10. Len(y.stack) # 0
    BY <2>9
  <2> QED  BY <1>3, <2>10
<1> QED  BY <1>1, <1>5, <1>6

\* What the node emitted refers to its new task.
LEMMA RefArrives ==
    ASSUME Base, Base', wf' = wf, pc = "node", NEW state \in TaskStates, NEW out \in SUBSET Nat,
           pushTask(state, out), NEW c \in nodesToAdd(current.node, out),
           NEW n, NEW i, NEW d, NEW s, arrives(c, n, i, d, s)
    PROVE  refOK(n, i, d, s)'
<1>1. PICK m, t : m = current.node /\ t = task(state, out)
  OBVIOUS
<1>2. /\ m \in wf.nodes /\ t.out = out /\ t.serial = serial
      /\ Len(runData[m]) \in Nat /\ Len(runData'[m]) = Len(runData[m]) + 1
      /\ runData'[m][Len(runData[m]) + 1] = t
  BY <1>1, PushTask
<1>3. /\ c \in Range(wf.conns) /\ c.from = m /\ c.output \in out /\ c.input \in Nat
  <2>1. wf \in Workflows /\ c \in nodesToAdd(m, out)
    BY <1>1 DEF Base
  <2>2. c \in Range(wf.conns) /\ c.from = m /\ c.output \in out
    BY <2>1, NodesToAdd
  <2> QED  BY <2>1, <2>2, WorkflowFacts
<1>4. s.node = m /\ s.run = Len(runData[m]) + 1 /\ s.output = c.output
  BY <1>3 DEF arrives, sourceOf, Source
<1>5. d = Datum(m, serial, c.output) /\ n = c.to /\ c.input = i - 1
  BY <1>3 DEF arrives, datumOf
<1>6. s.run \in DOMAIN runData'[m]
  <2>1. runData'[m] \in Seq(TaskData)'
    BY <1>2 DEF Base
  <2>2. DOMAIN runData'[m] = 1..Len(runData'[m])
    BY <2>1, LenProperties
  <2> QED  BY <1>2, <1>4, <2>2
<1> QED  BY <1>2, <1>3, <1>4, <1>5, <1>6 DEF refOK

\* Executions are restarted one by one.
LEMMA RestartsGrow ==
    ASSUME [EngineNext]_engineVars
    PROVE  restarts' = restarts \/ restarts' = restarts + 1
<1>1. CASE UNCHANGED engineVars
  BY <1>1 DEF engineVars, startVars
<1>2. CASE StartNode \/ SkipNode \/ NodeReturnsNull \/ RetryNode \/ End \/ Cancel
  BY <1>2 DEF StartNode, SkipNode, NodeReturnsNull, RetryNode, End, Cancel, startVars
<1>3. CASE NodeSucceeds \/ ContinueOnFail
  BY <1>3 DEF NodeSucceeds, ContinueOnFail, finishNode, startVars
<1>4. CASE NodeFails \/ NodeWaits
  BY <1>4 DEF NodeFails, NodeWaits, endsWith, startVars
<1>5. CASE Resume \/ Retry
  BY <1>5 DEF Resume, Retry, restart
<1>6. CASE \E dest \in wf.nodes, dirty \in SUBSET wf.changed : PartialRun(dest, dirty)
  BY <1>6 DEF PartialRun, restart
<1> QED  BY <1>1, <1>2, <1>3, <1>4, <1>5, <1>6 DEF EngineNext, EngineStep

\* A task that failed or waits emitted nothing.
LEMMA NoneEmitted ==
    ASSUME Base, Base', wf' = wf, pc = "node", NEW state \in TaskStates, NEW out \in SUBSET Nat,
           pushTask(state, out), SourceInv, state \in {"failed", "waiting"} => out = {}
    PROVE  \A n \in wf.nodes : \A k \in DOMAIN runData'[n] :
              runData'[n][k].state \in {"failed", "waiting"} => runData'[n][k].out = {}
<1>1. ASSUME NEW n \in wf.nodes, NEW k \in DOMAIN runData'[n],
             runData'[n][k].state \in {"failed", "waiting"}
      PROVE  runData'[n][k].out = {}
  <2>1. CASE k \in DOMAIN runData[n] /\ runData'[n][k] = runData[n][k]
    BY <1>1, <2>1 DEF SourceInv
  <2>2. CASE runData'[n][k].state = state /\ runData'[n][k].out = out
    BY <1>1, <2>2
  <2> QED  BY <2>1, <2>2, TaskSpots
<1> QED  BY <1>1

\* What was executed is held by its task.
LEMMA HeldTask ==
    ASSUME Base, Base', wf' = wf, pc = "node", NEW state \in TaskStates, NEW out \in SUBSET Nat,
           pushTask(state, out), NEW n \in wf.nodes, NEW k \in DOMAIN runData'[n],
           NEW i, NEW d, NEW s, spotIn(runData'[n][k].main, runData'[n][k].source, i, d, s)
    PROVE  held(n, i, d, s)
<1>1. CASE k \in DOMAIN runData[n] /\ runData'[n][k] = runData[n][k]
  BY <1>1 DEF held
<1>2. CASE /\ n = current.node
           /\ runData'[n][k].main = current.main /\ runData'[n][k].source = current.source
  BY <1>2 DEF held
<1> QED  BY <1>1, <1>2, TaskSpots

LEMMA SourceStep ==
    ASSUME TypeInv, TypeInv', SourceHolds, [EngineNext]_engineVars
    PROVE  SourceHolds'
<1>1. SUFFICES ASSUME destination' = 0, restarts' = 0 \/ ErrorsFeedOne'
               PROVE  SourceInv'
  BY DEF SourceHolds
<1>2. Base /\ WaitsOnLast /\ KnownStep /\ wf' = wf /\ Base' /\ wf \in Workflows
  BY <1>1, DestinationStays, Steps DEF TypeInv
<1>3. ErrorsFeedOne' <=> ErrorsFeedOne
  BY <1>2, SameWorkflow DEF ErrorsFeedOne
<1>4. SourceInv
  <2>1. restarts' = 0 => restarts = 0
    <3>1. restarts \in Nat
      BY <1>2 DEF Base
    <3> QED  BY <3>1, RestartsGrow
  <2> QED  BY <1>1, <1>2, <1>3, <2>1 DEF SourceHolds, Base
<1>5. \A n, i, d, s : ~spotIn(NoItem.main, NoItem.source, i, d, s)
  BY DEF spotIn, NoItem
<1>6. CASE Quiet
  <2>1. \A n, i, d, s : held(n, i, d, s)' <=> held(n, i, d, s)
    BY <1>2, <1>6 DEF Quiet, held, waitVars, spot, waits
  <2>2. \A n, i, d, s : refOK(n, i, d, s)' <=> refOK(n, i, d, s)
    BY <1>2, <1>6 DEF Quiet, refOK
  <2>3. pc' = "node" => executionError' = FALSE
    BY <1>2, <1>4, <1>6 DEF Quiet, Base, SourceInv
  <2>4. ASSUME ErrorsFeedOne',
               ((pc = "loop" /\ executionError = TRUE /\ stack = <<>>) \/ result = "error")',
               NEW n, NEW i, NEW d, NEW s, held(n, i, d, s)'
        PROVE  ~isLast(s)'
    <3>1. /\ lastNodeExecuted' = lastNodeExecuted
          /\ (pc = "loop" /\ executionError = TRUE /\ stack = <<>>) \/ result = "error"
      <4>1. executionError \in BOOLEAN /\ (pc = "ended" <=> result # "none")
        BY <1>2 DEF Base
      <4>2. CASE UNCHANGED <<pc, result>> /\ (pc = "node" \/ UNCHANGED lastNodeExecuted)
        BY <1>6, <2>4, <4>1, <4>2 DEF Quiet
      <4>3. CASE pc = "loop" /\ pc' = "ended" /\ UNCHANGED lastNodeExecuted
        <5>1. result' = "error"
          BY <2>4, <4>3
        <5>2. executionError /\ stack = <<>>
          BY <1>6, <4>1, <4>3, <5>1 DEF Quiet
        <5>3. executionError = TRUE
          BY <4>1, <5>2
        <5> QED  BY <4>3, <5>2, <5>3
      <4> QED  BY <1>6, <4>2, <4>3 DEF Quiet
    <3>2. runData' = runData
      BY <1>6 DEF Quiet
    <3> QED  BY <1>3, <1>4, <2>1, <2>4, <3>1, <3>2 DEF SourceInv, isLast
  <2>5. runData' = runData
    BY <1>6 DEF Quiet
  <2> QED  BY <1>2, <1>4, <2>1, <2>2, <2>3, <2>4, <2>5 DEF SourceInv
<1>7. CASE Starts
  <2>1. stack \in Seq(Items) /\ stack # <<>>
    BY <1>2, <1>7, ExecState DEF Base, ExecOK, Starts
  <2>2. Range(Tail(stack)) \subseteq Range(stack) /\ Head(stack) \in Range(stack)
    BY <2>1, RangeTail
  <2>3. \A n, i, d, s : held(n, i, d, s)' => held(n, i, d, s)
    BY <1>2, <1>7, <2>2 DEF Starts, held, waitVars, spot, waits
  <2>4. \A n, i, d, s : refOK(n, i, d, s)' <=> refOK(n, i, d, s)
    BY <1>2, <1>7 DEF Starts, refOK
  <2>5. pc' = "node" /\ executionError' = FALSE /\ result' # "error" /\ runData' = runData
    BY <1>2, <1>7 DEF Starts, Base
  <2> QED  BY <1>2, <1>4, <2>3, <2>4, <2>5 DEF SourceInv
<1>8. CASE EndsBranch
  <2>1. \A n, i, d, s : held(n, i, d, s)' => held(n, i, d, s)
    BY <1>2, <1>5, <1>8 DEF EndsBranch, held, waitVars, spot, waits
  <2>2. \A n, i, d, s : refOK(n, i, d, s)' <=> refOK(n, i, d, s)
    BY <1>2, <1>8 DEF EndsBranch, refOK
  <2>3. pc' = "loop" /\ executionError' = FALSE /\ result' # "error" /\ runData' = runData
    BY <1>2, <1>4, <1>8 DEF EndsBranch, Base, SourceInv
  <2> QED  BY <1>2, <1>4, <2>1, <2>2, <2>3 DEF SourceInv
<1>9. CASE Restarts
  <2>1. pc' = "loop" /\ executionError' = FALSE /\ result' = "none"
    BY <1>9 DEF Restarts
  <2>2. ErrorsFeedOne
    <3>1. restarts' # 0
      BY <1>2, <1>9 DEF Restarts, Base
    <3> QED  BY <1>1, <1>3, <3>1
  <2>3. \A n, i, d, s : spot(stack, waitingExecution, n, i, d, s)' =>
                           spot(stack, waitingExecution, n, i, d, s)
    <3>1. \A t \in Range(stack') :
             \E v \in Range(stack) : v.node = t.node /\ v.main = t.main /\ v.source = t.source
      <4>1. CASE stack' = stack
        BY <4>1
      <4>2. CASE stack # <<>> /\ stack' = [stack EXCEPT ![1].disabled = TRUE]
        <5>1. stack \in Seq(Items)
          BY <1>2, ExecState DEF Base, ExecOK
        <5>2. PICK u : u = stack'
          OBVIOUS
        <5>3. /\ u \in Seq(Items) /\ Len(u) = Len(stack)
              /\ \A j \in 1..Len(stack) :
                    /\ u[j].node = stack[j].node /\ u[j].main = stack[j].main
                    /\ u[j].source = stack[j].source
          <6>1. firstDisabled(stack, u)
            BY <4>2, <5>1, <5>2 DEF firstDisabled
          <6> QED  BY <6>1, DisabledFirst
        <5>4. DOMAIN u = 1..Len(stack) /\ DOMAIN stack = 1..Len(stack)
          BY <5>1, <5>3, LenProperties
        <5> QED  BY <5>2, <5>3, <5>4 DEF Range
      <4> QED  BY <1>9, <4>1, <4>2 DEF Restarts
    <3>2. waitingExecution' = waitingExecution
      BY <1>9 DEF Restarts, waitVars
    <3> QED  BY <3>1, <3>2 DEF spot, waits
  <2>4. CASE runData' = runData
    <3>1. \A n, i, d, s : held(n, i, d, s)' => held(n, i, d, s)
      BY <1>2, <1>9, <2>3, <2>4 DEF Restarts, held
    <3>2. \A n, i, d, s : refOK(n, i, d, s)' <=> refOK(n, i, d, s)
      BY <1>2, <2>4 DEF refOK
    <3> QED  BY <1>2, <1>4, <2>1, <2>4, <3>1, <3>2 DEF SourceInv
  <2>5. CASE Drops
    <3>1. PICK m : m = lastNodeExecuted
      OBVIOUS
    <3>2. /\ m \in wf.nodes
          /\ \A l \in wf.nodes : l # m => runData'[l] = runData[l]
          /\ Len(runData[m]) \in Nat \ {0} /\ Len(runData'[m]) = Len(runData[m]) - 1
          /\ \A k \in 1..Len(runData'[m]) :
                k \in 1..Len(runData[m]) /\ k # Len(runData[m]) /\ runData'[m][k] = runData[m][k]
          /\ runData[m][Len(runData[m])].state \in {"failed", "error", "waiting"}
          /\ result = "waiting" => runData[m][Len(runData[m])].state = "waiting"
      BY <1>2, <2>5, <3>1, DropTask
    <3>3. DOMAIN runData[m] = 1..Len(runData[m]) /\ DOMAIN runData'[m] = 1..(Len(runData[m]) - 1)
      <4>1. DOMAIN runData[m] = 1..Len(runData[m])
        BY <1>2, <3>2, TasksOf
      <4>2. runData'[m] \in Seq(TaskData)'
        BY <1>2, <3>2 DEF Base
      <4>3. DOMAIN runData'[m] = 1..Len(runData'[m])
        BY <4>2, LenProperties
      <4> QED  BY <3>2, <4>1, <4>3
    <3>4. \A n \in wf.nodes : \A k \in DOMAIN runData'[n] :
             k \in DOMAIN runData[n] /\ runData'[n][k] = runData[n][k]
      BY <3>2, <3>3
    <3>5. \A n, i, d, s : held(n, i, d, s)' => held(n, i, d, s)
      BY <1>2, <1>9, <2>3, <3>4 DEF Restarts, held
    <3>6. ASSUME NEW n, NEW i, NEW d, NEW s, held(n, i, d, s)
          PROVE  refOK(n, i, d, s)'
      <4>1. refOK(n, i, d, s)
        BY <1>4, <3>6 DEF SourceInv
      <4>2. ~(s.node = m /\ s.run = Len(runData[m]))
        <5>1. CASE runData[m][Len(runData[m])].state \in {"failed", "waiting"}
          <6>1. Len(runData[m]) \in DOMAIN runData[m]
            BY <3>2, <3>3
          <6>2. runData[m][Len(runData[m])].out = {}
            BY <1>4, <3>2, <5>1, <6>1 DEF SourceInv
          <6> QED  BY <4>1, <6>2 DEF refOK
        <5>2. CASE runData[m][Len(runData[m])].state = "error"
          <6>1. result = "error"
            BY <1>9, <3>2, <5>2 DEF Restarts
          <6> QED  BY <1>4, <2>2, <3>1, <3>6, <6>1 DEF SourceInv, isLast
        <5> QED  BY <3>2, <5>1, <5>2
      <4>3. s.run \in DOMAIN runData'[s.node] /\ runData'[s.node][s.run] = runData[s.node][s.run]
        <5>1. s.node \in wf.nodes /\ s.run \in DOMAIN runData[s.node]
          BY <4>1 DEF refOK
        <5>2. CASE s.node = m
          <6>1. s.run \in 1..Len(runData[m]) /\ s.run # Len(runData[m])
            BY <3>3, <4>2, <5>1, <5>2
          <6>2. s.run \in 1..(Len(runData[m]) - 1)
            BY <3>2, <6>1
          <6> QED  BY <3>2, <3>3, <5>2, <6>2
        <5>3. CASE s.node # m
          BY <3>2, <5>1, <5>3
        <5> QED  BY <5>2, <5>3
      <4> QED  BY <1>2, <4>1, <4>3 DEF refOK
    <3>7. \A n \in wf.nodes : \A k \in DOMAIN runData'[n] :
             runData'[n][k].state \in {"failed", "waiting"} => runData'[n][k].out = {}
      BY <1>4, <3>4 DEF SourceInv
    <3> QED  BY <1>2, <2>1, <3>5, <3>6, <3>7 DEF SourceInv
  <2> QED  BY <1>9, <2>4, <2>5 DEF Restarts
<1>10. ASSUME NEW state, NEW out, Finishes(state, out)
       PROVE  SourceInv'
  <2>1. pc = "node" /\ state \in TaskStates /\ out \in SUBSET Nat /\ pushTask(state, out)
    BY <1>10 DEF Finishes, TaskStates
  <2>2. PICK y : Finished(out, y)
    BY <1>10 DEF Finishes
  <2>3. /\ current' = NoItem /\ pc' = "loop" /\ result' # "error"
        /\ executionError' = (state = "error") /\ lastNodeExecuted' = current.node
        /\ state = "error" => current.node \in wf.continueOnFail
        /\ state \notin {"failed", "waiting"}
    BY <1>2, <1>10 DEF Finishes, Base
  <2>4. ASSUME NEW n, NEW i, NEW d, NEW s, held(n, i, d, s)'
        PROVE  held(n, i, d, s) \/ \E c \in nodesToAdd(current.node, out) : arrives(c, n, i, d, s)
    <3>1. CASE spot(stack, waitingExecution, n, i, d, s)'
      BY <1>2, <2>2, <3>1, SpotsFinished DEF held
    <3>2. CASE (current.node = n /\ spotIn(current.main, current.source, i, d, s))'
      BY <1>5, <2>3, <3>2
    <3>3. ASSUME n \in wf.nodes, NEW k \in DOMAIN runData'[n],
                 spotIn(runData'[n][k].main, runData'[n][k].source, i, d, s)
          PROVE  held(n, i, d, s)
      BY <1>2, <2>1, <3>3, HeldTask
    <3> QED  BY <1>2, <2>4, <3>1, <3>2, <3>3 DEF held
  <2>5. ASSUME NEW n, NEW i, NEW d, NEW s, held(n, i, d, s)
        PROVE  refOK(n, i, d, s)' /\ ~(s.node = current.node /\ s.run = Len(runData'[current.node]))
    <3>1. refOK(n, i, d, s)
      BY <1>4, <2>5 DEF SourceInv
    <3> QED  BY <1>2, <2>1, <3>1, RefGrows
  <2>6. ASSUME NEW n, NEW i, NEW d, NEW s, held(n, i, d, s)'
        PROVE  refOK(n, i, d, s)'
    <3>1. CASE held(n, i, d, s)
      BY <2>5, <3>1
    <3>2. ASSUME NEW c \in nodesToAdd(current.node, out), arrives(c, n, i, d, s)
          PROVE  refOK(n, i, d, s)'
      BY <1>2, <2>1, <3>2, RefArrives
    <3> QED  BY <2>4, <2>6, <3>1, <3>2
  <2>7. \A n \in wf.nodes : \A k \in DOMAIN runData'[n] :
           runData'[n][k].state \in {"failed", "waiting"} => runData'[n][k].out = {}
    BY <1>2, <1>4, <2>1, <2>3, NoneEmitted
  <2>8. ASSUME ErrorsFeedOne', executionError' = TRUE, stack' = <<>>,
               NEW n, NEW i, NEW d, NEW s, held(n, i, d, s)'
        PROVE  ~isLast(s)'
    <3>1. nodesToAdd(current.node, out) = {}
      BY <1>2, <1>3, <2>1, <2>2, <2>3, <2>8, ErrorsPush
    <3>2. held(n, i, d, s)
      BY <2>4, <2>8, <3>1
    <3> QED  BY <2>3, <2>5, <3>2 DEF isLast
  <2> QED  BY <1>2, <2>3, <2>6, <2>7, <2>8 DEF SourceInv
<1>11. ASSUME NEW state, NEW how, PutsBack(state, how)
       PROVE  SourceInv'
  <2>1. pc = "node" /\ state \in TaskStates /\ {} \in SUBSET Nat /\ pushTask(state, {})
    BY <1>11 DEF PutsBack, TaskStates
  <2>2. /\ current' = NoItem /\ pc' = "ended" /\ lastNodeExecuted' = current.node
        /\ waitingExecution' = waitingExecution /\ stack' = <<current>> \o stack
    BY <1>11 DEF PutsBack, waitVars, putBack
  <2>3. Range(stack') = {current} \cup Range(stack)
    <3>1. stack \in Seq(Items) /\ current \in Items
      BY <1>2, <2>1, ExecState DEF Base, ExecOK
    <3> QED  BY <2>2, <3>1, Prepend
  <2>4. ASSUME NEW n, NEW i, NEW d, NEW s, held(n, i, d, s)'
        PROVE  held(n, i, d, s)
    <3>1. CASE spot(stack, waitingExecution, n, i, d, s)'
      BY <2>2, <2>3, <3>1 DEF held, spot, waits
    <3>2. CASE (current.node = n /\ spotIn(current.main, current.source, i, d, s))'
      BY <1>5, <2>2, <3>2
    <3>3. ASSUME n \in wf.nodes, NEW k \in DOMAIN runData'[n],
                 spotIn(runData'[n][k].main, runData'[n][k].source, i, d, s)
          PROVE  held(n, i, d, s)
      BY <1>2, <2>1, <3>3, HeldTask
    <3> QED  BY <1>2, <2>4, <3>1, <3>2, <3>3 DEF held
  <2>5. ASSUME NEW n, NEW i, NEW d, NEW s, held(n, i, d, s)'
        PROVE  refOK(n, i, d, s)' /\ ~isLast(s)'
    <3>1. refOK(n, i, d, s)
      BY <1>4, <2>4, <2>5 DEF SourceInv
    <3>2. refOK(n, i, d, s)' /\ ~(s.node = current.node /\ s.run = Len(runData'[current.node]))
      BY <1>2, <2>1, <3>1, RefGrows
    <3> QED  BY <2>2, <3>2 DEF isLast
  <2>6. \A n \in wf.nodes : \A k \in DOMAIN runData'[n] :
           runData'[n][k].state \in {"failed", "waiting"} => runData'[n][k].out = {}
    BY <1>2, <1>4, <2>1, NoneEmitted
  <2> QED  BY <1>2, <2>2, <2>5, <2>6 DEF SourceInv
<1> QED  BY <1>2, <1>6, <1>7, <1>8, <1>9, <1>10, <1>11 DEF KnownStep

\* What is held in the state the invariant allows matches its source.
LEMMA HeldMatches ==
    ASSUME NEW n, NEW main, NEW source, sourced(main, source),
           \A i, d, s : spotIn(main, source, i, d, s) => refOK(n, i, d, s)
    PROVE  sourcesMatch(n, main, source)
<1>1. ASSUME NEW i \in DOMAIN main, hasItems(main[i]), main[i] # StartData
      PROVE  i \in DOMAIN source /\ refOK(n, i, main[i], source[i])
  <2>1. spotIn(main, source, i, main[i], source[i])
    BY <1>1 DEF spotIn, sourced, emitted
  <2> QED  BY <2>1 DEF spotIn
<1> QED  BY <1>1 DEF sourcesMatch, refOK, connections, outputData

LEMMA SourceImplies ==
    ASSUME Base, SourceInv
    PROVE  SourceMatchesData
<1>1. stack \in Seq(Items) /\ WaitingOK(waitingExecution) /\ wf \in Workflows
  BY ExecState DEF Base, ExecOK
<1>2. ASSUME NEW i \in DOMAIN stack
      PROVE  sourcesMatch(stack[i].node, stack[i].main, stack[i].source)
  <2>1. PICK t : t = stack[i]
    OBVIOUS
  <2>2. t \in Items /\ t \in Range(stack)
    BY <1>1, <2>1, InRange DEF Range
  <2>3. \A j, d, s : spotIn(t.main, t.source, j, d, s) => refOK(t.node, j, d, s)
    BY <2>2 DEF SourceInv, held, spot
  <2>4. PICK n, main, source : n = t.node /\ main = t.main /\ source = t.source
    OBVIOUS
  <2>5. sourced(main, source) /\ \A j, d, s : spotIn(main, source, j, d, s) => refOK(n, j, d, s)
    BY <2>2, <2>3, <2>4 DEF Items
  <2>6. sourcesMatch(n, main, source)
    BY <2>5, HeldMatches
  <2> QED  BY <2>1, <2>4, <2>6
<1>3. sourcesMatch(current.node, current.main, current.source)
  <2>1. PICK n, main, source : n = current.node /\ main = current.main /\ source = current.source
    OBVIOUS
  <2>2. \A j, d, s : spotIn(main, source, j, d, s) => refOK(n, j, d, s)
    BY <2>1 DEF SourceInv, held
  <2>3. sourced(main, source)
    BY <2>1 DEF Base, Items, NoItem, sourced
  <2>4. sourcesMatch(n, main, source)
    BY <2>2, <2>3, HeldMatches
  <2> QED  BY <2>1, <2>4
<1>4. ASSUME NEW p \in Entries
      PROVE  sourcesMatch(p[1], waitingExecution[p[1]][p[2]].main,
                          waitingExecution[p[1]][p[2]].source)
  <2>1. PICK n, k : n \in DOMAIN waitingExecution /\ k \in DOMAIN waitingExecution[n] /\ p = <<n, k>>
    BY <1>4 DEF Entries, entriesOf
  <2>2. PICK e : e = waitingExecution[n][k]
    OBVIOUS
  <2>3. e \in EntriesFor(n) /\ waits(waitingExecution, n, k)
    BY <1>1, <2>1, <2>2 DEF WaitingOK, waits
  <2>4. PICK main, source : main = e.main /\ source = e.source
    OBVIOUS
  <2>5. sourced(main, source)
    BY <2>3, <2>4, LenProperties DEF EntriesFor, sourced
  <2>6. \A j, d, s : spotIn(main, source, j, d, s) => refOK(n, j, d, s)
    BY <2>2, <2>3, <2>4 DEF SourceInv, held, spot
  <2>7. sourcesMatch(n, main, source)
    BY <2>5, <2>6, HeldMatches
  <2> QED  BY <2>1, <2>2, <2>4, <2>7
<1>5. ASSUME NEW t \in Tasks
      PROVE  sourcesMatch(t[1], taskAt(t).main, taskAt(t).source)
  <2>1. PICK n, k : n \in wf.nodes /\ k \in DOMAIN runData[n] /\ t = <<n, k>>
    BY <1>5 DEF Tasks
  <2>2. PICK e : e = runData[n][k]
    OBVIOUS
  <2>3. e \in TaskData
    BY <2>1, <2>2, BaseCounted, InRange DEF Range
  <2>4. PICK main, source : main = e.main /\ source = e.source
    OBVIOUS
  <2>5. sourced(main, source)
    BY <2>3, <2>4 DEF TaskData
  <2>6. \A j, d, s : spotIn(main, source, j, d, s) => refOK(n, j, d, s)
    BY <2>1, <2>2, <2>4 DEF SourceInv, held
  <2>7. sourcesMatch(n, main, source)
    BY <2>5, <2>6, HeldMatches
  <2> QED  BY <2>1, <2>2, <2>4, <2>7 DEF taskAt
<1> QED  BY <1>2, <1>3, <1>4, <1>5 DEF SourceMatchesData

LEMMA SourceInit ==
    ASSUME EngineInit
    PROVE  SourceInv
<1>1. stack = <<[node |-> 1, disabled |-> FALSE, main |-> <<StartData>>, source |-> <<>>]>>
  BY DEF EngineInit
<1>2. /\ DOMAIN waitingExecution = {} /\ current = NoItem /\ pc = "loop"
      /\ result = "none" /\ \A n \in wf.nodes : DOMAIN runData[n] = {}
  BY DEF EngineInit
<1>3. executionError = FALSE
  BY Zenon DEF EngineInit
<1>4. \A t \in Range(stack) : t.source = <<>>
  BY <1>1 DEF Range
<1>5. \A n, i, d, s : ~held(n, i, d, s)
  BY <1>2, <1>4 DEF held, spot, spotIn, waits, NoItem
<1> QED  BY <1>2, <1>3, <1>5 DEF SourceInv

\* In every workflow, wherever data waits, is about to run or has run, previousNode,
\* previousNodeRun and previousNodeOutput lead over a connection to the task that emitted
\* it, through merges, loops, cancellations, and, if a node that continues on fail feeds
\* nodes with one input only, through retries and resumptions.
THEOREM SourcesMatch ==
    EngineSpec => [](destination = 0 /\ (restarts = 0 \/ ErrorsFeedOne) => SourceMatchesData)
<1>1. EngineInit => SourceHolds
  BY SourceInit DEF SourceHolds
<1>2. TypeInv /\ TypeInv' /\ SourceHolds /\ [EngineNext]_engineVars => SourceHolds'
  BY SourceStep
<1>3. TypeInv /\ SourceHolds =>
         (destination = 0 /\ (restarts = 0 \/ ErrorsFeedOne) => SourceMatchesData)
  BY SourceImplies DEF TypeInv, SourceHolds
<1> QED  BY <1>1, <1>2, <1>3, TypesHold, PTL DEF EngineSpec

-----------------------------------------------------------------------------
(* Merges do not run early                                                 *)

\* A node with several inputs is not on a loop.
NoMergeInLoop == \A n \in wf.nodes : inputCount(n) > 1 => n \notin ancestors(Graph, n)

\* An earlier entry has data on every input on which a later one has.
ordered(w, n, j, k, i) ==
    waits(w, n, j) /\ waits(w, n, k) /\ j < k /\ i \in 1..inputCount(n) =>
        (w[n][k].main[i] # Null => w[n][j].main[i] # Null)

stairs(w) == \A n, j, k, i : ordered(w, n, j, k, i)

\* Node m is on the stack or waits.
live(st, w, m) == (\E t \in Range(st) : t.node = m) \/ m \in DOMAIN w

\* An item of node n with input i - 1 empty.
emptyItem(t, n, i) == t.node = n /\ i \in DOMAIN t.main /\ t.main[i] = EmptyData

\* An item of node n with items on input i - 1.
fullItem(t, n, i) == t.node = n /\ i \in DOMAIN t.main /\ hasItems(t.main[i])

\* Nothing has come on the input of the node, and nothing will.
dead(st, w, n, i) ==
    /\ \A m \in ancestors(Graph, n) : ~live(st, w, m)
    /\ \A k : waits(w, n, k) => w[n][k].main[i] = Null
    /\ \A t \in Range(st) : ~fullItem(t, n, i)

\* The nodes before a node: its parents and theirs.
LEMMA Ancestors ==
    ASSUME wf \in Workflows, NEW n, NEW c \in Range(wf.conns)
    PROVE  /\ ancestors(Graph, n) \subseteq wf.nodes
           /\ c.to = n \/ c.to \in ancestors(Graph, n) => c.from \in ancestors(Graph, n)
<1>1. Graph.nodes = wf.nodes /\ Graph.conns = wf.conns
  BY DEF Graph
<1>2. ancestors(Graph, n) \subseteq wf.nodes
  BY <1>1 DEF ancestors
<1>3. c.from \in wf.nodes
  BY WorkflowFacts
<1>4. ASSUME c.to = n \/ c.to \in ancestors(Graph, n)
      PROVE  c.from \in ancestors(Graph, n)
  <2>1. ASSUME NEW S \in SUBSET wf.nodes,
               \A b \in Range(wf.conns) : b.to \in S \cup {n} => b.from \in S
        PROVE  c.from \in S
    <3>1. c.to \in S \cup {n}
      BY <1>1, <1>4, <2>1 DEF ancestors
    <3> QED  BY <2>1, <3>1
  <2> QED  BY <1>1, <1>3, <2>1 DEF ancestors
<1> QED  BY <1>2, <1>4

\* An entry that gets data keeps the order of the entries.
LEMMA StairsAdded ==
    ASSUME wf \in Workflows, Counted, NEW x, ExecOK(x), NEW c \in Range(wf.conns), NEW r,
           AddedOne(x, c, r), ~r.outOfTurn, stairs(x.waiting)
    PROVE  stairs(r.waiting)
<1>1. PICK w, u : w = x.waiting /\ u = r.waiting
  OBVIOUS
<1>2. stairs(w) /\ datumOf(c) # Null
  BY <1>1, Delivered
<1>a. \A n, j : waits(w, n, j) => j \in Nat
  BY <1>1 DEF ExecOK, WaitingOK, waits
<1>3. ASSUME NEW n, NEW j, NEW k, NEW i
      PROVE  ordered(u, n, j, k, i)
  <2>0. SUFFICES ASSUME waits(u, n, j), waits(u, n, k), j < k, i \in 1..inputCount(n),
                        u[n][k].main[i] # Null
                 PROVE  u[n][j].main[i] # Null
    BY DEF ordered
  <2>4. CASE Pushed(x, c, r)
    <3>1. u = w
      BY <1>1, <2>4 DEF Pushed
    <3> QED  BY <1>2, <2>0, <3>1 DEF stairs, ordered
  <2>5. CASE Filled(x, c, r)
    <3>1. PICK p \in Nat, e \in EntriesFor(c.to) :
             /\ filledAt(x, c, p, e.main, e.source)
             /\ \A m, l : waits(u, m, l) <=> waits(w, m, l)
             /\ \A m, l : waits(u, m, l) => u[m][l] = IF m = c.to /\ l = p THEN e ELSE w[m][l]
      BY <1>1, <2>5 DEF Filled
    <3>2. /\ waits(w, c.to, p)
          /\ \A l : waits(w, c.to, l) /\ l < p => w[c.to][l].main[c.input + 1] # Null
          /\ \A l \in 1..inputCount(c.to) :
                e.main[l] = IF l = c.input + 1 THEN datumOf(c) ELSE w[c.to][p].main[l]
      BY <1>1, <3>1 DEF filledAt
    <3>3. waits(w, n, j) /\ waits(w, n, k)
      BY <2>0, <3>1
    <3>4. CASE n = c.to /\ k = p
      <4>1. u[n][k] = e /\ u[n][j] = w[n][j]
        BY <2>0, <1>a, <3>1, <3>3, <3>4
      <4>2. CASE i = c.input + 1
        BY <2>0, <3>2, <3>3, <3>4, <4>1, <4>2
      <4>3. CASE i # c.input + 1
        <5>1. w[n][k].main[i] # Null
          BY <2>0, <3>2, <3>4, <4>1, <4>3
        <5>2. ordered(w, n, j, k, i)
          BY <1>2 DEF stairs
        <5> QED  BY <2>0, <3>3, <4>1, <5>1, <5>2 DEF ordered
      <4> QED  BY <4>2, <4>3
    <3>5. CASE n = c.to /\ j = p
      <4>1. u[n][j] = e /\ u[n][k] = w[n][k]
        BY <2>0, <1>a, <3>1, <3>3, <3>5
      <4>2. CASE i = c.input + 1
        BY <1>2, <2>0, <3>2, <3>5, <4>1, <4>2
      <4>3. CASE i # c.input + 1
        BY <1>2, <2>0, <3>2, <3>3, <3>5, <4>1, <4>3 DEF stairs, ordered
      <4> QED  BY <4>2, <4>3
    <3>6. CASE n # c.to \/ (k # p /\ j # p)
      <4>1. u[n][j] = w[n][j] /\ u[n][k] = w[n][k]
        BY <2>0, <3>1, <3>6
      <4> QED  BY <1>2, <2>0, <3>3, <4>1 DEF stairs, ordered
    <3> QED  BY <3>4, <3>5, <3>6
  <2>6. CASE Completed(x, c, r)
    <3>1. /\ \A m, l : waits(u, m, l) => waits(w, m, l)
          /\ \A m, l : waits(u, m, l) => u[m][l] = w[m][l]
      BY <1>1, <2>6 DEF Completed
    <3> QED  BY <1>2, <2>0, <3>1 DEF stairs, ordered
  <2>7. CASE Opened(x, c, r)
    <3>1. PICK p \in Nat, e \in EntriesFor(c.to) :
             /\ \A l : waits(w, c.to, l) => w[c.to][l].main[c.input + 1] # Null
             /\ \A l \in 1..inputCount(c.to) :
                   e.main[l] = IF l = c.input + 1 THEN datumOf(c) ELSE Null
             /\ \A l : waits(w, c.to, l) => l < p
             /\ \A m, l : waits(u, m, l) <=> waits(w, m, l) \/ (m = c.to /\ l = p)
             /\ \A m, l : waits(u, m, l) => u[m][l] = IF m = c.to /\ l = p THEN e ELSE w[m][l]
      BY <1>1, <2>7 DEF Opened
    <3>2. CASE n = c.to /\ k = p
      <4>1. u[n][k] = e /\ waits(w, n, j) /\ u[n][j] = w[n][j]
        BY <2>0, <1>a, <3>1, <3>2
      <4>2. i = c.input + 1
        BY <2>0, <3>1, <3>2, <4>1
      <4> QED  BY <3>1, <3>2, <4>1, <4>2
    <3>3. CASE n = c.to /\ j = p
      <4>1. waits(w, n, k)
        BY <2>0, <3>1, <3>3
      <4>2. k < p /\ k \in Nat
        BY <1>a, <3>1, <3>3, <4>1
      <4> QED  BY <2>0, <3>3, <4>2
    <3>4. CASE n # c.to \/ (k # p /\ j # p)
      <4>1. u[n][j] = w[n][j] /\ u[n][k] = w[n][k] /\ waits(w, n, j) /\ waits(w, n, k)
        BY <2>0, <3>1, <3>4
      <4> QED  BY <1>2, <2>0, <4>1 DEF stairs, ordered
    <3> QED  BY <3>2, <3>3, <3>4
  <2> QED  BY <2>4, <2>5, <2>6, <2>7 DEF AddedOne
<1>4. stairs(u)
  BY <1>3 DEF stairs
<1> QED  BY <1>1, <1>4

\* What is not for node c.to stays as it is.
LEMMA OthersKept ==
    ASSUME NEW x, ExecOK(x), NEW c \in Range(wf.conns), NEW r, AddedOne(x, c, r)
    PROVE  /\ \A t \in Range(r.stack) : t \in Range(x.stack) \/ t.node = c.to
           /\ \A n, k : n # c.to => (waits(r.waiting, n, k) <=> waits(x.waiting, n, k))
           /\ \A n, k : n # c.to /\ waits(r.waiting, n, k) =>
                 r.waiting[n][k] = x.waiting[n][k]
           /\ x.outOfTurn => r.outOfTurn
<1>1. PICK st, w, u : st = x.stack /\ w = x.waiting /\ u = r.waiting
  OBVIOUS
<1>2. st \in Seq(Items)
  BY <1>1 DEF ExecOK
<1>3. CASE Pushed(x, c, r)
  <2>1. PICK t \in Items : r.stack = <<t>> \o st /\ t.node = c.to
    BY <1>1, <1>3 DEF Pushed, pushes
  <2>2. Range(r.stack) = {t} \cup Range(st)
    BY <1>2, <2>1, Prepend
  <2> QED  BY <1>1, <1>3, <2>1, <2>2 DEF Pushed
<1>4. CASE Completed(x, c, r)
  <2>1. PICK t \in Items : r.stack = <<t>> \o st /\ t.node = c.to
    BY <1>1, <1>4 DEF Completed, pushes
  <2>2. Range(r.stack) = {t} \cup Range(st)
    BY <1>2, <2>1, Prepend
  <2> QED  BY <1>1, <1>4, <2>1, <2>2 DEF Completed
<1>5. CASE Filled(x, c, r)
  BY <1>1, <1>5 DEF Filled
<1>6. CASE Opened(x, c, r)
  BY <1>1, <1>6 DEF Opened
<1> QED  BY <1>3, <1>4, <1>5, <1>6 DEF AddedOne

\* Items with an empty input are not made here.
LEMMA EmptyAdded ==
    ASSUME wf \in Workflows, Counted, NEW x, ExecOK(x), NEW c \in Range(wf.conns), NEW r,
           AddedOne(x, c, r), NEW n, NEW i, NEW t \in Range(r.stack), emptyItem(t, n, i)
    PROVE  t \in Range(x.stack)
<1>1. PICK st, w : st = x.stack /\ w = x.waiting
  OBVIOUS
<1>2. st \in Seq(Items)
  BY <1>1 DEF ExecOK
<1>3. i \in DOMAIN t.main /\ t.main[i] = EmptyData
  BY DEF emptyItem
<1>4. datumOf(c) # EmptyData
  <2>1. datumOf(c).node # 0
    BY Delivered
  <2> QED  BY <2>1 DEF EmptyData, Datum
<1>5. CASE Pushed(x, c, r)
  <2>1. PICK v \in Items : /\ r.stack = <<v>> \o st /\ v.node = c.to /\ inputCount(c.to) = 1
                           /\ v.main[1] = datumOf(c)
    BY <1>1, <1>5 DEF Pushed, pushes
  <2>2. Range(r.stack) = {v} \cup Range(st)
    BY <1>2, <2>1, Prepend
  <2>3. DOMAIN v.main = 1..1
    BY <2>1, LenProperties DEF Items
  <2>4. t # v
    BY <1>3, <1>4, <2>1, <2>3
  <2> QED  BY <1>1, <2>2, <2>4
<1>6. CASE Completed(x, c, r)
  <2>1. PICK k \in Nat, v \in Items : /\ r.stack = <<v>> \o st /\ v.node = c.to
                                      /\ filledAt(x, c, k, v.main, v.source)
    BY <1>1, <1>6 DEF Completed, pushes
  <2>2. Range(r.stack) = {v} \cup Range(st)
    BY <1>2, <2>1, Prepend
  <2>3. DOMAIN v.main = 1..inputCount(c.to)
    BY <2>1, LenProperties DEF Items
  <2>4. waits(w, c.to, k) /\ \A l \in 1..inputCount(c.to) :
           v.main[l] = IF l = c.input + 1 THEN datumOf(c) ELSE w[c.to][k].main[l]
    BY <1>1, <2>1 DEF filledAt
  <2>5. w[c.to][k] \in EntriesFor(c.to)
    BY <1>1, <2>4 DEF ExecOK, WaitingOK, waits
  <2>6. \A l \in 1..inputCount(c.to) : w[c.to][k].main[l] # EmptyData
    <3>1. EmptyData # Null /\ EmptyData.node = 0
      BY DEF Null, EmptyData, Datum
    <3>2. \A l \in 1..inputCount(c.to) : w[c.to][k].main[l] = Null \/ w[c.to][k].main[l].node # 0
      BY <2>5 DEF EntriesFor
    <3> QED  BY <3>1, <3>2
  <2>7. t # v
    BY <1>3, <1>4, <2>3, <2>4, <2>6
  <2> QED  BY <1>1, <2>2, <2>7
<1>7. CASE Filled(x, c, r) \/ Opened(x, c, r)
  BY <1>7 DEF Filled, Opened
<1> QED  BY <1>5, <1>6, <1>7 DEF AddedOne

\* A node that is not before n brings nothing for n.
LEMMA DeadAdded ==
    ASSUME wf \in Workflows, NEW x, ExecOK(x), NEW c \in Range(wf.conns), NEW r, ExecOK(r),
           AddedOne(x, c, r), NEW n, NEW i, c.from \notin ancestors(Graph, n),
           dead(x.stack, x.waiting, n, i)
    PROVE  dead(r.stack, r.waiting, n, i)
<1>1. PICK A, to : A = ancestors(Graph, n) /\ to = c.to
  OBVIOUS
<1>2. to # n /\ to \notin A
  BY <1>1, Ancestors
<1>3. PICK st, w, v, u : st = x.stack /\ w = x.waiting /\ v = r.stack /\ u = r.waiting
  OBVIOUS
<1>4. /\ \A t \in Range(v) : t \in Range(st) \/ t.node = to
      /\ \A m, k : m # to => (waits(u, m, k) <=> waits(w, m, k))
      /\ \A m, k : m # to /\ waits(u, m, k) => u[m][k] = w[m][k]
  BY <1>1, <1>3, OthersKept
<1>5. \A m \in DOMAIN u : \E k : waits(u, m, k)
  BY <1>3 DEF ExecOK, WaitingOK, waits
<1>6. /\ \A m \in A : ~live(st, w, m)
      /\ \A k : waits(w, n, k) => w[n][k].main[i] = Null
      /\ \A t \in Range(st) : ~fullItem(t, n, i)
  BY <1>1, <1>3 DEF dead
<1>7. ASSUME NEW m \in A
      PROVE  ~live(v, u, m)
  <2>1. m # to /\ ~live(st, w, m)
    BY <1>2, <1>6
  <2>2. m \notin DOMAIN u
    BY <1>4, <1>5, <2>1 DEF live, waits
  <2> QED  BY <1>4, <2>1, <2>2 DEF live
<1>8. \A k : waits(u, n, k) => u[n][k].main[i] = Null
  BY <1>2, <1>4, <1>6
<1>9. \A t \in Range(v) : ~fullItem(t, n, i)
  BY <1>2, <1>4, <1>6 DEF fullItem
<1> QED  BY <1>1, <1>3, <1>7, <1>8, <1>9 DEF dead

\* From x on, z has no more of what the invariant below forbids.
Kept(x, z) ==
    /\ ~z.outOfTurn => ~x.outOfTurn /\ (stairs(x.waiting) => stairs(z.waiting))
    /\ \A n, i : current.node \notin ancestors(Graph, n) /\ dead(x.stack, x.waiting, n, i) =>
          dead(z.stack, z.waiting, n, i)
    /\ \A n, i : \A t \in Range(z.stack) : emptyItem(t, n, i) => t \in Range(x.stack)

LEMMA KeptStep ==
    ASSUME wf \in Workflows, Counted, NEW x, NEW y, ExecOK(y), NEW c \in Range(wf.conns),
           c.from = current.node, NEW r, ExecOK(r), Kept(x, y), AddedOne(y, c, r)
    PROVE  Kept(x, r)
<1>1. ASSUME ~r.outOfTurn
      PROVE  ~x.outOfTurn /\ (stairs(x.waiting) => stairs(r.waiting))
  <2>1. ~y.outOfTurn
    BY <1>1, OthersKept
  <2>2. stairs(y.waiting) => stairs(r.waiting)
    BY <1>1, StairsAdded
  <2> QED  BY <2>1, <2>2 DEF Kept
<1>2. ASSUME NEW n, NEW i, current.node \notin ancestors(Graph, n),
             dead(x.stack, x.waiting, n, i)
      PROVE  dead(r.stack, r.waiting, n, i)
  <2>1. dead(y.stack, y.waiting, n, i)
    BY <1>2 DEF Kept
  <2> QED  BY <1>2, <2>1, DeadAdded
<1>3. ASSUME NEW n, NEW i, NEW t \in Range(r.stack), emptyItem(t, n, i)
      PROVE  t \in Range(x.stack)
  <2>1. t \in Range(y.stack)
    BY <1>3, EmptyAdded
  <2> QED  BY <1>3, <2>1 DEF Kept
<1> QED  BY <1>1, <1>2, <1>3 DEF Kept

\* All connections of the node that was executed.
LEMMA KeptAdded ==
    ASSUME wf \in Workflows, Counted, NEW x, ExecOK(x), NEW out,
           NEW y, y = addNodes(x, nodesToAdd(current.node, out))
    PROVE  Kept(x, y)
<1>1. PICK conns : conns = nodesToAdd(current.node, out)
  OBVIOUS
<1> DEFINE a == added(x, conns)
           N == Cardinality(conns)
<1>2. /\ N \in Nat /\ conns \subseteq Range(wf.conns) /\ a[0].state = x
      /\ \A k \in 0..N : a[k].todo \subseteq conns /\ ExecOK(a[k].state)
      /\ \A k \in 1..N : \E c \in a[k - 1].todo :
            /\ a[k].todo = a[k - 1].todo \ {c}
            /\ AddedOne(a[k - 1].state, c, a[k].state)
      /\ addNodes(x, conns) = a[N].state
  <2>1. AddsAll(x, conns)
    BY <1>1, AddAll
  <2> QED  BY <2>1 DEF AddsAll
<1> HIDE DEF a, N
<1> DEFINE Bad == {k \in 0..N : ~Kept(x, a[k].state)}
<1>3. Bad = {}
  <2>1. SUFFICES ASSUME Bad # {}
                 PROVE  FALSE
    OBVIOUS
  <2>2. PICK k \in Bad : \A m \in Bad : k <= m
    <3>1. Bad \in SUBSET Nat
      BY <1>2
    <3> HIDE DEF Bad
    <3> QED  BY <2>1, <3>1, LeastNumber
  <2>3. k # 0
    <3>1. Kept(x, x)
      BY DEF Kept
    <3> QED  BY <1>2, <2>2, <3>1
  <2>4. k \in 1..N /\ k \in 0..N /\ k - 1 \in 0..N /\ ~(k <= k - 1)
    BY <1>2, <2>2, <2>3
  <2>5. PICK c \in a[k - 1].todo : AddedOne(a[k - 1].state, c, a[k].state)
    BY <1>2, <2>4
  <2>6. PICK z, r : z = a[k - 1].state /\ r = a[k].state
    OBVIOUS
  <2>7. Kept(x, z) /\ ExecOK(z) /\ ExecOK(r) /\ AddedOne(z, c, r)
    BY <1>2, <2>2, <2>4, <2>5, <2>6
  <2>8. c \in Range(wf.conns) /\ c.from = current.node
    BY <1>1, <1>2, <2>4, NodesToAdd
  <2>9. Kept(x, r)
    BY <2>7, <2>8, KeptStep
  <2> QED  BY <2>2, <2>6, <2>9
<1>4. N \in 0..N
  BY <1>2
<1> QED  BY <1>1, <1>2, <1>3, <1>4

\* A waiting node that goes to the stack.
LEMMA KeptTaken ==
    ASSUME wf \in Workflows, NoMergeInLoop, NEW y, ExecOK(y), y.stack = <<>>, NEW r, ExecOK(r),
           Taken(y, r), ~r.outOfTurn, stairs(y.waiting)
    PROVE  /\ stairs(r.waiting)
           /\ \A n, i : dead(y.stack, y.waiting, n, i) => dead(r.stack, r.waiting, n, i)
           /\ \A n, i : \A t \in Range(r.stack) : emptyItem(t, n, i) =>
                 dead(r.stack, r.waiting, n, i)
<1>1. PICK w, u, st : w = y.waiting /\ u = r.waiting /\ st = r.stack
  OBVIOUS
<1>2. PICK m \in wf.nodes, p \in Nat, t \in Items :
         /\ mayRun(y, m) /\ waits(w, m, p)
         /\ \A j : waits(w, m, j) => p <= j
         /\ t.node = m
         /\ \A k \in 1..inputCount(m) :
               t.main[k] = IF w[m][p].main[k] = Null THEN EmptyData ELSE w[m][p].main[k]
         /\ st = <<t>>
         /\ \A l, j : waits(u, l, j) <=> waits(w, l, j) /\ ~(l = m /\ j = p)
         /\ \A l, j : waits(u, l, j) => u[l][j] = w[l][j]
  BY <1>1 DEF Taken
<1>3. WaitingOK(w) /\ WaitingOK(u) /\ Range(y.keys) = DOMAIN w /\ stairs(w)
  BY <1>1 DEF ExecOK, KeysOK
<1>4. /\ Range(st) = {t} /\ DOMAIN t.main = 1..inputCount(m)
      /\ inputCount(m) > 1 /\ m \in DOMAIN w
  <2>1. Range(st) = {t}
    BY <1>2, RangeSingleton
  <2>2. DOMAIN t.main = 1..inputCount(m)
    BY <1>2, LenProperties DEF Items
  <2> QED  BY <1>2, <1>3, <2>1, <2>2 DEF WaitingOK, waits
<1>5. DOMAIN u \subseteq DOMAIN w
  BY <1>2, <1>3 DEF WaitingOK, waits
<1>6. \A i : emptyItem(t, m, i) => i \in 1..inputCount(m) /\ w[m][p].main[i] = Null
  <2>1. EmptyData # Null /\ EmptyData.node = 0
    BY DEF Null, EmptyData, Datum
  <2>2. w[m][p] \in EntriesFor(m)
    BY <1>2, <1>3 DEF WaitingOK, waits
  <2>3. \A l \in 1..inputCount(m) : w[m][p].main[l] = Null \/ w[m][p].main[l].node # 0
    BY <2>2 DEF EntriesFor
  <2> QED  BY <1>2, <1>4, <2>1, <2>3 DEF emptyItem
<1>7. ~hasItems(EmptyData)
  BY DEF hasItems
<1>8. stairs(u)
  <2>1. ASSUME NEW n, NEW j, NEW k, NEW i
        PROVE  ordered(u, n, j, k, i)
    <3>1. ordered(w, n, j, k, i)
      BY <1>3 DEF stairs
    <3> QED  BY <1>2, <3>1 DEF ordered
  <2> QED  BY <2>1 DEF stairs
<1>9. ASSUME NEW n, NEW i, dead(y.stack, w, n, i)
      PROVE  dead(st, u, n, i)
  <2>1. /\ \A l \in ancestors(Graph, n) : l \notin DOMAIN w
        /\ \A k : waits(w, n, k) => w[n][k].main[i] = Null
    BY <1>9 DEF dead, live
  <2>2. \A l \in ancestors(Graph, n) : ~live(st, u, l)
    BY <1>2, <1>4, <1>5, <2>1 DEF live
  <2>3. \A k : waits(u, n, k) => u[n][k].main[i] = Null
    BY <1>2, <2>1
  <2>4. ~fullItem(t, n, i)
    <3>1. SUFFICES ASSUME n = m, i \in 1..inputCount(m)
                   PROVE  ~hasItems(t.main[i])
      BY <1>2, <1>4 DEF fullItem
    <3>2. w[m][p].main[i] = Null
      BY <1>2, <2>1, <3>1
    <3> QED  BY <1>2, <1>7, <3>1, <3>2
  <2> QED  BY <1>4, <2>2, <2>3, <2>4 DEF dead
<1>10. ASSUME NEW n, NEW i, emptyItem(t, n, i)
       PROVE  dead(st, u, n, i)
  <2>1. n = m /\ i \in 1..inputCount(m) /\ w[m][p].main[i] = Null /\ t.main[i] = EmptyData
    BY <1>2, <1>6, <1>10 DEF emptyItem
  <2>2. \A l \in ancestors(Graph, m) : l # m /\ l \notin DOMAIN w
    <3>1. m \notin ancestors(Graph, m)
      BY <1>4, <1>2 DEF NoMergeInLoop
    <3>2. getParentNodes(Graph, m) \cap DOMAIN w = {}
      BY <1>2, <1>3 DEF mayRun, parentIsWaiting
    <3> QED  BY <3>1, <3>2 DEF getParentNodes
  <2>3. \A l \in ancestors(Graph, n) : ~live(st, u, l)
    BY <1>2, <1>4, <1>5, <2>1, <2>2 DEF live
  <2>4. ASSUME NEW k, waits(u, n, k)
        PROVE  u[n][k].main[i] = Null
    <3>1. waits(w, m, k) /\ k # p /\ u[m][k] = w[m][k] /\ p <= k
      BY <1>2, <2>1, <2>4
    <3>2. k \in Nat
      BY <1>3, <3>1 DEF WaitingOK, waits
    <3>3. p < k
      BY <3>1, <3>2
    <3>4. ordered(w, m, p, k, i)
      BY <1>3 DEF stairs
    <3> QED  BY <1>2, <2>1, <3>1, <3>3, <3>4 DEF ordered
  <2>5. ~fullItem(t, n, i)
    BY <1>7, <2>1 DEF fullItem
  <2> QED  BY <1>4, <2>3, <2>4, <2>5 DEF dead
<1> QED  BY <1>1, <1>4, <1>8, <1>9, <1>10

\* An item or a task of node n has input i - 1 empty.
emptyAt(n, i) ==
    \/ \E t \in Range(stack) \cup {current} : emptyItem(t, n, i)
    \/ /\ n \in wf.nodes
       /\ \E k \in DOMAIN runData[n] :
             i \in DOMAIN runData[n][k].main /\ runData[n][k].main[i] = EmptyData

\* Nothing is or will be on that input of the node.
noMore(n, i) ==
    /\ dead(stack, waitingExecution, n, i)
    /\ current.node \notin ancestors(Graph, n) /\ ~fullItem(current, n, i)

\* Run k of node n has data on inputs that were not empty in run j.
inTurn(n, j, k) ==
    j < k => \A i \in 1..inputCount(n) :
                runData[n][j].main[i] = EmptyData => ~hasItems(runData[n][k].main[i])

MergeInv ==
    /\ stairs(waitingExecution)
    /\ \A n, i : emptyAt(n, i) => noMore(n, i)
    /\ \A n \in wf.nodes : \A k \in DOMAIN runData[n] :
          DOMAIN runData[n][k].main = 1..inputCount(n)
    /\ \A n \in wf.nodes : \A j, k \in DOMAIN runData[n] : inTurn(n, j, k)

MergeHolds == destination = 0 /\ ~outOfTurn /\ NoMergeInLoop => MergeInv

\* The run data after another task.
LEMMA MergeTask ==
    ASSUME Base, Base', wf' = wf, pc = "node", NEW state \in TaskStates, NEW out \in SUBSET Nat,
           pushTask(state, out), MergeInv
    PROVE  /\ \A n \in wf.nodes : \A k \in DOMAIN runData'[n] :
                 DOMAIN runData'[n][k].main = 1..inputCount(n)
           /\ \A n \in wf.nodes : \A j, k \in DOMAIN runData'[n] : inTurn(n, j, k)'
           /\ \A n \in wf.nodes : \A i : \A k \in DOMAIN runData'[n] :
                 i \in DOMAIN runData'[n][k].main /\ runData'[n][k].main[i] = EmptyData =>
                    emptyAt(n, i)
<1>1. /\ current \in Items /\ current.node \in wf.nodes
      /\ DOMAIN current.main = 1..inputCount(current.node)
  <2>1. current \in Items
    BY DEF Base
  <2> QED  BY <2>1, LenProperties DEF Items
<1>2. \A n : inputCount(n)' = inputCount(n)
  BY SameWorkflow
<1>3. ASSUME NEW n \in wf.nodes, NEW k \in DOMAIN runData'[n]
      PROVE  /\ DOMAIN runData'[n][k].main = 1..inputCount(n)
             /\ \A i : i \in DOMAIN runData'[n][k].main /\ runData'[n][k].main[i] = EmptyData =>
                    emptyAt(n, i)
  <2>1. CASE k \in DOMAIN runData[n] /\ runData'[n][k] = runData[n][k]
    BY <2>1 DEF MergeInv, emptyAt
  <2>2. CASE n = current.node /\ runData'[n][k].main = current.main
    BY <1>1, <2>2 DEF emptyAt, emptyItem
  <2>3. \/ k \in DOMAIN runData[n] /\ runData'[n][k] = runData[n][k]
        \/ n = current.node /\ runData'[n][k].main = current.main
    <3>1. \/ k \in DOMAIN runData[n] /\ runData'[n][k] = runData[n][k]
          \/ /\ n = current.node /\ k = Len(runData[n]) + 1
             /\ runData'[n][k] = task(state, out)
             /\ runData'[n][k].main = current.main /\ runData'[n][k].source = current.source
             /\ runData'[n][k].state = state /\ runData'[n][k].out = out
             /\ runData'[n][k].serial = serial
      BY TaskSpots, Zenon
    <3> QED  BY <3>1
  <2> QED  BY <2>1, <2>2, <2>3
<1>4. ASSUME NEW n \in wf.nodes, NEW j \in DOMAIN runData'[n], NEW k \in DOMAIN runData'[n]
      PROVE  inTurn(n, j, k)'
  <2>1. SUFFICES ASSUME j < k, NEW i \in 1..inputCount(n), runData'[n][j].main[i] = EmptyData
                 PROVE  ~hasItems(runData'[n][k].main[i])
    <3>1. \A d : hasItems(d)' <=> hasItems(d)
      BY DEF hasItems
    <3> QED  BY <1>2, <3>1 DEF inTurn
  <2>2. DOMAIN runData[n] = 1..Len(runData[n]) /\ Len(runData[n]) \in Nat
    BY TasksOf
  <2>3. \/ k \in DOMAIN runData[n] /\ runData'[n][k] = runData[n][k]
        \/ n = current.node /\ k = Len(runData[n]) + 1 /\ runData'[n][k].main = current.main
    BY TaskSpots
  <2>4. j \in DOMAIN runData[n] /\ runData'[n][j] = runData[n][j]
    <3>1. \/ j \in DOMAIN runData[n] /\ runData'[n][j] = runData[n][j]
          \/ j = Len(runData[n]) + 1
      BY TaskSpots
    <3> QED  BY <2>1, <2>2, <2>3, <3>1
  <2>5. CASE k \in DOMAIN runData[n] /\ runData'[n][k] = runData[n][k]
    <3>1. inTurn(n, j, k)
      BY <2>4, <2>5 DEF MergeInv
    <3> QED  BY <2>1, <2>4, <2>5, <3>1 DEF inTurn
  <2>6. CASE n = current.node /\ runData'[n][k].main = current.main
    <3>1. emptyAt(n, i)
      <4>1. DOMAIN runData[n][j].main = 1..inputCount(n)
        BY <2>4 DEF MergeInv
      <4> QED  BY <2>1, <2>4, <4>1 DEF emptyAt
    <3>2. ~fullItem(current, n, i)
      BY <3>1 DEF MergeInv, noMore
    <3> QED  BY <1>1, <2>1, <2>6, <3>2 DEF fullItem
  <2> QED  BY <2>3, <2>5, <2>6
<1> QED  BY <1>3, <1>4

\* No item, no node.
LEMMA NoItemFacts ==
    ASSUME wf \in Workflows
    PROVE  \A n, i : /\ ~emptyItem(NoItem, n, i) /\ ~fullItem(NoItem, n, i)
                     /\ NoItem.node \notin ancestors(Graph, n)
<1>1. NoItem.node = 0 /\ DOMAIN NoItem.main = {}
  BY DEF NoItem
<1>2. \A n : 0 \notin ancestors(Graph, n)
  BY WorkflowFacts DEF ancestors, Graph
<1> QED  BY <1>1, <1>2 DEF emptyItem, fullItem

\* What is not on the stack, waiting or executed.
LEMMA SameDead ==
    ASSUME wf' = wf
    PROVE  /\ \A n, i : noMore(n, i)' <=> /\ dead(stack', waitingExecution', n, i)
                                          /\ current'.node \notin ancestors(Graph, n)
                                          /\ ~fullItem(current', n, i)
           /\ stairs(waitingExecution)' <=> stairs(waitingExecution')
           /\ NoMergeInLoop' <=> NoMergeInLoop
           /\ \A n, j, k : inTurn(n, j, k)' <=>
                 (j < k => \A i \in 1..inputCount(n) :
                    runData'[n][j].main[i] = EmptyData => ~hasItems(runData'[n][k].main[i]))
<1>1. /\ \A n : inputCount(n)' = inputCount(n) /\ \A d : hasItems(d)' <=> hasItems(d)
      /\ \A n, m : (n \in ancestors(Graph, m))' <=> n \in ancestors(Graph, m)
  BY SameWorkflow DEF hasItems
<1>2. \A n : ancestors(Graph, n)' = ancestors(Graph, n)
  BY DEF ancestors, Graph
<1>3. \A n, i : dead(stack, waitingExecution, n, i)' <=> dead(stack', waitingExecution', n, i)
  BY <1>1, <1>2 DEF dead, live, fullItem, waits
<1>4. \A n, i : noMore(n, i)' <=> /\ dead(stack', waitingExecution', n, i)
                                  /\ current'.node \notin ancestors(Graph, n)
                                  /\ ~fullItem(current', n, i)
  BY <1>1, <1>2, <1>3 DEF noMore, fullItem
<1>5. stairs(waitingExecution)' <=> stairs(waitingExecution')
  <2>1. ASSUME NEW n, NEW j, NEW k, NEW i
        PROVE  ordered(waitingExecution, n, j, k, i)' <=> ordered(waitingExecution', n, j, k, i)
    BY <1>1 DEF ordered, waits
  <2> QED  BY <2>1 DEF stairs
<1>6. NoMergeInLoop' <=> NoMergeInLoop
  BY <1>1, <1>2 DEF NoMergeInLoop
<1>7. \A n, j, k : inTurn(n, j, k)' <=>
                 (j < k => \A i \in 1..inputCount(n) :
                    runData'[n][j].main[i] = EmptyData => ~hasItems(runData'[n][k].main[i]))
  BY <1>1 DEF inTurn
<1> QED  BY <1>4, <1>5, <1>6, <1>7

\* A resumption or a retry leaves the items as they are, but for disabled.
LEMMA RestartItems ==
    ASSUME Base, Restarts
    PROVE  \A t \in Range(stack') :
              \E v \in Range(stack) : v.node = t.node /\ v.main = t.main /\ v.source = t.source
<1>1. CASE stack' = stack
  BY <1>1
<1>2. CASE stack # <<>> /\ stack' = [stack EXCEPT ![1].disabled = TRUE]
  <2>1. stack \in Seq(Items)
    BY ExecState DEF Base, ExecOK
  <2>2. PICK u : u = stack'
    OBVIOUS
  <2>3. /\ u \in Seq(Items) /\ Len(u) = Len(stack)
        /\ \A j \in 1..Len(stack) :
              /\ u[j].node = stack[j].node /\ u[j].main = stack[j].main
              /\ u[j].source = stack[j].source
    <3>1. firstDisabled(stack, u)
      BY <1>2, <2>1, <2>2 DEF firstDisabled
    <3> QED  BY <3>1, DisabledFirst
  <2>4. DOMAIN u = 1..Len(stack) /\ DOMAIN stack = 1..Len(stack)
    BY <2>1, <2>3, LenProperties
  <2> QED  BY <2>2, <2>3, <2>4 DEF Range
<1> QED  BY <1>1, <1>2 DEF Restarts

\* It removes at most the last task of the last node.
LEMMA RestartTasks ==
    ASSUME Base, Base', wf' = wf, Restarts
    PROVE  \A n \in wf.nodes : \A k \in DOMAIN runData'[n] :
              k \in DOMAIN runData[n] /\ runData'[n][k] = runData[n][k]
<1>1. CASE runData' = runData
  BY <1>1
<1>2. CASE Drops
  <2>1. PICK m : m = lastNodeExecuted
    OBVIOUS
  <2>2. /\ m \in wf.nodes
        /\ \A l \in wf.nodes : l # m => runData'[l] = runData[l]
        /\ \A k \in 1..Len(runData'[m]) :
              k \in 1..Len(runData[m]) /\ runData'[m][k] = runData[m][k]
    BY <1>2, <2>1, DropTask
  <2>3. DOMAIN runData[m] = 1..Len(runData[m])
    BY <2>2, TasksOf
  <2>4. runData'[m] \in Seq(TaskData)'
    BY <2>2 DEF Base
  <2>5. DOMAIN runData'[m] = 1..Len(runData'[m])
    BY <2>4, LenProperties
  <2> QED  BY <2>2, <2>3, <2>5
<1> QED  BY <1>1, <1>2 DEF Restarts

\* What was out of turn stays so.
LEMMA TurnFinished ==
    ASSUME Base, NEW out, NEW y, Finished(out, y), ~outOfTurn'
    PROVE  ~outOfTurn
<1>1. PICK x : x = execState
  OBVIOUS
<1>2. /\ x.outOfTurn = outOfTurn /\ wf \in Workflows /\ Counted /\ ExecOK(x)
      /\ y = addNodes(x, nodesToAdd(current.node, out))
  BY <1>1, ExecState, BaseCounted DEF Base, Finished
<1>3. Kept(x, y)
  BY <1>2, KeptAdded
<1>4. ~y.outOfTurn
  <2>1. ASSUME NEW r, Taken(y, r), outOfTurn' = r.outOfTurn
        PROVE  ~y.outOfTurn
    BY <2>1 DEF Taken
  <2> QED  BY <2>1 DEF Finished
<1> QED  BY <1>2, <1>3, <1>4 DEF Kept

\* The run data after a step.
MergeTasks ==
    /\ \A n \in wf.nodes : \A k \in DOMAIN runData'[n] :
          DOMAIN runData'[n][k].main = 1..inputCount(n)
    /\ \A n \in wf.nodes : \A j, k \in DOMAIN runData'[n] : inTurn(n, j, k)'
    /\ \A n \in wf.nodes : \A i : \A k \in DOMAIN runData'[n] :
          i \in DOMAIN runData'[n][k].main /\ runData'[n][k].main[i] = EmptyData => emptyAt(n, i)

\* No task is new, or one that was removed.
LEMMA FewerTasks ==
    ASSUME wf' = wf, MergeInv,
           \A n \in wf.nodes : \A k \in DOMAIN runData'[n] :
              k \in DOMAIN runData[n] /\ runData'[n][k] = runData[n][k]
    PROVE  MergeTasks
<1>1. ASSUME NEW n \in wf.nodes, NEW j \in DOMAIN runData'[n], NEW k \in DOMAIN runData'[n]
      PROVE  inTurn(n, j, k)'
  <2>1. inTurn(n, j, k) /\ runData'[n][j] = runData[n][j] /\ runData'[n][k] = runData[n][k]
    BY DEF MergeInv
  <2> QED  BY <2>1, SameDead DEF inTurn
<1>2. ASSUME NEW n \in wf.nodes, NEW k \in DOMAIN runData'[n]
      PROVE  /\ DOMAIN runData'[n][k].main = 1..inputCount(n)
             /\ \A i : i \in DOMAIN runData'[n][k].main /\ runData'[n][k].main[i] = EmptyData =>
                    emptyAt(n, i)
  BY DEF MergeInv, emptyAt
<1> QED  BY <1>1, <1>2 DEF MergeTasks

\* Items move between the stack and the execution, and nothing new waits.
LEMMA ItemsMove ==
    ASSUME wf \in Workflows, wf' = wf, MergeInv, MergeTasks, waitingExecution' = waitingExecution,
           \A t \in Range(stack') \cup {current'} :
              \/ t = NoItem
              \/ \E v \in Range(stack) \cup {current} : v.node = t.node /\ v.main = t.main
    PROVE  MergeInv'
<1>1. PICK w : w = waitingExecution
  OBVIOUS
<1>2. ASSUME NEW n, NEW i, emptyAt(n, i)'
      PROVE  emptyAt(n, i)
  <2>1. ASSUME NEW t \in Range(stack') \cup {current'}, emptyItem(t, n, i)
        PROVE  emptyAt(n, i)
    BY <2>1, NoItemFacts DEF emptyAt, emptyItem
  <2>2. ASSUME n \in wf.nodes, NEW k \in DOMAIN runData'[n],
               i \in DOMAIN runData'[n][k].main, runData'[n][k].main[i] = EmptyData
        PROVE  emptyAt(n, i)
    BY <2>2 DEF MergeTasks
  <2> QED  BY <1>2, <2>1, <2>2 DEF emptyAt, emptyItem
<1>3. ASSUME NEW n, NEW i, noMore(n, i)
      PROVE  noMore(n, i)'
  <2>1. /\ \A v \in Range(stack) \cup {current} :
              v.node \notin ancestors(Graph, n) /\ ~fullItem(v, n, i)
        /\ \A m \in ancestors(Graph, n) : m \notin DOMAIN w
        /\ \A k : waits(w, n, k) => w[n][k].main[i] = Null
    BY <1>1, <1>3 DEF noMore, dead, live
  <2>2. \A t \in Range(stack') \cup {current'} :
           t.node \notin ancestors(Graph, n) /\ ~fullItem(t, n, i)
    BY <2>1, NoItemFacts DEF fullItem
  <2>3. dead(stack', w, n, i)
    BY <2>1, <2>2 DEF dead, live
  <2> QED  BY <1>1, <2>2, <2>3, SameDead
<1>4. \A n, i : emptyAt(n, i)' => noMore(n, i)'
  BY <1>2, <1>3 DEF MergeInv
<1>5. stairs(waitingExecution)'
  BY SameDead DEF MergeInv
<1>6. \A n : inputCount(n)' = inputCount(n)
  BY SameWorkflow
<1> QED  BY <1>4, <1>5, <1>6 DEF MergeInv, MergeTasks

\* The node that was executed delivers its data.
LEMMA MergeFinished ==
    ASSUME Base, Base', wf' = wf, pc = "node", NEW out, NEW y, Finished(out, y), MergeTasks,
           ~outOfTurn', NoMergeInLoop, ~outOfTurn => MergeInv, current' = NoItem
    PROVE  MergeInv'
<1>1. PICK x : x = execState
  OBVIOUS
<1>2. /\ x.stack = stack /\ x.waiting = waitingExecution /\ x.outOfTurn = outOfTurn
      /\ wf \in Workflows /\ Counted /\ ExecOK(x) /\ ExecOK(y)
      /\ y = addNodes(x, nodesToAdd(current.node, out))
  BY <1>1, ExecState, BaseCounted DEF Base, Finished
<1>3. Kept(x, y)
  BY <1>2, KeptAdded
<1>4. ~y.outOfTurn
  <2>1. ASSUME NEW r, Taken(y, r), outOfTurn' = r.outOfTurn
        PROVE  ~y.outOfTurn
    BY <2>1 DEF Taken
  <2> QED  BY <2>1 DEF Finished
<1>5. MergeInv /\ stairs(y.waiting)
  BY <1>2, <1>3, <1>4 DEF Kept, MergeInv
<1>6. \A n, i : emptyAt(n, i) => dead(y.stack, y.waiting, n, i)
  BY <1>2, <1>3, <1>5 DEF Kept, MergeInv, noMore
<1>7. /\ stairs(waitingExecution')
      /\ \A n, i : dead(y.stack, y.waiting, n, i) => dead(stack', waitingExecution', n, i)
      /\ \A n, i : \A t \in Range(stack') : emptyItem(t, n, i) =>
            t \in Range(y.stack) \/ dead(stack', waitingExecution', n, i)
  <2>1. CASE y.stack # <<>> \/ readyNodes(y) = {}
    <3>1. stack' = y.stack /\ waitingExecution' = y.waiting
      BY <2>1 DEF Finished
    <3> QED  BY <1>5, <3>1
  <2>2. CASE ~(y.stack # <<>> \/ readyNodes(y) = {})
    <3>1. PICK r : /\ Taken(y, r) /\ ExecOK(r) /\ stack' = r.stack
                   /\ waitingExecution' = r.waiting /\ outOfTurn' = r.outOfTurn
      BY <2>2 DEF Finished
    <3>2. ~r.outOfTurn
      BY <3>1
    <3> QED  BY <1>2, <1>5, <2>2, <3>1, <3>2, KeptTaken
  <2> QED  BY <2>1, <2>2
<1>8. ASSUME NEW n, NEW i, emptyAt(n, i)'
      PROVE  noMore(n, i)'
  <2>1. dead(stack', waitingExecution', n, i)
    <3>1. ASSUME NEW t \in Range(stack'), emptyItem(t, n, i)
          PROVE  dead(stack', waitingExecution', n, i)
      <4>1. CASE t \in Range(y.stack)
        <5>1. t \in Range(stack)
          BY <1>2, <1>3, <3>1, <4>1 DEF Kept
        <5> QED  BY <1>6, <1>7, <3>1, <5>1 DEF emptyAt
      <4> QED  BY <1>7, <3>1, <4>1
    <3>2. ASSUME n \in wf.nodes, NEW k \in DOMAIN runData'[n],
                 i \in DOMAIN runData'[n][k].main, runData'[n][k].main[i] = EmptyData
          PROVE  dead(stack', waitingExecution', n, i)
      BY <1>6, <1>7, <3>2 DEF MergeTasks
    <3>3. ~emptyItem(current', n, i)
      BY <1>2, NoItemFacts
    <3> QED  BY <1>8, <3>1, <3>2, <3>3 DEF emptyAt, emptyItem
  <2> QED  BY <1>2, <2>1, NoItemFacts, SameDead
<1>9. \A n : inputCount(n)' = inputCount(n)
  BY SameWorkflow
<1>10. stairs(waitingExecution)'
  BY <1>7, SameDead
<1> QED  BY <1>8, <1>9, <1>10 DEF MergeInv, MergeTasks

LEMMA MergeStep ==
    ASSUME TypeInv, TypeInv', MergeHolds, [EngineNext]_engineVars
    PROVE  MergeHolds'
<1>1. SUFFICES ASSUME destination' = 0, ~outOfTurn', NoMergeInLoop'
               PROVE  MergeInv'
  BY DEF MergeHolds
<1>2. Base /\ WaitsOnLast /\ KnownStep /\ wf' = wf /\ Base' /\ wf \in Workflows
  BY <1>1, DestinationStays, Steps DEF TypeInv
<1>3. NoMergeInLoop /\ (~outOfTurn => MergeInv)
  BY <1>1, <1>2, SameDead DEF MergeHolds, Base
<1>4. CASE Quiet
  <2>1. UNCHANGED <<stack, waitingExecution, runData, current, outOfTurn>>
    BY <1>4 DEF Quiet, waitVars
  <2>2. MergeInv
    BY <1>1, <1>3, <2>1
  <2>3. MergeTasks
    BY <1>2, <2>1, <2>2, FewerTasks
  <2> QED  BY <1>2, <2>1, <2>2, <2>3, ItemsMove
<1>5. CASE Starts
  <2>1. /\ UNCHANGED <<waitingExecution, runData, outOfTurn>>
        /\ stack # <<>> /\ current' = Head(stack) /\ stack' = Tail(stack)
    BY <1>5 DEF Starts, waitVars
  <2>2. MergeInv
    BY <1>1, <1>3, <2>1
  <2>3. MergeTasks
    BY <1>2, <2>1, <2>2, FewerTasks
  <2>4. Range(stack') \cup {current'} \subseteq Range(stack)
    <3>1. stack \in Seq(Items)
      BY <1>2, ExecState DEF Base, ExecOK
    <3> QED  BY <2>1, <3>1, RangeTail
  <2> QED  BY <1>2, <2>1, <2>2, <2>3, <2>4, ItemsMove
<1>6. CASE EndsBranch
  <2>1. UNCHANGED <<stack, waitingExecution, runData, outOfTurn>> /\ current' = NoItem
    BY <1>6 DEF EndsBranch, waitVars
  <2>2. MergeInv
    BY <1>1, <1>3, <2>1
  <2>3. MergeTasks
    BY <1>2, <2>1, <2>2, FewerTasks
  <2> QED  BY <1>2, <2>1, <2>2, <2>3, ItemsMove
<1>7. CASE Restarts
  <2>1. UNCHANGED <<waitingExecution, outOfTurn, current>>
    BY <1>7 DEF Restarts, waitVars
  <2>2. MergeInv
    BY <1>1, <1>3, <2>1
  <2>3. \A n \in wf.nodes : \A k \in DOMAIN runData'[n] :
           k \in DOMAIN runData[n] /\ runData'[n][k] = runData[n][k]
    BY <1>2, <1>7, RestartTasks DEF Restarts
  <2>4. MergeTasks
    BY <1>2, <2>2, <2>3, FewerTasks
  <2>5. \A t \in Range(stack') :
           \E v \in Range(stack) : v.node = t.node /\ v.main = t.main /\ v.source = t.source
    BY <1>2, <1>7, RestartItems
  <2> QED  BY <1>2, <2>1, <2>2, <2>4, <2>5, ItemsMove
<1>8. ASSUME NEW state, NEW out, Finishes(state, out)
      PROVE  MergeInv'
  <2>1. /\ pc = "node" /\ state \in TaskStates /\ out \in SUBSET Nat /\ pushTask(state, out)
        /\ current' = NoItem
    BY <1>8 DEF Finishes, TaskStates
  <2>2. PICK y : Finished(out, y)
    BY <1>8 DEF Finishes
  <2>3. ~outOfTurn => MergeTasks
    BY <1>2, <1>3, <2>1, MergeTask DEF MergeTasks
  <2>4. ~outOfTurn
    BY <1>1, <1>2, <2>1, <2>2, TurnFinished
  <2> QED  BY <1>1, <1>2, <1>3, <2>1, <2>2, <2>3, <2>4, MergeFinished
<1>9. ASSUME NEW state, NEW how, PutsBack(state, how)
      PROVE  MergeInv'
  <2>1. pc = "node" /\ state \in TaskStates /\ {} \in SUBSET Nat /\ pushTask(state, {})
    BY <1>9 DEF PutsBack, TaskStates
  <2>2. /\ current' = NoItem /\ UNCHANGED <<waitingExecution, outOfTurn>>
        /\ stack' = <<current>> \o stack
    BY <1>9 DEF PutsBack, waitVars, putBack
  <2>3. MergeInv
    BY <1>1, <1>3, <2>2
  <2>4. MergeTasks
    BY <1>2, <2>1, <2>3, MergeTask DEF MergeTasks
  <2>5. Range(stack') = {current} \cup Range(stack)
    <3>1. stack \in Seq(Items) /\ current \in Items
      BY <1>2, <2>1, ExecState DEF Base, ExecOK
    <3> QED  BY <2>2, <3>1, Prepend
  <2> QED  BY <1>2, <2>2, <2>3, <2>4, <2>5, ItemsMove
<1> QED  BY <1>2, <1>4, <1>5, <1>6, <1>7, <1>8, <1>9 DEF KnownStep

LEMMA MergeImplies ==
    ASSUME Base, MergeInv
    PROVE  MergeNotEarly
<1>1. SUFFICES ASSUME NEW t \in Tasks, NEW u \in Tasks, t[1] = u[1], t[2] < u[2],
                      NEW i \in DOMAIN taskAt(t).main, taskAt(t).main[i] = EmptyData
               PROVE  ~hasItems(taskAt(u).main[i])
  BY DEF MergeNotEarly
<1>2. PICK n, j : n \in wf.nodes /\ j \in DOMAIN runData[n] /\ t = <<n, j>>
  BY DEF Tasks
<1>3. PICK m, k : m \in wf.nodes /\ k \in DOMAIN runData[m] /\ u = <<m, k>>
  BY DEF Tasks
<1>4. m = n /\ j < k
  BY <1>1, <1>2, <1>3
<1>5. inTurn(n, j, k) /\ DOMAIN runData[n][j].main = 1..inputCount(n)
  BY <1>2, <1>3, <1>4 DEF MergeInv
<1> QED  BY <1>1, <1>2, <1>3, <1>4, <1>5 DEF inTurn, taskAt

LEMMA MergeInit ==
    ASSUME EngineInit
    PROVE  MergeInv
<1>1. stack = <<[node |-> 1, disabled |-> FALSE, main |-> <<StartData>>, source |-> <<>>]>>
  BY DEF EngineInit
<1>2. /\ DOMAIN waitingExecution = {} /\ current = NoItem /\ wf \in Workflows
      /\ \A n \in wf.nodes : DOMAIN runData[n] = {}
  BY DEF EngineInit
<1>3. \A t \in Range(stack) : t.main = <<StartData>>
  BY <1>1 DEF Range
<1>4. StartData # EmptyData
  BY DEF StartData, EmptyData, Datum
<1>5. \A n, i : ~emptyAt(n, i)
  <2>1. \A n, i : \A t \in Range(stack) : ~emptyItem(t, n, i)
    BY <1>3, <1>4 DEF emptyItem
  <2> QED  BY <1>2, <2>1, NoItemFacts DEF emptyAt
<1>6. stairs(waitingExecution)
  BY <1>2 DEF stairs, ordered, waits
<1> QED  BY <1>2, <1>5, <1>6 DEF MergeInv

\* In every workflow in which no node with several inputs is on a loop, a node that waits
\* is run with an input empty only when nothing can come on that input any more: no later
\* run of it has data there, as long as no entry was made at an index not beyond the
\* others or run before one with a smaller index.
THEOREM MergesNotEarly ==
    EngineSpec => [](destination = 0 /\ ~outOfTurn /\ NoMergeInLoop => MergeNotEarly)
<1>1. EngineInit => MergeHolds
  BY MergeInit DEF MergeHolds
<1>2. TypeInv /\ TypeInv' /\ MergeHolds /\ [EngineNext]_engineVars => MergeHolds'
  BY MergeStep
<1>3. TypeInv /\ MergeHolds => (destination = 0 /\ ~outOfTurn /\ NoMergeInLoop => MergeNotEarly)
  BY MergeImplies DEF TypeInv, MergeHolds
<1> QED  BY <1>1, <1>2, <1>3, TypesHold, PTL DEF EngineSpec

-----------------------------------------------------------------------------
(* Nothing is lost: in how many places a datum is                          *)

num(b) == IF b THEN 1 ELSE 0

\* What a node emitted: data that is neither missing nor an empty list.
real(d) == d # Null /\ d # EmptyData

has(main, i, d) == i \in DOMAIN main /\ main[i] = d

onItem(t, n, i, d) == t.node = n /\ has(t.main, i, d)

onStack(st, n, i, d) == {k \in DOMAIN st : onItem(st[k], n, i, d)}

inWait(w, n, i, d) == {k \in Nat : waits(w, n, k) /\ has(w[n][k].main, i, d)}

inTasks(n, i, d) ==
    {k \in DOMAIN runData[n] :
        runData[n][k].state \in {"success", "error"} /\ has(runData[n][k].main, i, d)}

inEnds(n, i, d) == {t \in branchEnds : onItem(t, n, i, d)}

\* On the stack and waiting.
pending(st, w, n, i, d) == Cardinality(onStack(st, n, i, d)) + Cardinality(inWait(w, n, i, d))

\* One more, one less.
LEMMA OneMore ==
    ASSUME NEW S, IsFiniteSet(S), NEW T, NEW x, NEW b \in BOOLEAN, x \notin S,
           T = IF b THEN S \cup {x} ELSE S
    PROVE  /\ IsFiniteSet(T) /\ Cardinality(S) \in Nat
           /\ Cardinality(T) = Cardinality(S) + num(b)
<1>1. Cardinality(S) \in Nat
  BY FS_CardinalityType
<1>2. CASE b
  <2>1. IsFiniteSet(S \cup {x}) /\ Cardinality(S \cup {x}) = Cardinality(S) + 1
    BY FS_AddElement
  <2> QED  BY <1>1, <1>2, <2>1 DEF num
<1>3. CASE ~b
  BY <1>1, <1>3 DEF num
<1> QED  BY <1>2, <1>3

LEMMA OneLess ==
    ASSUME NEW S, IsFiniteSet(S), NEW T, NEW x, T = S \ {x}
    PROVE  /\ IsFiniteSet(T) /\ Cardinality(T) \in Nat
           /\ Cardinality(S) = Cardinality(T) + num(x \in S)
<1>1. /\ IsFiniteSet(T) /\ Cardinality(S) \in Nat
      /\ Cardinality(T) = IF x \in S THEN Cardinality(S) - 1 ELSE Cardinality(S)
  BY FS_RemoveElement, FS_CardinalityType
<1>2. Cardinality(T) \in Nat
  BY <1>1, FS_CardinalityType
<1> QED  BY <1>1, <1>2 DEF num

\* The places are finite sets.
LEMMA PlacesFinite ==
    ASSUME NEW x, ExecOK(x), NEW n, NEW i, NEW d
    PROVE  /\ IsFiniteSet(onStack(x.stack, n, i, d)) /\ IsFiniteSet(inWait(x.waiting, n, i, d))
           /\ Cardinality(onStack(x.stack, n, i, d)) \in Nat
           /\ Cardinality(inWait(x.waiting, n, i, d)) \in Nat
<1>1. PICK st, w : st = x.stack /\ w = x.waiting
  OBVIOUS
<1>2. st \in Seq(Items) /\ WaitingOK(w)
  BY <1>1 DEF ExecOK
<1>3. IsFiniteSet(onStack(st, n, i, d))
  <2>1. DOMAIN st = 1..Len(st) /\ Len(st) \in Nat
    BY <1>2, LenProperties
  <2>2. IsFiniteSet(1..Len(st))
    BY <2>1, FS_Interval
  <2>3. onStack(st, n, i, d) \in SUBSET (1..Len(st))
    BY <2>1 DEF onStack
  <2> QED  BY <2>2, <2>3, FS_Subset
<1>4. IsFiniteSet(inWait(w, n, i, d))
  <2>1. CASE n \in DOMAIN w
    <3>1. IsFiniteSet(DOMAIN w[n])
      BY <1>2, <2>1 DEF WaitingOK
    <3>2. inWait(w, n, i, d) \in SUBSET (DOMAIN w[n])
      BY DEF inWait, waits
    <3> QED  BY <3>1, <3>2, FS_Subset
  <2>2. CASE n \notin DOMAIN w
    <3>1. inWait(w, n, i, d) = {}
      BY <2>2 DEF inWait, waits
    <3> QED  BY <3>1, FS_EmptySet
  <2> QED  BY <2>1, <2>2
<1> QED  BY <1>1, <1>3, <1>4, FS_CardinalityType

\* u is st with the item before it.
isPush(u, t, st) == st \in Seq(Items) /\ t \in Items /\ u = <<t>> \o st

LEMMA CountPush ==
    ASSUME NEW st, NEW t, NEW u, isPush(u, t, st), NEW n, NEW i, NEW d,
           NEW S, S = onStack(st, n, i, d), NEW U, U = onStack(u, n, i, d)
    PROVE  /\ onItem(t, n, i, d) => Cardinality(U) = Cardinality(S) + 1
           /\ ~onItem(t, n, i, d) => Cardinality(U) = Cardinality(S)
<1>0. PICK b \in BOOLEAN : b <=> onItem(t, n, i, d)
  BY DEF onItem, has
<1> DEFINE T == {k + 1 : k \in S}
           f == [k \in S |-> k + 1]
<1>1. /\ u \in Seq(Items) /\ Len(u) = Len(st) + 1 /\ u[1] = t /\ Len(st) \in Nat
      /\ \A k \in 1..Len(st) : u[k + 1] = st[k]
  BY Prepend, LenProperties DEF isPush
<1>2. DOMAIN u = 1..(Len(st) + 1) /\ DOMAIN st = 1..Len(st)
  BY <1>1, LenProperties DEF isPush
<1>3. S \subseteq 1..Len(st)
  BY <1>2 DEF onStack
<1>4. IsFiniteSet(S) /\ Cardinality(S) \in Nat
  <2>1. IsFiniteSet(1..Len(st))
    BY <1>1, FS_Interval
  <2>2. S \in SUBSET (1..Len(st))
    BY <1>3
  <2> QED  BY <2>1, <2>2, FS_Subset, FS_CardinalityType
<1>5. U = IF b THEN T \cup {1} ELSE T
  <2>1. ASSUME NEW k
        PROVE  k \in U <=> k \in T \/ (b /\ k = 1)
    <3>1. CASE k \in 2..(Len(st) + 1)
      <4>1. k - 1 \in 1..Len(st) /\ u[k] = st[k - 1] /\ k # 1 /\ k \in DOMAIN u
        BY <1>1, <1>2, <3>1
      <4>2. k \in U <=> k - 1 \in S
        BY <1>2, <4>1 DEF onStack
      <4>3. k \in T <=> k - 1 \in S
        BY <1>1, <1>3, <3>1
      <4> QED  BY <4>1, <4>2, <4>3
    <3>2. CASE k = 1
      <4>1. k \in DOMAIN u /\ u[k] = t
        BY <1>1, <1>2, <3>2
      <4>2. k \in U <=> b
        BY <1>0, <4>1 DEF onStack
      <4>3. k \notin T
        BY <1>1, <1>3, <3>2
      <4> QED  BY <3>2, <4>2, <4>3
    <3>3. CASE k \notin 1..(Len(st) + 1)
      <4>1. k \notin U
        BY <1>2, <3>3 DEF onStack
      <4>2. k \notin T /\ k # 1
        BY <1>1, <1>3, <3>3
      <4> QED  BY <4>1, <4>2
    <3> QED  BY <1>1, <3>1, <3>2, <3>3
  <2> HIDE DEF T
  <2> QED  BY <2>1
<1>6. 1 \notin T
  BY <1>1, <1>3
<1>7. f \in Bijection(S, T)
  <2>1. f \in [S -> T]
    OBVIOUS
  <2>2. \A j, k \in S : f[j] = f[k] => j = k
    BY <1>1, <1>3
  <2>3. \A k \in T : \E j \in S : f[j] = k
    OBVIOUS
  <2> QED  BY <2>1, <2>2, <2>3 DEF Bijection, Injection, Surjection, IsInjective
<1> HIDE DEF T, f
<1>9. IsFiniteSet(T) /\ Cardinality(T) = Cardinality(S)
  BY <1>4, <1>7, FS_Bijection DEF ExistsBijection
<1>10. Cardinality(U) = Cardinality(T) + num(b)
  BY <1>5, <1>6, <1>9, OneMore
<1> QED  BY <1>0, <1>4, <1>9, <1>10 DEF num

\* The datum is what is delivered over the connection.
brings(c, n, i, d) == n = c.to /\ i = c.input + 1 /\ d = datumOf(c)

\* What is delivered is added in one place, and what was there moves at most.
LEMMA CountAdded ==
    ASSUME wf \in Workflows, Counted, NEW x, ExecOK(x), NEW c \in Range(wf.conns),
           NEW r, ExecOK(r), AddedOne(x, c, r), ~r.outOfTurn, NEW n, NEW i, NEW d, real(d)
    PROVE  pending(r.stack, r.waiting, n, i, d) =
              pending(x.stack, x.waiting, n, i, d) + num(brings(c, n, i, d))
<1>1. PICK st, w, u, v : st = x.stack /\ w = x.waiting /\ u = r.waiting /\ v = r.stack
  OBVIOUS
<1>2. PICK S, T, W, U : /\ S = onStack(st, n, i, d) /\ T = onStack(v, n, i, d)
                        /\ W = inWait(w, n, i, d) /\ U = inWait(u, n, i, d)
  OBVIOUS
<1>3. /\ IsFiniteSet(S) /\ IsFiniteSet(T) /\ IsFiniteSet(W) /\ IsFiniteSet(U)
      /\ Cardinality(S) \in Nat /\ Cardinality(T) \in Nat
      /\ Cardinality(W) \in Nat /\ Cardinality(U) \in Nat
  BY <1>1, <1>2, PlacesFinite
<1>4. SUFFICES Cardinality(T) + Cardinality(U) =
                  Cardinality(S) + Cardinality(W) + num(brings(c, n, i, d))
  BY <1>1, <1>2 DEF pending
<1>5. st \in Seq(Items) /\ WaitingOK(w) /\ WaitingOK(u)
  BY <1>1 DEF ExecOK
<1>6. PICK b \in BOOLEAN : b <=> brings(c, n, i, d)
  BY DEF brings
<1>7. num(brings(c, n, i, d)) = num(b)
  BY <1>6 DEF num
<1>8. c.input + 1 \in 1..inputCount(c.to) /\ d # Null /\ inputCount(c.to) \in Nat
  BY InputCount DEF real
<1>9. \A k : waits(w, n, k) => k \in Nat /\ DOMAIN w[n][k].main = 1..inputCount(n)
  BY <1>5, LenProperties DEF WaitingOK, EntriesFor, waits
<1>10. CASE Pushed(x, c, r)
  <2>1. PICK t \in Items : /\ v = <<t>> \o st /\ t.node = c.to /\ inputCount(c.to) = 1
                           /\ t.main[1] = datumOf(c) /\ u = w
    BY <1>1, <1>10 DEF Pushed, pushes
  <2>2. DOMAIN t.main = 1..1 /\ c.input + 1 = 1
    BY <1>8, <2>1, LenProperties DEF Items
  <2>3. onItem(t, n, i, d) <=> b
    BY <1>6, <2>1, <2>2 DEF onItem, has, brings
  <2>4. isPush(v, t, st)
    BY <1>5, <2>1 DEF isPush
  <2>5. Cardinality(T) = Cardinality(S) + num(b)
    <3>1. /\ onItem(t, n, i, d) => Cardinality(T) = Cardinality(S) + 1
          /\ ~onItem(t, n, i, d) => Cardinality(T) = Cardinality(S)
      BY <1>2, <2>4, CountPush
    <3> QED  BY <1>3, <2>3, <3>1 DEF num
  <2>6. U = W /\ num(b) \in Nat
    BY <1>2, <2>1 DEF num
  <2> QED  BY <1>3, <1>7, <2>5, <2>6
<1>11. CASE Filled(x, c, r)
  <2>1. PICK p \in Nat, e \in EntriesFor(c.to) :
           /\ filledAt(x, c, p, e.main, e.source) /\ v = st
           /\ \A m, l : waits(u, m, l) <=> waits(w, m, l)
           /\ \A m, l : waits(u, m, l) => u[m][l] = IF m = c.to /\ l = p THEN e ELSE w[m][l]
    BY <1>1, <1>11 DEF Filled
  <2>2. /\ waits(w, c.to, p) /\ w[c.to][p].main[c.input + 1] = Null
        /\ \A l \in 1..inputCount(c.to) :
              e.main[l] = IF l = c.input + 1 THEN datumOf(c) ELSE w[c.to][p].main[l]
    BY <1>1, <2>1 DEF filledAt
  <2>3. DOMAIN e.main = 1..inputCount(c.to)
    BY <2>1, LenProperties DEF EntriesFor
  <2>4. U = IF b THEN W \cup {p} ELSE W
    <3>1. ASSUME NEW k \in Nat, ~(n = c.to /\ k = p)
          PROVE  k \in U <=> k \in W
      BY <1>2, <2>1, <3>1 DEF inWait
    <3>2. ASSUME n = c.to
          PROVE  p \in U <=> p \in W \/ b
      <4>1. p \in U <=> has(e.main, i, d)
        BY <1>2, <2>1, <2>2, <3>2 DEF inWait
      <4>2. p \in W <=> has(w[n][p].main, i, d)
        BY <1>2, <2>2, <3>2 DEF inWait
      <4>3. DOMAIN w[n][p].main = 1..inputCount(n)
        BY <1>9, <2>2, <3>2
      <4>4. CASE i = c.input + 1
        BY <1>6, <1>8, <2>2, <2>3, <3>2, <4>1, <4>2, <4>4 DEF has, brings
      <4>5. CASE i # c.input + 1
        BY <1>6, <2>2, <2>3, <3>2, <4>1, <4>2, <4>3, <4>5 DEF has, brings
      <4> QED  BY <4>4, <4>5
    <3>3. b => n = c.to
      BY <1>6 DEF brings
    <3>4. U \subseteq Nat /\ W \subseteq Nat
      BY <1>2 DEF inWait
    <3>5. \A k \in Nat : k \in U <=> k \in W \/ (b /\ k = p)
      BY <3>1, <3>2, <3>3
    <3> QED  BY <3>4, <3>5
  <2>5. CASE b
    <3>1. p \notin W
      BY <1>2, <1>6, <1>8, <2>2, <2>5 DEF inWait, has, brings
    <3>2. Cardinality(U) = Cardinality(W) + num(b)
      BY <1>3, <2>4, <3>1, OneMore
    <3>3. S = T /\ num(b) \in Nat
      BY <1>2, <2>1 DEF num
    <3> QED  BY <1>3, <1>7, <3>2, <3>3
  <2>6. CASE ~b
    BY <1>2, <1>3, <1>7, <2>1, <2>4, <2>6 DEF num
  <2> QED  BY <2>5, <2>6
<1>12. CASE Completed(x, c, r)
  <2>1. PICK p \in Nat, t \in Items :
           /\ t.node = c.to /\ filledAt(x, c, p, t.main, t.source) /\ v = <<t>> \o st
           /\ \A m, l : waits(u, m, l) <=> waits(w, m, l) /\ ~(m = c.to /\ l = p)
           /\ \A m, l : waits(u, m, l) => u[m][l] = w[m][l]
    BY <1>1, <1>12 DEF Completed, pushes
  <2>2. /\ waits(w, c.to, p) /\ w[c.to][p].main[c.input + 1] = Null
        /\ \A l \in 1..inputCount(c.to) :
              t.main[l] = IF l = c.input + 1 THEN datumOf(c) ELSE w[c.to][p].main[l]
    BY <1>1, <2>1 DEF filledAt
  <2>3. DOMAIN t.main = 1..inputCount(c.to)
    BY <2>1, LenProperties DEF Items
  <2>a. PICK o \in BOOLEAN : o <=> onItem(t, n, i, d)
    BY DEF onItem, has
  <2>b. isPush(v, t, st)
    BY <1>5, <2>1 DEF isPush
  <2>4. Cardinality(T) = Cardinality(S) + num(o)
    <3>1. /\ onItem(t, n, i, d) => Cardinality(T) = Cardinality(S) + 1
          /\ ~onItem(t, n, i, d) => Cardinality(T) = Cardinality(S)
      BY <1>2, <2>b, CountPush
    <3> QED  BY <1>3, <2>a, <3>1 DEF num
  <2>5. CASE n # c.to
    <3>1. U = W
      BY <1>2, <2>1, <2>5 DEF inWait
    <3>2. ~o /\ ~b
      BY <1>6, <2>1, <2>5, <2>a DEF onItem, brings
    <3>3. num(o) = 0 /\ num(b) = 0
      BY <3>2 DEF num
    <3> QED  BY <1>3, <1>7, <2>4, <3>1, <3>3
  <2>6. CASE n = c.to
    <3>1. U = W \ {p}
      BY <1>2, <2>1, <2>6 DEF inWait
    <3>2. Cardinality(W) = Cardinality(U) + num(p \in W)
      BY <1>3, <3>1, OneLess
    <3>3. p \in W <=> has(w[n][p].main, i, d)
      BY <1>2, <2>2, <2>6 DEF inWait
    <3>4. DOMAIN w[n][p].main = 1..inputCount(n)
      BY <1>9, <2>2, <2>6
    <3>5. (o <=> p \in W \/ b) /\ ~(p \in W /\ b)
      <4>1. CASE i = c.input + 1
        BY <1>6, <1>8, <2>1, <2>2, <2>3, <2>6, <2>a, <3>3, <4>1 DEF onItem, has, brings
      <4>2. CASE i # c.input + 1
        BY <1>6, <2>1, <2>2, <2>3, <2>6, <2>a, <3>3, <3>4, <4>2 DEF onItem, has, brings
      <4> QED  BY <4>1, <4>2
    <3>6. num(o) = num(p \in W) + num(b)
      BY <3>5 DEF num
    <3>7. num(p \in W) \in Nat /\ num(b) \in Nat
      BY DEF num
    <3> QED  BY <1>3, <1>7, <2>4, <3>2, <3>6, <3>7
  <2> QED  BY <2>5, <2>6
<1>13. CASE Opened(x, c, r)
  <2>1. PICK p \in Nat, e \in EntriesFor(c.to) :
           /\ \A l \in 1..inputCount(c.to) :
                 e.main[l] = IF l = c.input + 1 THEN datumOf(c) ELSE Null
           /\ v = st
           /\ \A l : waits(w, c.to, l) => l < p
           /\ \A m, l : waits(u, m, l) <=> waits(w, m, l) \/ (m = c.to /\ l = p)
           /\ \A m, l : waits(u, m, l) => u[m][l] = IF m = c.to /\ l = p THEN e ELSE w[m][l]
    BY <1>1, <1>13 DEF Opened
  <2>2. DOMAIN e.main = 1..inputCount(c.to)
    BY <2>1, LenProperties DEF EntriesFor
  <2>3. ~waits(w, c.to, p)
    BY <2>1
  <2>4. U = IF b THEN W \cup {p} ELSE W
    <3>1. ASSUME NEW k \in Nat, ~(n = c.to /\ k = p)
          PROVE  k \in U <=> k \in W
      BY <1>2, <2>1, <3>1 DEF inWait
    <3>2. ASSUME n = c.to
          PROVE  (p \in U <=> b) /\ p \notin W
      <4>1. p \in U <=> has(e.main, i, d)
        BY <1>2, <2>1, <3>2 DEF inWait
      <4>2. p \notin W
        BY <1>2, <2>3, <3>2 DEF inWait
      <4>3. has(e.main, i, d) <=> b
        BY <1>6, <1>8, <2>1, <2>2, <3>2 DEF has, brings
      <4> QED  BY <4>1, <4>2, <4>3
    <3>3. b => n = c.to
      BY <1>6 DEF brings
    <3>4. U \subseteq Nat /\ W \subseteq Nat
      BY <1>2 DEF inWait
    <3>5. \A k \in Nat : k \in U <=> k \in W \/ (b /\ k = p)
      BY <3>1, <3>2, <3>3
    <3> QED  BY <3>4, <3>5
  <2>5. CASE b
    <3>1. p \notin W
      BY <1>2, <1>6, <2>3, <2>5 DEF inWait, brings
    <3>2. Cardinality(U) = Cardinality(W) + num(b)
      BY <1>3, <2>4, <3>1, OneMore
    <3>3. S = T /\ num(b) \in Nat
      BY <1>2, <2>1 DEF num
    <3> QED  BY <1>3, <1>7, <3>2, <3>3
  <2>6. CASE ~b
    BY <1>2, <1>3, <1>7, <2>1, <2>4, <2>6 DEF num
  <2> QED  BY <2>5, <2>6
<1> QED  BY <1>10, <1>11, <1>12, <1>13 DEF AddedOne

noItems(y) == y.stack = <<>>

\* A waiting node goes to the stack with its data.
LEMMA CountTaken ==
    ASSUME wf \in Workflows, NEW y, ExecOK(y), noItems(y), NEW r, ExecOK(r), Taken(y, r),
           NEW n, NEW i, NEW d, real(d)
    PROVE  pending(r.stack, r.waiting, n, i, d) = pending(y.stack, y.waiting, n, i, d)
<1>1. PICK w, u, st, none : w = y.waiting /\ u = r.waiting /\ st = r.stack /\ none = y.stack
  OBVIOUS
<1>2. PICK m \in wf.nodes, p \in Nat, t \in Items :
         /\ waits(w, m, p) /\ t.node = m
         /\ \A k \in 1..inputCount(m) :
               t.main[k] = IF w[m][p].main[k] = Null THEN EmptyData ELSE w[m][p].main[k]
         /\ st = <<t>>
         /\ \A l, j : waits(u, l, j) <=> waits(w, l, j) /\ ~(l = m /\ j = p)
         /\ \A l, j : waits(u, l, j) => u[l][j] = w[l][j]
  BY <1>1 DEF Taken
<1>3. PICK S, T, W, U : /\ S = onStack(none, n, i, d) /\ T = onStack(st, n, i, d)
                        /\ W = inWait(w, n, i, d) /\ U = inWait(u, n, i, d)
  OBVIOUS
<1>4. /\ IsFiniteSet(W) /\ Cardinality(S) \in Nat /\ Cardinality(T) \in Nat
      /\ Cardinality(W) \in Nat /\ Cardinality(U) \in Nat
  BY <1>1, <1>3, PlacesFinite
<1>5. SUFFICES Cardinality(T) + Cardinality(U) = Cardinality(S) + Cardinality(W)
  BY <1>1, <1>3 DEF pending
<1>6. WaitingOK(w) /\ d # Null /\ d # EmptyData
  BY <1>1 DEF ExecOK, real
<1>7. DOMAIN w[m][p].main = 1..inputCount(m) /\ DOMAIN t.main = 1..inputCount(m)
  <2>1. w[m][p] \in EntriesFor(m)
    BY <1>2, <1>6 DEF WaitingOK, waits
  <2> QED  BY <1>2, <2>1, LenProperties DEF EntriesFor, Items
<1>a. PICK o \in BOOLEAN : o <=> onItem(t, n, i, d)
  BY DEF onItem, has
<1>8. Cardinality(T) = Cardinality(S) + num(o)
  <2>1. isPush(st, t, none)
    <3>1. none \in Seq(Items) /\ none = <<>>
      BY <1>1 DEF ExecOK, noItems
    <3> QED  BY <1>2, <3>1 DEF isPush
  <2>2. /\ onItem(t, n, i, d) => Cardinality(T) = Cardinality(S) + 1
        /\ ~onItem(t, n, i, d) => Cardinality(T) = Cardinality(S)
    BY <1>3, <2>1, CountPush
  <2> QED  BY <1>4, <1>a, <2>2 DEF num
<1>9. has(t.main, i, d) <=> has(w[m][p].main, i, d)
  BY <1>2, <1>6, <1>7 DEF has
<1>10. CASE n # m
  <2>1. U = W
    BY <1>2, <1>3, <1>10 DEF inWait
  <2>2. num(o) = 0
    BY <1>2, <1>10, <1>a DEF onItem, num
  <2> QED  BY <1>4, <1>8, <2>1, <2>2
<1>11. CASE n = m
  <2>1. U = W \ {p}
    BY <1>2, <1>3, <1>11 DEF inWait
  <2>2. Cardinality(W) = Cardinality(U) + num(p \in W)
    BY <1>4, <2>1, OneLess
  <2>3. p \in W <=> o
    BY <1>2, <1>3, <1>9, <1>11, <1>a DEF inWait, onItem
  <2>4. num(p \in W) = num(o) /\ num(p \in W) \in Nat
    BY <2>3 DEF num
  <2> QED  BY <1>4, <1>8, <2>2, <2>4
<1> QED  BY <1>10, <1>11

\* At most one connection of a node brings the datum to the input.
LEMMA BringsOne ==
    ASSUME wf \in Workflows, Counted, NEW c \in Range(wf.conns), NEW e \in Range(wf.conns),
           c.from = e.from, NEW n, NEW i, NEW d, brings(c, n, i, d), brings(e, n, i, d)
    PROVE  c = e
<1>1. c \in Connection /\ e \in Connection /\ c.input \in Nat /\ e.input \in Nat
  BY WorkflowFacts
<1>2. c.to = e.to /\ c.input + 1 = e.input + 1 /\ datumOf(c) = datumOf(e)
  BY DEF brings
<1>3. c.output = e.output
  <2>1. datumOf(c).output = c.output /\ datumOf(e).output = e.output
    BY Delivered
  <2> QED  BY <1>2, <2>1
<1>4. c.input = e.input
  BY <1>1, <1>2
<1> QED  BY <1>1, <1>2, <1>3, <1>4 DEF Connection

\* A connection that is not left over brought the datum.
brought(conns, todo, n, i, d) == \E c \in conns \ todo : brings(c, n, i, d)

\* The count after some of the connections.
counts(x, y, b, n, i, d) ==
    /\ pending(x.stack, x.waiting, n, i, d) \in Nat
    /\ b \in BOOLEAN
    /\ pending(y.stack, y.waiting, n, i, d) = pending(x.stack, x.waiting, n, i, d) + num(b)

LEMMA CountsStep ==
    ASSUME wf \in Workflows, Counted, NEW x, NEW y, ExecOK(y), NEW c \in Range(wf.conns),
           NEW r, ExecOK(r), AddedOne(y, c, r), ~r.outOfTurn, NEW n, NEW i, NEW d, real(d),
           NEW b, counts(x, y, b, n, i, d), NEW e \in BOOLEAN,
           e <=> b \/ brings(c, n, i, d), ~(b /\ brings(c, n, i, d))
    PROVE  counts(x, r, e, n, i, d)
<1>1. PICK f \in BOOLEAN : f <=> brings(c, n, i, d)
  BY DEF brings
<1>2. pending(r.stack, r.waiting, n, i, d) =
         pending(y.stack, y.waiting, n, i, d) + num(brings(c, n, i, d))
  BY CountAdded
<1>3. num(brings(c, n, i, d)) = num(f)
  BY <1>1 DEF num
<1>4. b \in BOOLEAN
  BY DEF counts
<1>5. num(e) = num(b) + num(f) /\ num(b) \in Nat /\ num(f) \in Nat
  BY <1>1, <1>4 DEF num
<1> QED  BY <1>2, <1>3, <1>5 DEF counts

LEMMA CountAll ==
    ASSUME wf \in Workflows, Counted, NEW x, ExecOK(x), NEW out,
           NEW conns, conns = nodesToAdd(current.node, out),
           NEW y, y = addNodes(x, conns), ~y.outOfTurn, NEW n, NEW i, NEW d, real(d)
    PROVE  counts(x, y, brought(conns, {}, n, i, d), n, i, d)
<1> DEFINE a == added(x, conns)
           N == Cardinality(conns)
<1>1. /\ N \in Nat /\ conns \subseteq Range(wf.conns) /\ a[0].state = x /\ a[0].todo = conns
      /\ \A k \in 0..N : a[k].todo \subseteq conns /\ ExecOK(a[k].state)
      /\ \A k \in 1..N : \E c \in a[k - 1].todo :
            /\ a[k].todo = a[k - 1].todo \ {c}
            /\ AddedOne(a[k - 1].state, c, a[k].state)
      /\ a[N].todo = {} /\ addNodes(x, conns) = a[N].state
  <2>1. AddsAll(x, conns)
    BY AddAll
  <2> QED  BY <2>1 DEF AddsAll
<1> HIDE DEF a, N
<1> DEFINE Good(k) == ~a[k].state.outOfTurn =>
                         counts(x, a[k].state, brought(conns, a[k].todo, n, i, d), n, i, d)
           Bad == {k \in 0..N : ~Good(k)}
<1>2. Good(0)
  <2>1. brought(conns, conns, n, i, d) = FALSE
    BY DEF brought
  <2>2. pending(x.stack, x.waiting, n, i, d) \in Nat
    BY PlacesFinite DEF pending
  <2>3. counts(x, x, FALSE, n, i, d)
    BY <2>2 DEF counts, num
  <2> QED  BY <1>1, <2>1, <2>3
<1>3. Bad = {}
  <2>1. SUFFICES ASSUME Bad # {}
                 PROVE  FALSE
    OBVIOUS
  <2>2. PICK k \in Bad : \A m \in Bad : k <= m
    <3>1. Bad \in SUBSET Nat
      BY <1>1
    <3> HIDE DEF Bad
    <3> QED  BY <2>1, <3>1, LeastNumber
  <2>3. k # 0 /\ ~Good(k)
    BY <1>2, <2>2
  <2>4. k \in 1..N /\ k \in 0..N /\ k - 1 \in 0..N /\ ~(k <= k - 1)
    BY <1>1, <2>2, <2>3
  <2>5. PICK c \in a[k - 1].todo : /\ a[k].todo = a[k - 1].todo \ {c}
                                   /\ AddedOne(a[k - 1].state, c, a[k].state)
    BY <1>1, <2>4
  <2>6. PICK z, r, left : z = a[k - 1].state /\ r = a[k].state /\ left = a[k - 1].todo
    OBVIOUS
  <2>7. /\ ExecOK(z) /\ ExecOK(r) /\ AddedOne(z, c, r) /\ c \in left /\ left \subseteq conns
        /\ ~z.outOfTurn => counts(x, z, brought(conns, left, n, i, d), n, i, d)
        /\ ~(~r.outOfTurn => counts(x, r, brought(conns, left \ {c}, n, i, d), n, i, d))
    BY <1>1, <2>2, <2>3, <2>4, <2>5, <2>6
  <2>8. c \in Range(wf.conns) /\ c \in conns
    BY <1>1, <2>7
  <2>9. ~r.outOfTurn /\ ~z.outOfTurn
    BY <2>7, <2>8, OthersKept
  <2>10. PICK b, e : /\ b \in BOOLEAN /\ (b = brought(conns, left, n, i, d))
                     /\ e \in BOOLEAN /\ (e = brought(conns, left \ {c}, n, i, d))
    BY DEF brought
  <2>11. e <=> b \/ brings(c, n, i, d)
    BY <2>7, <2>8, <2>10 DEF brought
  <2>12. ~(b /\ brings(c, n, i, d))
    <3>1. SUFFICES ASSUME b, brings(c, n, i, d)
                   PROVE  FALSE
      OBVIOUS
    <3>2. PICK f \in conns \ left : brings(f, n, i, d)
      BY <2>10, <3>1 DEF brought
    <3>3. f \in Range(wf.conns) /\ f.from = c.from
      BY <1>1, <2>8, <3>2, NodesToAdd
    <3>4. f = c
      BY <2>8, <3>1, <3>2, <3>3, BringsOne
    <3> QED  BY <2>7, <3>2, <3>4
  <2>13. counts(x, z, b, n, i, d)
    BY <2>7, <2>9, <2>10
  <2>14. counts(x, r, e, n, i, d)
    BY <2>7, <2>8, <2>9, <2>10, <2>11, <2>12, <2>13, CountsStep
  <2> QED  BY <2>7, <2>9, <2>10, <2>14
<1>4. N \in 0..N
  BY <1>1
<1>5. Good(N)
  BY <1>3, <1>4
<1> QED  BY <1>1, <1>5

\* What is on the stack and waits after the node was executed.
LEMMA CountFinished ==
    ASSUME Base, NEW out, NEW y, Finished(out, y), ~outOfTurn', NEW n, NEW i, NEW d, real(d)
    PROVE  /\ pending(stack, waitingExecution, n, i, d) \in Nat
           /\ pending(stack', waitingExecution', n, i, d) =
                 pending(stack, waitingExecution, n, i, d)
                 + num(brought(nodesToAdd(current.node, out), {}, n, i, d))
<1>1. PICK x, conns : x = execState /\ conns = nodesToAdd(current.node, out)
  OBVIOUS
<1>2. /\ x.stack = stack /\ x.waiting = waitingExecution
      /\ wf \in Workflows /\ Counted /\ ExecOK(x) /\ ExecOK(y) /\ y = addNodes(x, conns)
  BY <1>1, ExecState, BaseCounted DEF Base, Finished
<1>3. ~y.outOfTurn
  <2>1. ASSUME NEW r, Taken(y, r), outOfTurn' = r.outOfTurn
        PROVE  ~y.outOfTurn
    BY <2>1 DEF Taken
  <2> QED  BY <2>1 DEF Finished
<1>4. counts(x, y, brought(conns, {}, n, i, d), n, i, d)
  BY <1>1, <1>2, <1>3, CountAll
<1>5. pending(stack', waitingExecution', n, i, d) = pending(y.stack, y.waiting, n, i, d)
  <2>1. CASE y.stack # <<>> \/ readyNodes(y) = {}
    BY <2>1 DEF Finished
  <2>2. CASE ~(y.stack # <<>> \/ readyNodes(y) = {})
    <3>1. PICK r : Taken(y, r) /\ ExecOK(r) /\ stack' = r.stack /\ waitingExecution' = r.waiting
      BY <2>2 DEF Finished
    <3>2. noItems(y) /\ Taken(y, r) /\ ExecOK(r) /\ ExecOK(y) /\ wf \in Workflows
      BY <1>2, <2>2, <3>1 DEF noItems
    <3>3. pending(r.stack, r.waiting, n, i, d) = pending(y.stack, y.waiting, n, i, d)
      BY <3>2, CountTaken
    <3> QED  BY <3>1, <3>3
  <2> QED  BY <2>1, <2>2
<1> QED  BY <1>1, <1>2, <1>4, <1>5 DEF counts

\* In how many places the datum is on that input of the node.
total(n, i, d) ==
    pending(stack, waitingExecution, n, i, d) + Cardinality(inTasks(n, i, d))
    + Cardinality(inEnds(n, i, d)) + num(onItem(current, n, i, d))

LEMMA TotalType ==
    ASSUME Base, IsFiniteSet(branchEnds), NEW n \in wf.nodes, NEW i, NEW d
    PROVE  /\ pending(stack, waitingExecution, n, i, d) \in Nat
           /\ IsFiniteSet(inTasks(n, i, d)) /\ Cardinality(inTasks(n, i, d)) \in Nat
           /\ IsFiniteSet(inEnds(n, i, d)) /\ Cardinality(inEnds(n, i, d)) \in Nat
           /\ num(onItem(current, n, i, d)) \in {0, 1}
           /\ total(n, i, d) \in Nat
<1>1. pending(stack, waitingExecution, n, i, d) \in Nat
  <2>1. PICK x : x = execState
    OBVIOUS
  <2>2. ExecOK(x) /\ x.stack = stack /\ x.waiting = waitingExecution
    BY <2>1, ExecState DEF Base
  <2>3. /\ Cardinality(onStack(x.stack, n, i, d)) \in Nat
        /\ Cardinality(inWait(x.waiting, n, i, d)) \in Nat
    BY <2>2, PlacesFinite
  <2> QED  BY <2>2, <2>3 DEF pending
<1>2. IsFiniteSet(inTasks(n, i, d))
  <2>1. DOMAIN runData[n] = 1..Len(runData[n]) /\ Len(runData[n]) \in Nat
    BY TasksOf
  <2>2. IsFiniteSet(1..Len(runData[n]))
    <3>1. PICK N \in Nat : N = Len(runData[n])
      BY <2>1
    <3>2. IsFiniteSet(1..N)
      <4>1. 1 \in Int /\ N \in Int
        OBVIOUS
      <4> QED  BY <4>1, FS_Interval
    <3> QED  BY <3>1, <3>2
  <2>3. inTasks(n, i, d) \in SUBSET (1..Len(runData[n]))
    BY <2>1 DEF inTasks
  <2> QED  BY <2>2, <2>3, FS_Subset
<1>3. IsFiniteSet(inEnds(n, i, d))
  <2>1. inEnds(n, i, d) \in SUBSET branchEnds
    BY DEF inEnds
  <2> QED  BY <2>1, FS_Subset
<1>4. Cardinality(inTasks(n, i, d)) \in Nat /\ Cardinality(inEnds(n, i, d)) \in Nat
  BY <1>2, <1>3, FS_CardinalityType
<1>5. num(onItem(current, n, i, d)) \in {0, 1}
  BY DEF num
<1> QED  BY <1>1, <1>2, <1>3, <1>4, <1>5 DEF total

\* The data of an item that is executed is with its task if the node succeeded.
LEMMA CountTask ==
    ASSUME Base, Base', wf' = wf, pc = "node", NEW state \in TaskStates, NEW out \in SUBSET Nat,
           pushTask(state, out), NEW n \in wf.nodes, NEW i, NEW d, IsFiniteSet(branchEnds)
    PROVE  /\ state \in {"success", "error"} =>
                 Cardinality(inTasks(n, i, d))' =
                    Cardinality(inTasks(n, i, d)) + num(onItem(current, n, i, d))
           /\ state \notin {"success", "error"} => inTasks(n, i, d)' = inTasks(n, i, d)
<1>1. PICK m, t : m = current.node /\ t = task(state, out)
  OBVIOUS
<1>2. /\ m \in wf.nodes /\ t.main = current.main /\ t.state = state
      /\ \A l \in wf.nodes : l # m => runData'[l] = runData[l]
      /\ Len(runData[m]) \in Nat /\ Len(runData'[m]) = Len(runData[m]) + 1
      /\ \A k \in 1..Len(runData[m]) : runData'[m][k] = runData[m][k]
      /\ runData'[m][Len(runData[m]) + 1] = t
  BY <1>1, PushTask
<1>3. PICK S, T : S = inTasks(n, i, d) /\ T = inTasks(n, i, d)'
  OBVIOUS
<1>4. IsFiniteSet(S)
  BY <1>3, TotalType
<1>5. PICK b \in BOOLEAN : b <=> onItem(current, n, i, d) /\ state \in {"success", "error"}
  BY DEF onItem, has
<1>6. CASE n # m
  <2>1. S = T
    BY <1>2, <1>3, <1>6 DEF inTasks
  <2>2. num(onItem(current, n, i, d)) = 0
    BY <1>1, <1>6 DEF num, onItem
  <2>3. Cardinality(S) \in Nat
    BY <1>4, FS_CardinalityType
  <2> QED  BY <1>3, <2>1, <2>2, <2>3
<1>7. CASE n = m
  <2>1. PICK p : p = Len(runData[m]) + 1
    OBVIOUS
  <2>2. DOMAIN runData[m] = 1..Len(runData[m])
    BY <1>2, TasksOf
  <2>3. DOMAIN runData'[m] = 1..p
    <3>1. runData'[m] \in Seq(TaskData)'
      BY <1>2 DEF Base
    <3> QED  BY <1>2, <2>1, <3>1, LenProperties
  <2>4. \A k : k \in T <=> k \in S \/ (b /\ k = p)
    <3>1. ASSUME NEW k \in 1..Len(runData[m])
          PROVE  (k \in T <=> k \in S) /\ k # p
      <4>1. k \in DOMAIN runData[m] /\ k \in DOMAIN runData'[m] /\ k # p
        BY <1>2, <2>1, <2>2, <2>3
      <4>2. runData'[m][k] = runData[m][k]
        BY <1>2
      <4> QED  BY <1>3, <1>7, <4>1, <4>2 DEF inTasks
    <3>2. (p \in T <=> b) /\ p \notin S
      <4>1. p \in DOMAIN runData'[m] /\ p \notin DOMAIN runData[m] /\ runData'[m][p] = t
        BY <1>2, <2>1, <2>2, <2>3
      <4>2. p \in T <=> state \in {"success", "error"} /\ has(current.main, i, d)
        BY <1>2, <1>3, <1>7, <4>1 DEF inTasks
      <4> QED  BY <1>1, <1>3, <1>5, <1>7, <4>1, <4>2 DEF inTasks, onItem
    <3>3. T \subseteq 1..p /\ S \subseteq 1..Len(runData[m])
      BY <1>3, <1>7, <2>2, <2>3 DEF inTasks
    <3>4. \A k \in 1..p : k \in 1..Len(runData[m]) \/ k = p
      BY <1>2, <2>1
    <3> QED  BY <3>1, <3>2, <3>3, <3>4
  <2>5. p \notin S /\ T = IF b THEN S \cup {p} ELSE S
    <3>1. p \notin S
      BY <1>2, <1>3, <1>7, <2>1, <2>2 DEF inTasks
    <3> QED  BY <2>4, <3>1
  <2>6. Cardinality(T) = Cardinality(S) + num(b)
    BY <1>4, <2>5, OneMore
  <2>7. state \in {"success", "error"} => num(b) = num(onItem(current, n, i, d))
    BY <1>5 DEF num
  <2>8. state \notin {"success", "error"} => T = S
    BY <1>5, <2>5
  <2> QED  BY <1>3, <2>6, <2>7, <2>8
<1> QED  BY <1>6, <1>7

\* No item is executed between the rounds.
LEMMA NoneExecuted ==
    ASSUME wf \in Workflows, NEW n \in wf.nodes, NEW i, NEW d
    PROVE  ~onItem(NoItem, n, i, d) /\ num(onItem(NoItem, n, i, d)) = 0
<1>1. n # 0 /\ NoItem.node = 0
  BY WorkflowFacts DEF NoItem
<1> QED  BY <1>1 DEF onItem, num

\* The state of a step that is not a partial execution.
Stepping == Base /\ Base' /\ wf' = wf /\ IsFiniteSet(branchEnds)

\* The places after a step, one by one.
LEMMA TotalNext ==
    ASSUME NEW n, NEW i, NEW d
    PROVE  total(n, i, d)' = pending(stack', waitingExecution', n, i, d)
              + Cardinality(inTasks(n, i, d)') + Cardinality(inEnds(n, i, d)')
              + num(onItem(current', n, i, d))
  BY DEF total, pending, onStack, inWait, waits, onItem, has, num

LEMMA TotalQuiet ==
    ASSUME Quiet, wf' = wf, NEW n, NEW i, NEW d
    PROVE  total(n, i, d)' = total(n, i, d) /\ branchEnds' = branchEnds
<1>1. UNCHANGED <<stack, waitingExecution, runData, current, branchEnds>>
  BY DEF Quiet, waitVars
<1>2. inTasks(n, i, d)' = inTasks(n, i, d) /\ inEnds(n, i, d)' = inEnds(n, i, d)
  BY <1>1 DEF inTasks, inEnds
<1> QED  BY <1>1, <1>2, TotalNext DEF total

LEMMA TotalStarts ==
    ASSUME Stepping, Starts, NEW n \in wf.nodes, NEW i, NEW d
    PROVE  total(n, i, d)' = total(n, i, d) /\ branchEnds' = branchEnds
<1>1. /\ UNCHANGED <<waitingExecution, runData, branchEnds>>
      /\ stack # <<>> /\ current' = Head(stack) /\ stack' = Tail(stack) /\ current = NoItem
  BY DEF Stepping, Starts, waitVars, Base
<1>2. inTasks(n, i, d)' = inTasks(n, i, d) /\ inEnds(n, i, d)' = inEnds(n, i, d)
  BY <1>1 DEF inTasks, inEnds
<1>3. PICK st, rest, t : st = stack /\ rest = stack' /\ t = current'
  OBVIOUS
<1>4. isPush(st, t, rest)
  <2>1. st \in Seq(Items) /\ st # <<>>
    BY <1>1, <1>3, ExecState DEF Stepping, Base, ExecOK
  <2>2. Tail(st) \in Seq(Items) /\ Head(st) \in Items /\ st = <<Head(st)>> \o Tail(st)
    <3>1. Tail(st) \in Seq(Items) /\ Head(st) \in Items
      BY <2>1, RangeTail
    <3>2. st = <<Head(st)>> \o Tail(st)
      BY <2>1, HeadTailProperties
    <3> QED  BY <3>1, <3>2
  <2> QED  BY <1>1, <1>3, <2>2 DEF isPush
<1>5. PICK S, R, o : /\ S = onStack(st, n, i, d) /\ R = onStack(rest, n, i, d)
                     /\ o = num(onItem(t, n, i, d))
  OBVIOUS
<1>6. /\ onItem(t, n, i, d) => Cardinality(S) = Cardinality(R) + 1
      /\ ~onItem(t, n, i, d) => Cardinality(S) = Cardinality(R)
  BY <1>4, <1>5, CountPush
<1>7. Cardinality(R) \in Nat /\ Cardinality(inWait(waitingExecution, n, i, d)) \in Nat
  <2>1. PICK x : x = execState'
    OBVIOUS
  <2>2. x.stack = rest /\ x.waiting = waitingExecution
    BY <1>1, <1>3, <2>1 DEF execState
  <2>3. rest \in Seq(Items) /\ WaitingOK(waitingExecution)
    BY <1>4, ExecState DEF isPush, Stepping, Base, ExecOK
  <2>4. Cardinality(inWait(waitingExecution, n, i, d)) \in Nat
    <3>1. PICK y : y = execState
      OBVIOUS
    <3>2. ExecOK(y) /\ y.waiting = waitingExecution
      BY <3>1, ExecState DEF Stepping, Base
    <3> QED  BY <3>2, PlacesFinite
  <2>5. Cardinality(R) \in Nat
    <3>1. DOMAIN rest = 1..Len(rest) /\ Len(rest) \in Nat
      BY <2>3, LenProperties
    <3>2. IsFiniteSet(1..Len(rest))
      BY <3>1, FS_Interval
    <3>3. R \in SUBSET (1..Len(rest))
      BY <1>5, <3>1 DEF onStack
    <3> QED  BY <3>2, <3>3, FS_Subset, FS_CardinalityType
  <2> QED  BY <2>4, <2>5
<1>8. Cardinality(S) = Cardinality(R) + o /\ o \in Nat
  BY <1>5, <1>6, <1>7 DEF num
<1>9. num(onItem(current, n, i, d)) = 0
  BY <1>1, NoneExecuted DEF Stepping, Base
<1>10. /\ Cardinality(inTasks(n, i, d)) \in Nat /\ Cardinality(inEnds(n, i, d)) \in Nat
  BY TotalType DEF Stepping
<1>11. /\ pending(stack, waitingExecution, n, i, d) =
             Cardinality(S) + Cardinality(inWait(waitingExecution, n, i, d))
       /\ pending(stack', waitingExecution', n, i, d) =
             Cardinality(R) + Cardinality(inWait(waitingExecution, n, i, d))
  BY <1>1, <1>3, <1>5 DEF pending
<1>12. total(n, i, d)' = pending(stack', waitingExecution', n, i, d)
              + Cardinality(inTasks(n, i, d)) + Cardinality(inEnds(n, i, d)) + o
  BY <1>2, <1>3, <1>5, TotalNext
<1>13. total(n, i, d) = pending(stack, waitingExecution, n, i, d)
              + Cardinality(inTasks(n, i, d)) + Cardinality(inEnds(n, i, d)) + 0
  BY <1>9 DEF total
<1> QED  BY <1>1, <1>7, <1>8, <1>10, <1>11, <1>12, <1>13

LEMMA TotalEnds ==
    ASSUME Stepping, EndsBranch, NEW n \in wf.nodes, NEW i, NEW d, total(n, i, d) \in {0, 1}
    PROVE  total(n, i, d)' = total(n, i, d)
<1>1. /\ UNCHANGED <<stack, waitingExecution, runData>> /\ current' = NoItem
      /\ branchEnds' = branchEnds \cup {current}
  BY DEF EndsBranch, waitVars
<1>2. inTasks(n, i, d)' = inTasks(n, i, d)
  BY <1>1 DEF inTasks
<1>3. PICK S, T, b : /\ S = inEnds(n, i, d) /\ T = inEnds(n, i, d)'
                     /\ b \in BOOLEAN /\ (b <=> onItem(current, n, i, d))
  BY DEF onItem, has
<1>4. /\ pending(stack, waitingExecution, n, i, d) \in Nat
      /\ Cardinality(inTasks(n, i, d)) \in Nat /\ IsFiniteSet(S) /\ Cardinality(S) \in Nat
  BY <1>3, TotalType DEF Stepping
<1>5. num(onItem(current, n, i, d)) = num(b)
  BY <1>3 DEF num
<1>6. T = IF b THEN S \cup {current} ELSE S
  BY <1>1, <1>3 DEF inEnds, onItem, has
<1>7. Cardinality(T) = Cardinality(S) + num(b)
  <2>1. CASE b
    <3>1. Cardinality(S) = 0
      BY <1>3, <1>4, <1>5, <2>1 DEF total, num
    <3>2. current \notin S
      BY <1>4, <3>1, FS_EmptySet
    <3>3. PICK x : x = current
      OBVIOUS
    <3> QED  BY <1>3, <1>4, <1>6, <3>2, <3>3, OneMore
  <2>2. CASE ~b
    BY <1>4, <1>6, <2>2 DEF num
  <2> QED  BY <1>3, <2>1, <2>2
<1>8. num(onItem(current', n, i, d)) = 0
  BY <1>1, NoneExecuted DEF Stepping, Base
<1>9. num(b) \in Nat
  BY DEF num
<1>10. total(n, i, d)' = pending(stack, waitingExecution, n, i, d)
              + Cardinality(inTasks(n, i, d)) + Cardinality(T) + 0
  BY <1>1, <1>2, <1>3, <1>8, TotalNext
<1>11. total(n, i, d) = pending(stack, waitingExecution, n, i, d)
              + Cardinality(inTasks(n, i, d)) + Cardinality(S) + num(b)
  BY <1>3, <1>5 DEF total
<1> QED  BY <1>4, <1>7, <1>9, <1>10, <1>11

LEMMA TotalPutsBack ==
    ASSUME Stepping, NEW state, NEW how, PutsBack(state, how), NEW n \in wf.nodes, NEW i, NEW d
    PROVE  total(n, i, d)' = total(n, i, d) /\ branchEnds' = branchEnds
<1>1. /\ UNCHANGED <<waitingExecution, branchEnds>> /\ current' = NoItem
      /\ stack' = <<current>> \o stack /\ pc = "node"
      /\ state \in TaskStates /\ state \notin {"success", "error"} /\ {} \in SUBSET Nat
      /\ pushTask(state, {})
  BY DEF PutsBack, waitVars, putBack, TaskStates
<1>2. inTasks(n, i, d)' = inTasks(n, i, d)
  BY <1>1, CountTask DEF Stepping
<1>3. inEnds(n, i, d)' = inEnds(n, i, d)
  BY <1>1 DEF inEnds
<1>4. PICK st, new, t : st = stack /\ new = stack' /\ t = current
  OBVIOUS
<1>5. isPush(new, t, st)
  <2>1. st \in Seq(Items) /\ t \in Items
    BY <1>1, <1>4, ExecState DEF Stepping, Base, ExecOK
  <2> QED  BY <1>1, <1>4, <2>1 DEF isPush
<1>6. PICK S, R, o : /\ S = onStack(st, n, i, d) /\ R = onStack(new, n, i, d)
                     /\ o = num(onItem(t, n, i, d))
  OBVIOUS
<1>7. /\ onItem(t, n, i, d) => Cardinality(R) = Cardinality(S) + 1
      /\ ~onItem(t, n, i, d) => Cardinality(R) = Cardinality(S)
  BY <1>5, <1>6, CountPush
<1>8. Cardinality(S) \in Nat /\ Cardinality(inWait(waitingExecution, n, i, d)) \in Nat
  <2>1. PICK y : y = execState
    OBVIOUS
  <2>2. ExecOK(y) /\ y.waiting = waitingExecution /\ y.stack = st
    BY <1>4, <2>1, ExecState DEF Stepping, Base
  <2> QED  BY <1>6, <2>2, PlacesFinite
<1>9. Cardinality(R) = Cardinality(S) + o /\ o \in Nat
  BY <1>6, <1>7, <1>8 DEF num
<1>10. num(onItem(current', n, i, d)) = 0
  BY <1>1, NoneExecuted DEF Stepping, Base
<1>11. /\ Cardinality(inTasks(n, i, d)) \in Nat /\ Cardinality(inEnds(n, i, d)) \in Nat
  BY TotalType DEF Stepping
<1>12. /\ pending(stack, waitingExecution, n, i, d) =
             Cardinality(S) + Cardinality(inWait(waitingExecution, n, i, d))
       /\ pending(stack', waitingExecution', n, i, d) =
             Cardinality(R) + Cardinality(inWait(waitingExecution, n, i, d))
  BY <1>1, <1>4, <1>6 DEF pending
<1>13. total(n, i, d)' = pending(stack', waitingExecution', n, i, d)
              + Cardinality(inTasks(n, i, d)) + Cardinality(inEnds(n, i, d)) + 0
  BY <1>2, <1>3, <1>10, TotalNext
<1>14. total(n, i, d) = pending(stack, waitingExecution, n, i, d)
              + Cardinality(inTasks(n, i, d)) + Cardinality(inEnds(n, i, d)) + o
  BY <1>4, <1>6 DEF total
<1> QED  BY <1>1, <1>8, <1>9, <1>11, <1>12, <1>13, <1>14

\* A resumption or a retry leaves the data on the stack where it is.
LEMMA RestartStack ==
    ASSUME Base, Restarts, NEW n, NEW i, NEW d
    PROVE  onStack(stack', n, i, d) = onStack(stack, n, i, d)
<1>1. CASE stack' = stack
  BY <1>1
<1>2. CASE stack # <<>> /\ stack' = [stack EXCEPT ![1].disabled = TRUE]
  <2>1. stack \in Seq(Items)
    BY ExecState DEF Base, ExecOK
  <2>2. PICK u : u = stack'
    OBVIOUS
  <2>3. /\ u \in Seq(Items) /\ Len(u) = Len(stack)
        /\ \A j \in 1..Len(stack) :
              /\ u[j].node = stack[j].node /\ u[j].main = stack[j].main
              /\ u[j].source = stack[j].source
    <3>1. firstDisabled(stack, u)
      BY <1>2, <2>1, <2>2 DEF firstDisabled
    <3> QED  BY <3>1, DisabledFirst
  <2>4. DOMAIN u = 1..Len(stack) /\ DOMAIN stack = 1..Len(stack)
    BY <2>1, <2>3, LenProperties
  <2>5. \A j \in 1..Len(stack) : onItem(u[j], n, i, d) <=> onItem(stack[j], n, i, d)
    BY <2>3 DEF onItem
  <2> QED  BY <2>2, <2>4, <2>5 DEF onStack
<1> QED  BY <1>1, <1>2 DEF Restarts

\* A task that failed or waited does not count.
LEMMA TotalRestarts ==
    ASSUME Stepping, Restarts, NEW n \in wf.nodes, NEW i, NEW d,
           \A m \in wf.nodes : \A k \in DOMAIN runData[m] : runData[m][k].state # "error"
    PROVE  total(n, i, d)' = total(n, i, d) /\ branchEnds' = branchEnds
<1>1. UNCHANGED <<waitingExecution, branchEnds, current>>
  BY DEF Restarts, waitVars
<1>2. inEnds(n, i, d)' = inEnds(n, i, d)
  BY <1>1 DEF inEnds
<1>3. onStack(stack', n, i, d) = onStack(stack, n, i, d)
  BY RestartStack DEF Stepping
<1>4. inTasks(n, i, d)' = inTasks(n, i, d)
  <2>1. CASE runData' = runData
    BY <2>1 DEF inTasks
  <2>2. CASE Drops
    <3>1. PICK m : m = lastNodeExecuted
      OBVIOUS
    <3>2. /\ m \in wf.nodes
          /\ \A l \in wf.nodes : l # m => runData'[l] = runData[l]
          /\ Len(runData[m]) \in Nat \ {0} /\ Len(runData'[m]) = Len(runData[m]) - 1
          /\ \A k \in 1..Len(runData'[m]) : runData'[m][k] = runData[m][k]
          /\ runData[m][Len(runData[m])].state \in {"failed", "error", "waiting"}
      BY <2>2, <3>1, DropTask DEF Stepping
    <3>3. DOMAIN runData[m] = 1..Len(runData[m])
      BY <3>2, TasksOf DEF Stepping
    <3>4. DOMAIN runData'[m] = 1..(Len(runData[m]) - 1)
      <4>1. runData'[m] \in Seq(TaskData)'
        BY <3>2 DEF Base, Stepping
      <4> QED  BY <3>2, <4>1, LenProperties
    <3>5. CASE n # m
      BY <3>2, <3>5 DEF inTasks
    <3>6. CASE n = m
      <4>1. Len(runData[m]) \in DOMAIN runData[m]
        BY <3>2, <3>3
      <4>2. Len(runData[m]) \notin inTasks(n, i, d)
        BY <3>2, <3>6, <4>1 DEF inTasks
      <4>3. \A k : k \in DOMAIN runData'[m] <=> k \in DOMAIN runData[m] /\ k # Len(runData[m])
        BY <3>2, <3>3, <3>4
      <4>4. \A k \in DOMAIN runData'[m] : runData'[m][k] = runData[m][k]
        BY <3>2, <3>4
      <4> QED  BY <3>6, <4>2, <4>3, <4>4 DEF inTasks
    <3> QED  BY <3>5, <3>6
  <2> QED  BY <2>1, <2>2 DEF Restarts
<1>5. pending(stack', waitingExecution', n, i, d) = pending(stack, waitingExecution, n, i, d)
  BY <1>1, <1>3 DEF pending
<1> QED  BY <1>1, <1>2, <1>4, <1>5, TotalNext DEF total

LEMMA TotalFinishes ==
    ASSUME Stepping, NEW state, NEW out, Finishes(state, out), ~outOfTurn',
           NEW n \in wf.nodes, NEW i, NEW d, real(d),
           NEW b \in BOOLEAN, b <=> brought(nodesToAdd(current.node, out), {}, n, i, d)
    PROVE  total(n, i, d)' = total(n, i, d) + num(b) /\ branchEnds' = branchEnds
<1>1. /\ UNCHANGED branchEnds /\ current' = NoItem /\ pc = "node" /\ state \in TaskStates
      /\ state \in {"success", "error"} /\ out \in SUBSET Nat /\ pushTask(state, out)
      /\ \E y : Finished(out, y)
  BY DEF Finishes, TaskStates
<1>2. inEnds(n, i, d)' = inEnds(n, i, d)
  BY <1>1 DEF inEnds
<1>3. PICK p, q : /\ p = pending(stack, waitingExecution, n, i, d)
                  /\ q = pending(stack', waitingExecution', n, i, d)
  OBVIOUS
<1>4. p \in Nat /\ q = p + num(b) /\ num(b) \in Nat
  <2>1. num(brought(nodesToAdd(current.node, out), {}, n, i, d)) = num(b) /\ num(b) \in Nat
    BY DEF num
  <2>2. p \in Nat /\ q = p + num(brought(nodesToAdd(current.node, out), {}, n, i, d))
    BY <1>1, <1>3, CountFinished DEF Stepping
  <2> QED  BY <2>1, <2>2
<1>5. PICK s, t, o : /\ s = Cardinality(inTasks(n, i, d)) /\ t = Cardinality(inTasks(n, i, d)')
                     /\ o = num(onItem(current, n, i, d))
  OBVIOUS
<1>6. t = s + o
  BY <1>1, <1>5, CountTask DEF Stepping
<1>7. s \in Nat /\ o \in {0, 1} /\ Cardinality(inEnds(n, i, d)) \in Nat
  BY <1>5, TotalType DEF Stepping
<1>8. num(onItem(current', n, i, d)) = 0
  BY <1>1, NoneExecuted DEF Stepping, Base
<1>9. total(n, i, d)' = q + t + Cardinality(inEnds(n, i, d)) + 0
  BY <1>2, <1>3, <1>5, <1>8, TotalNext
<1>10. total(n, i, d) = p + s + Cardinality(inEnds(n, i, d)) + o
  BY <1>3, <1>5 DEF total
<1> QED  BY <1>1, <1>4, <1>6, <1>7, <1>9, <1>10

\* Serials are not used again, so what has a serial yet to come is nowhere, and what was
\* emitted is in one place.  Errors of nodes that continue are tasks like others.
LostInv ==
    /\ IsFiniteSet(branchEnds)
    /\ \A n \in wf.nodes : \A k \in DOMAIN runData[n] :
          /\ runData[n][k].serial < serial
          /\ runData[n][k].state = "error" => n \in wf.continueOnFail \cap wf.fails
    /\ \A n \in wf.nodes : \A i : \A d \in Data : d.serial >= serial => total(n, i, d) = 0
    /\ \A m \in wf.nodes : \A k \in DOMAIN runData[m] : \A c \in Range(wf.conns) :
          \A d : /\ c.from = m /\ c.output \in runData[m][k].out
                 /\ d = Datum(m, runData[m][k].serial, c.output)
             => total(c.to, c.input + 1, d) = 1

\* No task that a retry removes has consumed or emitted anything: only the error of a node
\* that continued on fail has, and it is not retried, or there is no such node.
NoErrorRetried == restarts = 0 \/ wf.continueOnFail \cap wf.fails = {}

LostHolds == destination = 0 /\ ~outOfTurn /\ NoErrorRetried => LostInv

\* What a task emitted over a connection.
LEMMA Emitted ==
    ASSUME Base, NEW m \in wf.nodes, NEW k \in DOMAIN runData[m], NEW c \in Range(wf.conns)
    PROVE  /\ c.to \in wf.nodes /\ real(Datum(m, runData[m][k].serial, c.output))
           /\ Datum(m, runData[m][k].serial, c.output).serial = runData[m][k].serial
           /\ runData[m][k].serial \in Nat
<1>1. runData[m][k].serial \in Nat
  <2>1. runData[m][k] \in TaskData
    BY BaseCounted, InRange DEF Range
  <2> QED  BY <2>1 DEF TaskData
<1>2. m # 0 /\ c.to \in wf.nodes
  BY WorkflowFacts DEF Base
<1> QED  BY <1>1, <1>2 DEF real, Datum, Null, EmptyData

\* Data with a serial yet to come.
LEMMA FreshReal ==
    ASSUME Base, NEW d \in Data, d.serial >= serial
    PROVE  real(d)
<1>1. serial \in Nat \ {0} /\ d.serial \in Nat
  BY DEF Base, Data
<1>2. d.serial # 0
  BY <1>1
<1> QED  BY <1>2 DEF real, Null, EmptyData, Datum

\* Nothing is emitted, and the data stays in as many places.
LEMMA LostSame ==
    ASSUME Stepping, LostInv, IsFiniteSet(branchEnds'),
           serial' = serial \/ serial' = serial + 1,
           \A n \in wf.nodes : \A i, d : total(n, i, d) \in {0, 1} =>
              total(n, i, d)' = total(n, i, d),
           \A n \in wf.nodes : \A k \in DOMAIN runData'[n] :
              \/ k \in DOMAIN runData[n] /\ runData'[n][k] = runData[n][k]
              \/ /\ runData'[n][k].serial < serial' /\ runData'[n][k].state # "error"
                 /\ runData'[n][k].out = {}
    PROVE  LostInv'
<1>1. serial \in Nat /\ serial' \in Nat /\ serial' >= serial /\ wf' = wf
  BY DEF Stepping, Base
<1>2. ASSUME NEW n \in wf.nodes, NEW k \in DOMAIN runData'[n]
      PROVE  /\ runData'[n][k].serial < serial'
             /\ runData'[n][k].state = "error" => n \in wf.continueOnFail \cap wf.fails
  <2>1. CASE k \in DOMAIN runData[n] /\ runData'[n][k] = runData[n][k]
    <3>1. runData[n][k].serial \in Nat
      <4>1. runData[n][k] \in TaskData
        BY <2>1, BaseCounted, InRange DEF Range, Stepping
      <4> QED  BY <4>1 DEF TaskData
    <3>2. /\ runData[n][k].serial < serial
          /\ runData[n][k].state = "error" => n \in wf.continueOnFail \cap wf.fails
      BY <2>1 DEF LostInv
    <3> QED  BY <1>1, <2>1, <3>1, <3>2
  <2> QED  BY <2>1
<1>3. ASSUME NEW n \in wf.nodes, NEW i, NEW d \in Data, d.serial >= serial'
      PROVE  total(n, i, d)' = 0
  <2>1. d.serial \in Nat
    BY DEF Data
  <2>2. d.serial >= serial
    BY <1>1, <1>3, <2>1
  <2>3. total(n, i, d) = 0
    BY <2>2 DEF LostInv
  <2> QED  BY <2>3
<1>4. ASSUME NEW m \in wf.nodes, NEW k \in DOMAIN runData'[m], NEW c \in Range(wf.conns),
             NEW d, c.from = m, c.output \in runData'[m][k].out,
             d = Datum(m, runData'[m][k].serial, c.output)
      PROVE  total(c.to, c.input + 1, d)' = 1
  <2>1. k \in DOMAIN runData[m] /\ runData'[m][k] = runData[m][k]
    BY <1>4
  <2>2. PICK n, i : n = c.to /\ i = c.input + 1
    OBVIOUS
  <2>3. total(n, i, d) = 1
    BY <1>4, <2>1, <2>2 DEF LostInv
  <2>4. n \in wf.nodes
    BY <2>2, WorkflowFacts DEF Stepping, Base
  <2>5. total(n, i, d)' = 1
    BY <2>3, <2>4
  <2> QED  BY <2>2, <2>5
<1> QED  BY <1>1, <1>2, <1>3, <1>4 DEF LostInv

\* The steps that emit nothing.
LEMMA LostKept ==
    ASSUME Stepping, LostInv, KnownStep, restarts' = 0 \/ wf.continueOnFail \cap wf.fails = {},
           restarts \in Nat, ~\E state, out : Finishes(state, out)
    PROVE  LostInv'
<1>1. CASE Quiet
  <2>1. UNCHANGED <<runData, serial, branchEnds>> /\ wf' = wf
    BY <1>1 DEF Quiet, Stepping
  <2>2. \A n \in wf.nodes : \A i, d : total(n, i, d)' = total(n, i, d)
    BY <1>1, <2>1, TotalQuiet
  <2> QED  BY <2>1, <2>2, LostSame DEF Stepping
<1>2. CASE Starts
  <2>1. UNCHANGED <<runData, serial, branchEnds>>
    BY <1>2 DEF Starts
  <2>2. \A n \in wf.nodes : \A i, d : total(n, i, d)' = total(n, i, d)
    BY <1>2, TotalStarts
  <2> QED  BY <2>1, <2>2, LostSame DEF Stepping
<1>3. CASE EndsBranch
  <2>1. UNCHANGED <<runData, serial>> /\ branchEnds' = branchEnds \cup {current}
    BY <1>3 DEF EndsBranch
  <2>2. \A n \in wf.nodes : \A i, d : total(n, i, d) \in {0, 1} =>
           total(n, i, d)' = total(n, i, d)
    BY <1>3, TotalEnds
  <2>3. IsFiniteSet(branchEnds')
    <3>1. PICK S, t : S = branchEnds /\ t = current
      OBVIOUS
    <3>2. IsFiniteSet(S \cup {t})
      BY <3>1, FS_AddElement DEF Stepping
    <3> QED  BY <2>1, <3>1, <3>2
  <2> QED  BY <2>1, <2>2, <2>3, LostSame
<1>4. CASE Restarts
  <2>1. UNCHANGED <<serial, branchEnds>> /\ restarts' = restarts + 1
    BY <1>4 DEF Restarts
  <2>2. wf.continueOnFail \cap wf.fails = {}
    BY <2>1
  <2>3. \A m \in wf.nodes : \A k \in DOMAIN runData[m] : runData[m][k].state # "error"
    BY <2>2 DEF LostInv
  <2>4. \A n \in wf.nodes : \A i, d : total(n, i, d)' = total(n, i, d)
    BY <1>4, <2>3, TotalRestarts
  <2>5. \A n \in wf.nodes : \A k \in DOMAIN runData'[n] :
           k \in DOMAIN runData[n] /\ runData'[n][k] = runData[n][k]
    BY <1>4, RestartTasks DEF Stepping
  <2> QED  BY <2>1, <2>4, <2>5, LostSame DEF Stepping
<1>5. ASSUME NEW state, NEW how, PutsBack(state, how)
      PROVE  LostInv'
  <2>1. /\ pc = "node" /\ state \in TaskStates /\ {} \in SUBSET Nat /\ pushTask(state, {})
        /\ state # "error" /\ UNCHANGED branchEnds /\ serial' = serial + 1 /\ serial \in Nat
    BY <1>5 DEF PutsBack, TaskStates, pushTask, Stepping, Base
  <2>2. \A n \in wf.nodes : \A i, d : total(n, i, d)' = total(n, i, d)
    BY <1>5, TotalPutsBack
  <2>3. ASSUME NEW n \in wf.nodes, NEW k \in DOMAIN runData'[n]
        PROVE  \/ k \in DOMAIN runData[n] /\ runData'[n][k] = runData[n][k]
               \/ /\ runData'[n][k].serial < serial' /\ runData'[n][k].state # "error"
                  /\ runData'[n][k].out = {}
    <3>1. CASE k \in DOMAIN runData[n] /\ runData'[n][k] = runData[n][k]
      BY <3>1
    <3>2. CASE /\ runData'[n][k].serial = serial /\ runData'[n][k].state = state
               /\ runData'[n][k].out = {}
      BY <2>1, <3>2
    <3> QED  BY <2>1, <3>1, <3>2, TaskSpots DEF Stepping
  <2> QED  BY <2>1, <2>2, <2>3, LostSame DEF Stepping
<1> QED  BY <1>1, <1>2, <1>3, <1>4, <1>5 DEF KnownStep

\* What is brought has the serial of the task that ends.
LEMMA BroughtSerial ==
    ASSUME Base, NEW out, NEW n, NEW i, NEW d, brought(nodesToAdd(current.node, out), {}, n, i, d)
    PROVE  d.serial = serial
<1>1. wf \in Workflows /\ Counted
  BY BaseCounted DEF Base
<1>2. PICK c \in nodesToAdd(current.node, out) : brings(c, n, i, d)
  BY DEF brought
<1>3. c \in Range(wf.conns)
  BY <1>1, <1>2, NodesToAdd
<1> QED  BY <1>1, <1>2, <1>3, Delivered DEF brings

\* The step that emits: what was there stays, and what is new is in one place.
LEMMA LostEmits ==
    ASSUME Stepping, LostInv, NEW state, NEW out, Finishes(state, out), ~outOfTurn'
    PROVE  LostInv'
<1>1. /\ pc = "node" /\ state \in TaskStates /\ out \in SUBSET Nat /\ pushTask(state, out)
      /\ UNCHANGED branchEnds /\ serial' = serial + 1 /\ serial \in Nat \ {0}
      /\ state = "error" => current.node \in wf.continueOnFail \cap wf.fails
      /\ Base /\ Base' /\ wf' = wf /\ wf \in Workflows /\ Counted
  BY BaseCounted DEF Finishes, TaskStates, pushTask, Stepping, Base
<1>2. ASSUME NEW n \in wf.nodes, NEW i, NEW d, real(d), d.serial # serial,
             total(n, i, d) \in {0, 1}
      PROVE  total(n, i, d)' = total(n, i, d)
  <2>1. ~brought(nodesToAdd(current.node, out), {}, n, i, d)
    BY <1>1, <1>2, BroughtSerial
  <2>2. PICK b \in BOOLEAN : b = FALSE
    OBVIOUS
  <2>3. b <=> brought(nodesToAdd(current.node, out), {}, n, i, d)
    BY <2>1, <2>2
  <2>4. total(n, i, d)' = total(n, i, d) + num(b)
    BY <1>2, <2>3, TotalFinishes
  <2>5. num(b) = 0
    BY <2>2 DEF num
  <2> QED  BY <1>2, <2>4, <2>5
<1>3. ASSUME NEW n \in wf.nodes, NEW k \in DOMAIN runData'[n]
      PROVE  \/ k \in DOMAIN runData[n] /\ runData'[n][k] = runData[n][k]
             \/ /\ n = current.node
                /\ runData'[n][k].state = state /\ runData'[n][k].out = out
                /\ runData'[n][k].serial = serial
  BY <1>1, TaskSpots
<1>4. ASSUME NEW n \in wf.nodes, NEW k \in DOMAIN runData[n]
      PROVE  runData[n][k].serial \in Nat /\ runData[n][k].serial < serial
  <2>1. runData[n][k] \in TaskData
    BY <1>1, BaseCounted, InRange DEF Range
  <2> QED  BY <2>1 DEF TaskData, LostInv
<1>5. ASSUME NEW n \in wf.nodes, NEW k \in DOMAIN runData'[n]
      PROVE  /\ runData'[n][k].serial < serial'
             /\ runData'[n][k].state = "error" => n \in wf.continueOnFail \cap wf.fails
  <2>1. CASE k \in DOMAIN runData[n] /\ runData'[n][k] = runData[n][k]
    <3>1. runData[n][k].state = "error" => n \in wf.continueOnFail \cap wf.fails
      BY <2>1 DEF LostInv
    <3>2. runData[n][k].serial \in Nat /\ runData[n][k].serial < serial
      BY <1>4, <2>1
    <3> QED  BY <1>1, <2>1, <3>1, <3>2
  <2>2. CASE /\ n = current.node /\ runData'[n][k].state = state
             /\ runData'[n][k].serial = serial
    BY <1>1, <2>2
  <2> QED  BY <1>3, <2>1, <2>2
<1>6. ASSUME NEW n \in wf.nodes, NEW i, NEW d \in Data, d.serial >= serial'
      PROVE  total(n, i, d)' = 0
  <2>1. d.serial \in Nat
    BY DEF Data
  <2>2. d.serial >= serial /\ d.serial # serial
    BY <1>1, <1>6, <2>1
  <2>3. total(n, i, d) = 0
    BY <2>2 DEF LostInv
  <2>4. real(d)
    BY <1>1, <2>2, FreshReal
  <2> QED  BY <1>2, <2>2, <2>3, <2>4
<1>7. ASSUME NEW m \in wf.nodes, NEW k \in DOMAIN runData'[m], NEW c \in Range(wf.conns),
             NEW d, c.from = m, c.output \in runData'[m][k].out,
             d = Datum(m, runData'[m][k].serial, c.output)
      PROVE  total(c.to, c.input + 1, d)' = 1
  <2>1. PICK n, i : n = c.to /\ i = c.input + 1
    OBVIOUS
  <2>2. n \in wf.nodes
    BY <1>1, <2>1, WorkflowFacts
  <2>3. CASE k \in DOMAIN runData[m] /\ runData'[m][k] = runData[m][k]
    <3>1. total(n, i, d) = 1
      BY <1>7, <2>1, <2>3 DEF LostInv
    <3>2. real(d) /\ d.serial = runData[m][k].serial
      BY <1>1, <1>7, <2>3, Emitted
    <3>3. d.serial # serial
      BY <1>1, <1>4, <2>3, <3>2
    <3>4. total(n, i, d)' = 1
      BY <1>2, <2>2, <3>1, <3>2, <3>3
    <3> QED  BY <2>1, <3>4
  <2>4. CASE /\ m = current.node /\ runData'[m][k].out = out
             /\ runData'[m][k].serial = serial
    <3>1. d = datumOf(c)
      BY <1>7, <2>4 DEF datumOf
    <3>2. d \in Data /\ d.serial = serial
      BY <1>1, <3>1, Delivered
    <3>3. d.serial >= serial
      BY <1>1, <3>2
    <3>4. total(n, i, d) = 0 /\ real(d)
      BY <1>1, <2>2, <3>2, <3>3, FreshReal DEF LostInv
    <3>5. c \in nodesToAdd(current.node, out) /\ brings(c, n, i, d)
      BY <1>7, <2>1, <2>4, <3>1 DEF nodesToAdd, brings
    <3>6. brought(nodesToAdd(current.node, out), {}, n, i, d)
      BY <3>5 DEF brought
    <3>7. PICK b \in BOOLEAN : b = TRUE
      OBVIOUS
    <3>8. b <=> brought(nodesToAdd(current.node, out), {}, n, i, d)
      BY <3>6, <3>7
    <3>9. total(n, i, d)' = total(n, i, d) + num(b)
      BY <2>2, <3>4, <3>8, TotalFinishes
    <3>10. total(n, i, d)' = 1
      BY <3>4, <3>7, <3>9 DEF num
    <3> QED  BY <2>1, <3>10
  <2> QED  BY <1>3, <2>3, <2>4
<1>8. IsFiniteSet(branchEnds')
  BY <1>1 DEF Stepping
<1> QED  BY <1>1, <1>5, <1>6, <1>7, <1>8 DEF LostInv

LEMMA LostStep ==
    ASSUME TypeInv, TypeInv', LostHolds, [EngineNext]_engineVars
    PROVE  LostHolds'
<1>1. SUFFICES ASSUME destination' = 0, ~outOfTurn', NoErrorRetried'
               PROVE  LostInv'
  BY DEF LostHolds
<1>2. Base /\ WaitsOnLast /\ KnownStep /\ wf' = wf /\ Base' /\ wf \in Workflows
  BY <1>1, DestinationStays, Steps DEF TypeInv
<1>3. /\ restarts \in Nat /\ (restarts' = 0 \/ wf.continueOnFail \cap wf.fails = {})
      /\ NoErrorRetried /\ destination = 0
  BY <1>1, <1>2, RestartsGrow DEF NoErrorRetried, Base
<1>4. ~outOfTurn
  <2>1. ASSUME NEW state, NEW out, Finishes(state, out)
        PROVE  ~outOfTurn
    BY <1>1, <1>2, <2>1, TurnFinished DEF Finishes
  <2>2. CASE outOfTurn' = outOfTurn
    BY <1>1, <2>2
  <2>3. ASSUME ~\E state, out : Finishes(state, out)
        PROVE  outOfTurn' = outOfTurn
    BY <1>2, <2>3 DEF KnownStep, Quiet, Starts, EndsBranch, Restarts, PutsBack, waitVars
  <2> QED  BY <2>1, <2>2, <2>3
<1>5. LostInv
  BY <1>3, <1>4 DEF LostHolds
<1>6. Stepping
  BY <1>2, <1>5 DEF Stepping, LostInv
<1>7. CASE \E state, out : Finishes(state, out)
  BY <1>1, <1>5, <1>6, <1>7, LostEmits
<1>8. CASE ~\E state, out : Finishes(state, out)
  BY <1>2, <1>3, <1>5, <1>6, <1>8, LostKept
<1> QED  BY <1>7, <1>8

\* Pairs with the same first component are as many as their second ones.
LEMMA PairCount ==
    ASSUME NEW S, IsFiniteSet(S), NEW n, NEW T, T = {<<n, k>> : k \in S}
    PROVE  Cardinality(T) = Cardinality(S)
<1> DEFINE f == [k \in S |-> <<n, k>>]
<1>1. f \in [S -> T] /\ (\A j, k \in S : f[j] = f[k] => j = k)
  OBVIOUS
<1>2. \A p \in T : \E k \in S : f[k] = p
  OBVIOUS
<1>3. f \in Bijection(S, T)
  BY <1>1, <1>2 DEF Bijection, Injection, Surjection, IsInjective
<1> HIDE DEF f
<1> QED  BY <1>3, FS_Bijection DEF ExistsBijection

\* A datum in one of the places is in one place of the property.
LEMMA OnePlace ==
    ASSUME Base, IsFiniteSet(branchEnds), NEW n \in wf.nodes, NEW input \in Nat, NEW d,
           total(n, input + 1, d) = 1
    PROVE  places(n, input, d) = 1
<1> DEFINE A == {j \in DOMAIN stack : stack[j].node = n /\ carries(stack[j].main, input, d)}
           B == {p \in Entries :
                    p[1] = n /\ carries(waitingExecution[n][p[2]].main, input, d)}
           C == {t \in Tasks :
                    /\ t[1] = n /\ taskAt(t).state \in {"success", "error"}
                    /\ carries(taskAt(t).main, input, d)}
           D == {x \in branchEnds \cup {current} : x.node = n /\ carries(x.main, input, d)}
<1>1. places(n, input, d) = Cardinality(A) + Cardinality(B) + Cardinality(C) + Cardinality(D)
  BY DEF places
<1>2. PICK i : i = input + 1
  OBVIOUS
<1>3. \A main : carries(main, input, d) <=> has(main, i, d)
  BY <1>2 DEF carries, has
<1>4. PICK y : y = execState
  OBVIOUS
<1>5. ExecOK(y) /\ y.stack = stack /\ y.waiting = waitingExecution
  BY <1>4, ExecState DEF Base
<1>6. WaitingOK(waitingExecution)
  BY <1>5 DEF ExecOK
<1>7. A = onStack(stack, n, i, d)
  BY <1>3 DEF onStack, onItem
<1>8. PICK W : W = inWait(waitingExecution, n, i, d)
  OBVIOUS
<1>9. IsFiniteSet(W) /\ Cardinality(W) \in Nat /\ Cardinality(A) \in Nat
  <2> HIDE DEF A, B, C, D
  <2>1. /\ IsFiniteSet(inWait(y.waiting, n, i, d))
        /\ Cardinality(onStack(y.stack, n, i, d)) \in Nat
        /\ Cardinality(inWait(y.waiting, n, i, d)) \in Nat
    BY <1>5, PlacesFinite
  <2> QED  BY <1>5, <1>7, <1>8, <2>1
<1>10. B = {<<n, k>> : k \in W}
  <2>1. ASSUME NEW p \in B
        PROVE  p \in {<<n, k>> : k \in W}
    <3>1. PICK m, k : m \in DOMAIN waitingExecution /\ k \in DOMAIN waitingExecution[m]
                      /\ p = <<m, k>>
      BY DEF Entries, entriesOf
    <3>2. m = n /\ p[2] = k /\ k \in Nat /\ has(waitingExecution[n][k].main, i, d)
      BY <1>3, <1>6, <3>1 DEF WaitingOK
    <3> QED  BY <1>8, <3>1, <3>2 DEF inWait, waits
  <2>2. ASSUME NEW k \in W
        PROVE  <<n, k>> \in B
    <3>1. n \in DOMAIN waitingExecution /\ k \in DOMAIN waitingExecution[n]
      BY <1>8 DEF inWait, waits
    <3>2. <<n, k>> \in Entries
      BY <3>1 DEF Entries, entriesOf
    <3>3. carries(waitingExecution[n][k].main, input, d)
      BY <1>3, <1>8 DEF inWait
    <3> QED  BY <3>2, <3>3
  <2> HIDE DEF B
  <2> QED  BY <2>1, <2>2
<1>11. PICK S : S = inTasks(n, i, d)
  OBVIOUS
<1>12. C = {<<n, k>> : k \in S}
  <2>1. ASSUME NEW t \in C
        PROVE  t \in {<<n, k>> : k \in S}
    <3>1. PICK m, k : m \in wf.nodes /\ k \in DOMAIN runData[m] /\ t = <<m, k>>
      BY DEF Tasks
    <3>2. /\ m = n /\ taskAt(t) = runData[n][k]
          /\ taskAt(t).state \in {"success", "error"} /\ has(taskAt(t).main, i, d)
      BY <1>3, <3>1 DEF taskAt
    <3> QED  BY <1>11, <3>1, <3>2 DEF inTasks
  <2>2. ASSUME NEW k \in S
        PROVE  <<n, k>> \in C
    <3>1. <<n, k>> \in Tasks
      BY <1>11 DEF inTasks, Tasks
    <3>2. taskAt(<<n, k>>) = runData[n][k]
      BY DEF taskAt
    <3>3. runData[n][k].state \in {"success", "error"} /\ carries(runData[n][k].main, input, d)
      BY <1>3, <1>11 DEF inTasks
    <3> QED  BY <3>1, <3>2, <3>3
  <2> HIDE DEF C
  <2> QED  BY <2>1, <2>2
<1>13. D = IF onItem(current, n, i, d) THEN inEnds(n, i, d) \cup {current} ELSE inEnds(n, i, d)
  BY <1>3 DEF inEnds, onItem
<1> HIDE DEF A, B, C, D
<1>14. /\ IsFiniteSet(S) /\ Cardinality(S) \in Nat
       /\ IsFiniteSet(inEnds(n, i, d)) /\ Cardinality(inEnds(n, i, d)) \in Nat
  BY <1>11, TotalType
<1>15. Cardinality(B) = Cardinality(W) /\ Cardinality(C) = Cardinality(S)
  <2>1. PICK X, Y : X = B /\ Y = C
    OBVIOUS
  <2>2. X = {<<n, k>> : k \in W} /\ Y = {<<n, k>> : k \in S}
    BY <1>10, <1>12, <2>1
  <2>3. Cardinality(X) = Cardinality(W)
    BY <1>9, <2>2, PairCount
  <2>4. Cardinality(Y) = Cardinality(S)
    <3>1. IsFiniteSet(S) /\ Y = {<<n, k>> : k \in S}
      BY <1>14, <2>2
    <3> QED  BY <3>1, PairCount
  <2> QED  BY <2>1, <2>3, <2>4
<1>16. Cardinality(A) + Cardinality(W) + Cardinality(S) + Cardinality(inEnds(n, i, d))
          + num(onItem(current, n, i, d)) = 1
  BY <1>2, <1>7, <1>8, <1>11 DEF total, pending
<1>17. Cardinality(D) = Cardinality(inEnds(n, i, d)) + num(onItem(current, n, i, d))
  <2>1. PICK E, t : E = inEnds(n, i, d) /\ t = current
    OBVIOUS
  <2>2. CASE onItem(current, n, i, d)
    <3>1. num(onItem(current, n, i, d)) = 1
      BY <2>2 DEF num
    <3>2. Cardinality(E) = 0
      <4>1. PICK a, w, s, e : /\ a = Cardinality(A) /\ w = Cardinality(W)
                              /\ s = Cardinality(S) /\ e = Cardinality(E)
        OBVIOUS
      <4>2. a \in Nat /\ w \in Nat /\ s \in Nat /\ e \in Nat
        BY <1>9, <1>14, <2>1, <4>1
      <4>3. a + w + s + e + 1 = 1
        BY <1>16, <2>1, <3>1, <4>1
      <4>4. e = 0
        BY <4>2, <4>3
      <4> QED  BY <4>1, <4>4
    <3>3. E = {}
      BY <1>14, <2>1, <3>2, FS_EmptySet
    <3>4. D = {t}
      BY <1>13, <2>1, <2>2, <3>3
    <3>5. Cardinality({t}) = 1
      BY FS_Singleton
    <3> QED  BY <2>1, <3>1, <3>2, <3>4, <3>5
  <2>3. CASE ~onItem(current, n, i, d)
    <3>1. num(onItem(current, n, i, d)) = 0 /\ D = E
      BY <1>13, <2>1, <2>3 DEF num
    <3> QED  BY <1>14, <2>1, <3>1
  <2> QED  BY <2>2, <2>3
<1>18. num(onItem(current, n, i, d)) \in {0, 1}
  BY DEF num
<1> QED  BY <1>1, <1>9, <1>14, <1>15, <1>16, <1>17, <1>18

LEMMA LostImplies ==
    ASSUME Base, LostInv
    PROVE  NothingLost
<1>1. SUFFICES ASSUME NEW t \in Tasks, NEW c \in Range(wf.conns),
                      c.from = t[1], c.output \in taskAt(t).out
               PROVE  places(c.to, c.input, Datum(t[1], taskAt(t).serial, c.output)) = 1
  BY DEF NothingLost
<1>2. PICK m, k : m \in wf.nodes /\ k \in DOMAIN runData[m] /\ t = <<m, k>>
  BY DEF Tasks
<1>3. t[1] = m /\ taskAt(t) = runData[m][k]
  BY <1>2 DEF taskAt
<1>4. PICK n, input, d : n = c.to /\ input = c.input /\ d = Datum(m, runData[m][k].serial, c.output)
  OBVIOUS
<1>5. total(n, input + 1, d) = 1 /\ IsFiniteSet(branchEnds)
  BY <1>1, <1>2, <1>3, <1>4 DEF LostInv
<1>6. n \in wf.nodes /\ input \in Nat
  BY <1>4, WorkflowFacts DEF Base
<1>7. places(n, input, d) = 1
  BY <1>5, <1>6, OnePlace
<1> QED  BY <1>3, <1>4, <1>7

LEMMA LostInit ==
    ASSUME EngineInit
    PROVE  LostInv
<1>1. stack = <<[node |-> 1, disabled |-> FALSE, main |-> <<StartData>>, source |-> <<>>]>>
  BY DEF EngineInit
<1>2. /\ DOMAIN waitingExecution = {} /\ current = NoItem /\ wf \in Workflows
      /\ branchEnds = {} /\ serial = 1
      /\ \A n \in wf.nodes : DOMAIN runData[n] = {}
  BY DEF EngineInit
<1>3. ASSUME NEW n \in wf.nodes, NEW i, NEW d \in Data, d.serial >= serial
      PROVE  total(n, i, d) = 0
  <2>1. d # StartData
    <3>1. StartData.serial = 0 /\ ~(StartData.serial >= serial)
      BY <1>2 DEF StartData, Datum
    <3> QED  BY <1>3, <3>1
  <2>2. \A j \in DOMAIN stack : stack[j].main = <<StartData>>
    BY <1>1
  <2>3. \A j \in DOMAIN <<StartData>> : <<StartData>>[j] = StartData
    OBVIOUS
  <2>4. onStack(stack, n, i, d) = {}
    BY <2>1, <2>2, <2>3 DEF onStack, onItem, has
  <2>5. inWait(waitingExecution, n, i, d) = {} /\ inTasks(n, i, d) = {} /\ inEnds(n, i, d) = {}
    BY <1>2 DEF inWait, waits, inTasks, inEnds
  <2>6. num(onItem(current, n, i, d)) = 0
    BY <1>2, NoneExecuted
  <2>7. Cardinality({}) = 0
    BY FS_EmptySet
  <2> QED  BY <2>4, <2>5, <2>6, <2>7 DEF total, pending
<1>4. IsFiniteSet(branchEnds)
  BY <1>2, FS_EmptySet
<1> QED  BY <1>2, <1>3, <1>4 DEF LostInv

\* In every workflow, nothing a node emits is lost or used twice: over every connection
\* each output with items is in exactly one place, on the stack, waiting, executed or
\* consumed by a run, through merges, loops, cancellations, resumptions and the retries
\* of nodes that failed.  It holds as long as no entry was made at an index not beyond
\* the others or run before one with a smaller index, and an error that a node continued after is not what is retried.
THEOREM NothingIsLost ==
    EngineSpec => [](destination = 0 /\ ~outOfTurn /\ NoErrorRetried => NothingLost)
<1>1. EngineInit => LostHolds
  BY LostInit DEF LostHolds
<1>2. TypeInv /\ TypeInv' /\ LostHolds /\ [EngineNext]_engineVars => LostHolds'
  BY LostStep
<1>3. TypeInv /\ LostHolds => (destination = 0 /\ ~outOfTurn /\ NoErrorRetried => NothingLost)
  BY LostImplies DEF TypeInv, LostHolds
<1> QED  BY <1>1, <1>2, <1>3, TypesHold, PTL DEF EngineSpec
=================================================================================
