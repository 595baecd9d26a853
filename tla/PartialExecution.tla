--------------------------- MODULE PartialExecution ---------------------------
(***************************************************************************)
(* The algorithms of partial execution (partial-execution-utils): from a   *)
(* workflow, the run data of an earlier execution and a destination node,  *)
(* the part of the graph to run, the nodes to start from, the run data     *)
(* that stays, and the state of the engine to continue in.                 *)
(*                                                                         *)
(* Nodes, graphs and data are those of WorkflowGraph.                      *)
(***************************************************************************)
EXTENDS WorkflowGraph

-----------------------------------------------------------------------------
(* DirectedGraph                                                           *)

NoGraph == [nodes |-> {}, conns |-> <<>>]

RECURSIVE getChildrenRecursive(_, _, _)
getChildrenRecursive(g, n, children) ==
    FoldLeft(LAMBDA found, c :
                IF c.to \in found THEN found
                                  ELSE getChildrenRecursive(g, c.to, found \cup {c.to}),
             children, getDirectChildConnections(g, n))

getChildren(g, n) == getChildrenRecursive(g, n, {})

\* What Tarjan's algorithm computes: the nodes that reach n and are reached by it.
stronglyConnectedComponent(g, n) ==
    {n} \cup {m \in getChildren(g, n) : n \in getChildren(g, m)}

\* depthFirstSearch, as a pair: the nodes seen, and what was found (0 for nothing).
RECURSIVE depthFirstSearchRecursive(_, _, _, _)
depthFirstSearchRecursive(g, n, wanted, seen) ==
    IF n \in seen THEN <<seen, 0>>
    ELSE IF n \in wanted THEN <<seen, n>>
    ELSE FoldLeft(LAMBDA acc, c :
                     IF acc[2] # 0 THEN acc
                                   ELSE depthFirstSearchRecursive(g, c.to, wanted, acc[1]),
                  <<seen \cup {n}, 0>>, getDirectChildConnections(g, n))

-----------------------------------------------------------------------------
(* findSubgraph: the part of the graph between trigger and destination.    *)

RECURSIVE findSubgraphRecursive(_, _, _, _, _, _)
findSubgraphRecursive(g, destination, current, trigger, new, branch) ==
    LET keep(h) == FoldLeft(addConnection, h, branch)
        visited == \E c \in Range(branch) : c.to = current
    IN  IF current = trigger
          THEN keep([new EXCEPT !.nodes = @ \cup {trigger}])
        ELSE IF visited
          THEN IF current = destination THEN new ELSE keep(new)
        ELSE FoldLeft(LAMBDA acc, c :
                         findSubgraphRecursive(g, destination, c.from, trigger, acc,
                                               Append(branch, c)),
                      new, getDirectParentConnections(g, current))

findSubgraph(g, destination, trigger) ==
    findSubgraphRecursive(g, destination, destination, trigger, NoGraph, <<>>)

-----------------------------------------------------------------------------
(* Run data: a sequence of tasks for each node, empty if the node has none. *)

\* getIncomingDataFromAnyRun: the first run that has data on the output, or 0.
runWithData(runData, n, output) ==
    LET runs == {k \in DOMAIN runData[n] : output \in runData[n][k].out}
    IN  IF runs = {} THEN 0 ELSE Min(runs)

\* Mutant: no node is dirty.
isDirty_Never(n, runData, pinned) == FALSE

isDirty(n, runData, pinned) == n \notin pinned /\ runData[n] = <<>>

\* Mutant: the run data of the nodes behind a node stays.
cleanRunData_NodesOnly(runData, g, nodesToClean) ==
    [n \in DOMAIN runData |-> IF n \in nodesToClean \/ n \notin g.nodes THEN <<>> ELSE runData[n]]

cleanRunData(runData, g, nodesToClean) ==
    LET gone == UNION {{n} \cup getChildren(g, n) : n \in nodesToClean}
    IN  [n \in DOMAIN runData |-> IF n \in gone \/ n \notin g.nodes THEN <<>> ELSE runData[n]]

\* A loop node (splitInBatches) whose done output has no data in its last run.
loopUnfinished(n, wf, runData) ==
    n \in wf.loops /\ ~(runData[n] # <<>> /\ 0 \in Last(runData[n]).out)

RECURSIVE findStartNodesRecursive(_, _, _, _, _, _, _)
findStartNodesRecursive(g, wf, current, destination, runData, startNodes, seen) ==
    IF \/ isDirty(current, runData, wf.pinned)
       \/ current = destination
       \/ loopUnfinished(current, wf, runData)
      THEN IF Contains(startNodes, current) THEN startNodes ELSE Append(startNodes, current)
    ELSE IF current \in seen THEN startNodes
    ELSE FoldLeft(LAMBDA acc, c :
                     IF runWithData(runData, c.from, c.output) = 0 /\ c.from \notin wf.pinned
                       THEN acc
                       ELSE findStartNodesRecursive(g, wf, c.to, destination, runData, acc,
                                                    seen \cup {current}),
                  startNodes, getDirectChildConnections(g, current))

findStartNodes(g, wf, trigger, destination, runData) ==
    findStartNodesRecursive(g, wf, trigger, destination, runData, <<>>, {})

\* A start node in a cycle gives way to the first node of the cycle.
handleCycles(g, startNodes, trigger) ==
    LET firstNode(n) ==
            depthFirstSearchRecursive(g, trigger, stronglyConnectedComponent(g, n), {})[2]
    IN  FoldLeft(LAMBDA acc, n :
                    LET rest == SelectSeq(acc, LAMBDA m : m # n)
                    IN  IF Contains(rest, firstNode(n)) THEN rest ELSE Append(rest, firstNode(n)),
                 startNodes, startNodes)

-----------------------------------------------------------------------------
(* recreateNodeExecutionStack                                              *)

sortByInputIndexThenByName(conns) ==
    SortSeq(conns, LAMBDA c, d : c.input < d.input \/ (c.input = d.input /\ c.from < d.from))

NewGroup == [complete |-> TRUE, connections |-> <<>>]

\* The loop of getSourceDataGroups: one connection per input, those with data first.
RECURSIVE sourceDataGroups(_, _, _, _)
sourceDataGroups(withData, withoutData, group, input) ==
    LET lowest == Min({c.input : c \in Range(withData) \cup Range(withoutData)})
        next == IF input = -1 THEN lowest ELSE input
        at(conns) == SelectInSeq(conns, LAMBDA c : c.input = next)
    IN  IF withData = <<>> /\ withoutData = <<>> THEN <<group>>
        ELSE IF at(withData) # 0
          THEN sourceDataGroups(RemoveAt(withData, at(withData)), withoutData,
                   [group EXCEPT !.connections = Append(@, withData[at(withData)])], next + 1)
        ELSE IF at(withoutData) # 0
          THEN sourceDataGroups(withData, RemoveAt(withoutData, at(withoutData)),
                   [complete |-> FALSE,
                    connections |-> Append(group.connections, withoutData[at(withoutData)])],
                   next + 1)
        ELSE <<group>> \o sourceDataGroups(withData, withoutData, NewGroup, -1)

getSourceDataGroups(g, n, runData, pinned) ==
    LET conns == getDirectParentConnections(g, n)
        hasData(c) == runData[c.from] # <<>> \/ c.from \in pinned
    IN  sourceDataGroups(
            sortByInputIndexThenByName(SelectSeq(conns, hasData)),
            sortByInputIndexThenByName(SelectSeq(conns, LAMBDA c : ~hasData(c))),
            NewGroup, -1)

\* An item of the stack from a complete group.  A source whose output was empty adds
\* to the source data and not to the data.
completeItem(n, group, runData, pinned) ==
    LET conns == group.connections
        run(c) == runWithData(runData, c.from, c.output)
        pushed == SelectSeq(conns, LAMBDA c : c.from \in pinned \/ run(c) # 0)
    IN  [node |-> n, disabled |-> FALSE,
         main |-> [i \in DOMAIN pushed |->
                     IF pushed[i].from \in pinned THEN PinData(pushed[i].from)
                     ELSE outputData(runData, pushed[i].from, run(pushed[i]), pushed[i].output)],
         source |-> [i \in DOMAIN conns |->
                       Source(conns[i].from,
                              IF conns[i].from \in pinned \/ run(conns[i]) = 0 THEN 1 ELSE run(conns[i]),
                              conns[i].output)]]

\* The entry of waitingExecution from an incomplete group: what has run data, and the
\* index of the entry as the run of its source.
incompleteEntry(group, runData, index) ==
    LET present == {c \in Range(group.connections) :
                       runWithData(runData, c.from, c.output) # 0}
        at(i) == CHOOSE c \in present : c.input = i
        inputs == 0..(Max({c.input : c \in present} \cup {-1}))
        filled(i) == \E c \in present : c.input = i
    IN  [main   |-> [i \in 1..Cardinality(inputs) |->
                       IF filled(i - 1)
                         THEN outputData(runData, at(i - 1).from,
                                  runWithData(runData, at(i - 1).from, at(i - 1).output),
                                  at(i - 1).output)
                         ELSE Hole],
         source |-> [i \in 1..Cardinality(inputs) |->
                       IF filled(i - 1) THEN Source(at(i - 1).from, index + 1, at(i - 1).output)
                                        ELSE NoSource]]

\* The engine's state: the stack, and what waits, as pairs of a node and an entry.
recreateNodeExecutionStack(g, startNodes, runData, pinned) ==
    FoldLeft(
        LAMBDA acc, n :
            IF getDirectParentConnections(g, n) = <<>>
              THEN [acc EXCEPT !.stack = Append(@,
                       [node |-> n, disabled |-> FALSE, main |-> <<StartData>>, source |-> <<>>])]
              ELSE FoldLeft(
                      LAMBDA a, group :
                          IF group.complete
                            THEN [a EXCEPT !.stack =
                                     Append(@, completeItem(n, group, runData, pinned))]
                            ELSE LET index == Len(SelectSeq(a.waiting, LAMBDA p : p[1] = n))
                                     entry == incompleteEntry(group, runData, index)
                                 IN  IF entry.main = <<>> THEN a
                                     ELSE [a EXCEPT !.waiting = Append(@, <<n, entry>>)],
                      acc, getSourceDataGroups(g, n, runData, pinned)),
        [stack |-> <<>>, waiting |-> <<>>], startNodes)

-----------------------------------------------------------------------------
(* runPartialWorkflow2: what the engine starts with when it is to run the  *)
(* part of the workflow before the destination, after the nodes of dirty   *)
(* were changed.                                                           *)

runPartialWorkflow2(wf, runData, destination, dirty) ==
    LET whole == [nodes |-> wf.nodes, conns |-> wf.conns]
        g == findSubgraph(filterDisabledNodes(whole, wf.disabled), destination, 1)
        kept == cleanRunData(runData, g, dirty \cap g.nodes)
        starts == handleCycles(g, findStartNodes(g, wf, 1, destination, kept), 1)
        clean == cleanRunData(kept, g, Range(starts))
        state == recreateNodeExecutionStack(g, starts, clean, wf.pinned)
        waitingOf(n) == SelectSeq(state.waiting, LAMBDA p : p[1] = n)
        keys == SelectSeq(starts, LAMBDA n : waitingOf(n) # <<>>)
    IN  [filter |-> g.nodes, runData |-> clean, stack |-> state.stack, keys |-> keys,
         waiting |-> [n \in Range(keys) |->
                        [i \in 0..(Len(waitingOf(n)) - 1) |-> waitingOf(n)[i + 1][2]]]]

===============================================================================
