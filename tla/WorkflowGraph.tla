---------------------------- MODULE WorkflowGraph ----------------------------
(***************************************************************************)
(* What the engine and partial execution share: a workflow as a graph      *)
(* (Workflow and DirectedGraph), and the names of the data that pass over  *)
(* its connections.                                                        *)
(*                                                                         *)
(* A node is a number, smaller for a node more to the top-left, and node   *)
(* names sort like the numbers.  A graph is a set of nodes and a sequence  *)
(* of main connections, in the insertion order of the Map in DirectedGraph.*)
(* Runs are counted from 1.  The items a node emits on an output are one   *)
(* datum, named by node, serial number of the task and output.             *)
(***************************************************************************)
EXTENDS Integers, Sequences, FiniteSets, SequencesExt

Datum(n, serial, output) == [node |-> n, serial |-> serial, output |-> output]

Null      == Datum(0, 0, 0)   \* no data yet
Hole      == Datum(0, 0, 3)   \* a place of an array nobody assigned: undefined
EmptyData == Datum(0, 0, 1)   \* an empty list of items
StartData == Datum(0, 0, 2)   \* [{ json: {} }]
PinData(n) == Datum(n, 0, 0)

Source(n, run, output) == [node |-> n, run |-> run, output |-> output]
NoSource == Source(0, 0, 0)

outputData(runData, n, run, output) == Datum(n, runData[n][run].serial, output)

-----------------------------------------------------------------------------
(* The graph                                                               *)

getDirectChildConnections(g, n)  == SelectSeq(g.conns, LAMBDA c : c.from = n)
getDirectParentConnections(g, n) == SelectSeq(g.conns, LAMBDA c : c.to = n)

addConnection(g, c) ==
    [nodes |-> g.nodes \cup {c.from, c.to},
     conns |-> IF Contains(g.conns, c) THEN g.conns ELSE Append(g.conns, c)]

\* removeNode with reconnectConnections: every parent is connected to every child.
removeNode(g, n) ==
    LET reconnected(c) ==
            [i \in DOMAIN getDirectChildConnections(g, n) |->
                LET d == getDirectChildConnections(g, n)[i]
                IN  [c EXCEPT !.to = d.to, !.input = d.input]]
        kept == [nodes |-> g.nodes \ {n},
                 conns |-> SelectSeq(g.conns, LAMBDA c : n \notin {c.from, c.to})]
        new == FlattenSeq([i \in DOMAIN getDirectParentConnections(g, n) |->
                              reconnected(getDirectParentConnections(g, n)[i])])
    IN  [FoldLeft(addConnection, kept, new) EXCEPT !.nodes = kept.nodes]

filterDisabledNodes(g, disabled) ==
    FoldLeft(removeNode, g, SetToSortSeq(disabled \cap g.nodes, <))

\* The nodes from which a path of connections leads to n: the least set that has the
\* parents of n and of its own members.
ancestors(g, n) ==
    {m \in g.nodes :
        \A S \in SUBSET g.nodes :
            (\A c \in Range(g.conns) : c.to \in S \cup {n} => c.from \in S) => m \in S}

\* getConnectedNodes starts with the node itself checked: it is never among its parents.
getParentNodes(g, n) == ancestors(g, n) \ {n}

===============================================================================
