--------------------------- MODULE MCWorkflowEngine ---------------------------
(***************************************************************************)
(* Workflows to run the engine on, with the partial executions that        *)
(* PartialExecution computes.                                              *)
(***************************************************************************)
EXTENDS WorkflowEngine, PartialExecution

C(from, output, to, input) == [from |-> from, output |-> output, to |-> to, input |-> input]

\* Nodes 1..n that always emit, never fail, wait or return null, and are never changed.
Plain(n, conns) ==
    [nodes |-> 1..n, conns |-> conns, filters |-> {}, loops |-> {}, nullable |-> {},
     fails |-> {}, retryOnFail |-> {}, continueOnFail |-> {}, waiters |-> {},
     disabled |-> {}, pinned |-> {}, required |-> [m \in 1..n |-> 0],
     cancels |-> FALSE, partial |-> FALSE, changed |-> {}]

\* Two branches that meet in node 4, which goes on to node 5.
Diamond == <<C(1, 0, 2, 0), C(1, 0, 3, 0), C(2, 0, 4, 0), C(3, 0, 4, 1), C(4, 0, 5, 0)>>

DiamondFaulty ==
    [Plain(5, Diamond) EXCEPT !.filters = {2, 3}, !.fails = {3, 4}, !.retryOnFail = {3},
                              !.waiters = {2}, !.cancels = TRUE]

\* A merge that requires both inputs, and one behind it.
Nested == <<C(1, 0, 2, 0), C(1, 0, 3, 0), C(2, 0, 4, 0), C(3, 0, 4, 1), C(4, 0, 5, 0),
            C(3, 0, 5, 1)>>

NestedMerge == [Plain(5, Nested) EXCEPT !.filters = {2, 3, 4}, !.waiters = {3}]

NestedRequired == [Plain(5, Nested) EXCEPT !.filters = {2, 3}, !.required[4] = 2]

\* A node with two outputs, one input of the merge fed by both.
Branches == <<C(1, 0, 2, 0), C(2, 0, 3, 0), C(2, 1, 4, 0), C(3, 0, 5, 0), C(4, 0, 5, 1),
              C(2, 1, 5, 0)>>

BranchesMerge == [Plain(5, Branches) EXCEPT !.filters = {2, 3}, !.fails = {4},
                                            !.continueOnFail = {4}, !.required[5] = 1]

\* Two deliveries on each input of node 6.
Deliveries == <<C(1, 0, 2, 0), C(1, 0, 3, 0), C(1, 0, 4, 0), C(1, 0, 5, 0),
                C(2, 0, 6, 0), C(3, 0, 6, 0), C(4, 0, 6, 1), C(5, 0, 6, 1)>>

TwoEach == [Plain(6, Deliveries) EXCEPT !.filters = {2, 3, 4, 5}]

\* Node 5 delivers a third time on the first input, after one merge has run.
ThreeDeliveries == <<C(1, 0, 2, 0), C(1, 0, 3, 0), C(1, 0, 4, 0), C(1, 0, 5, 0),
                     C(2, 0, 6, 0), C(3, 0, 6, 0), C(4, 0, 6, 1), C(5, 0, 6, 0)>>

ThreeOnOne == Plain(6, ThreeDeliveries)

\* A branch that ends, and one with a disabled node.
BranchEnd == [Plain(5, <<C(1, 0, 2, 0), C(1, 0, 3, 0), C(2, 0, 4, 0), C(3, 0, 5, 0)>>)
                EXCEPT !.nullable = {2}, !.disabled = {3}, !.fails = {5}]

\* A loop node: done is output 0, loop is output 1.
Loop == [Plain(4, <<C(1, 0, 2, 0), C(2, 0, 4, 0), C(2, 1, 3, 0), C(3, 0, 2, 0)>>)
           EXCEPT !.loops = {2}, !.cancels = TRUE, !.partial = TRUE, !.changed = {3, 4}]

\* Partial runs of the diamond; a branch may have been changed.
DiamondPartial == [Plain(5, Diamond) EXCEPT !.partial = TRUE, !.changed = {1, 2, 3, 4},
                                            !.cancels = TRUE]

\* Partial runs of a chain with a pinned node and, behind a changed one, a disabled one.
ChainPartial == [Plain(5, <<C(1, 0, 2, 0), C(2, 0, 3, 0), C(3, 0, 4, 0), C(4, 0, 5, 0)>>)
                   EXCEPT !.disabled = {2}, !.pinned = {4}, !.partial = TRUE, !.changed = {1, 3, 5}]

AllWorkflows ==
    {DiamondFaulty, NestedMerge, NestedRequired, BranchesMerge, TwoEach, BranchEnd, Loop,
     DiamondPartial, ChainPartial}

Overfull == {ThreeOnOne}

DisabledBetween == {ChainPartial}

===============================================================================
