---------------------------- MODULE WorkflowEngine ----------------------------
(***************************************************************************)
(* The execution engine (WorkflowExecute) with execution order v1: the     *)
(* node execution stack, nodes that wait for data on several inputs,       *)
(* retries of a node, errors, waiting and resuming, cancellation, and the  *)
(* ways to start it: a full run, the resumption of an execution that       *)
(* waits, the retry of one that failed, and a partial execution.           *)
(*                                                                         *)
(* A workflow is a record; which nodes may fail, wait, emit nothing and so *)
(* on is part of it.  With v1 only outputs that have items are passed on.  *)
(* What a partial execution starts with is a parameter: PartialExecution   *)
(* computes it, and what is proved of the engine does not depend on it.    *)
(***************************************************************************)
EXTENDS WorkflowGraph

CONSTANTS
    Workflows,      \* the workflows that may be run
    maxTries,       \* tries of a node with retryOnFail
    MaxRestarts,    \* how often an execution is resumed, retried or run partially
    MaxIterations,  \* how often a loop node goes round
    partialState(_, _, _, _)    \* of a workflow, run data, destination and changed nodes

ASSUME EngineAssumption ==
    /\ maxTries \in 2..5
    /\ MaxRestarts \in Nat /\ MaxIterations \in Nat
    /\ \A w \in Workflows :
          /\ w.nodes \subseteq Nat \ {0} /\ IsFiniteSet(w.nodes) /\ 1 \in w.nodes
          /\ w.conns \in Seq([from : w.nodes, output : Nat, to : w.nodes, input : Nat])
          /\ w.required \in [w.nodes -> Nat]
          /\ \A c \in Range(w.conns) : c.to # 1     \* a trigger has no inputs

VARIABLES
    wf,                \* the workflow
    stack,             \* nodeExecutionStack
    waitingExecution,  \* waitingExecution[n]: the entries of node n, by index
    waitingNodes,      \* the keys of waitingExecution in order of insertion
    runData,           \* runData[n]: the tasks of node n
    current,           \* the item that is executed
    tries,             \* tries of the node that is executed
    executionError,    \* the last node of the loop threw, and was not tried again
    pc,                \* "loop", "node" or "ended"
    status,            \* status of the WorkflowExecute: "running" or "canceled"
    result,            \* how the run ended
    lastNodeExecuted,
    destination,       \* startData.destinationNode, 0 if there is none
    runNodeFilter,     \* startData.runNodeFilter
    branchEnds,        \* what was executed by nodes that returned null (history)
    outOfTurn,         \* an entry was made at an index not beyond the others, or run before
                       \* one with a smaller index (history)
    serial,            \* names the next task
    restarts           \* resumptions, retries and partial runs so far

execVars  == <<stack, waitingExecution, waitingNodes, outOfTurn>>
startVars == <<wf, destination, runNodeFilter, restarts>>
engineVars == <<execVars, startVars, runData, current, tries, executionError, pc, status,
                result, lastNodeExecuted, serial, branchEnds>>

NoItem == [node |-> 0, disabled |-> FALSE, main |-> <<>>, source |-> <<>>]

Graph == [nodes |-> wf.nodes, conns |-> wf.conns]

connsTo(n) == {c \in Range(wf.conns) : c.to = n}

\* connectionsByDestinationNode[n].main.length.
inputCount(n) == 1 + Max({c.input : c \in connsTo(n)} \cup {0})

outputs(n) == {c.output : c \in {d \in Range(wf.conns) : d.from = n}} \cup {0}

hasItems(d) == d \notin {Null, Hole, EmptyData}

\* WorkflowExecute.run, from the trigger.
EngineInit ==
    /\ wf \in Workflows
    /\ stack = <<[node |-> 1, disabled |-> FALSE, main |-> <<StartData>>, source |-> <<>>]>>
    /\ waitingExecution = << >>
    /\ waitingNodes = <<>>
    /\ runData = [n \in wf.nodes |-> <<>>]
    /\ current = NoItem /\ tries = 0 /\ executionError = FALSE
    /\ pc = "loop" /\ status = "running" /\ result = "none"
    /\ lastNodeExecuted = 0
    /\ destination = 0 /\ runNodeFilter = wf.nodes
    /\ serial = 1 /\ restarts = 0
    /\ branchEnds = {} /\ outOfTurn = FALSE

-----------------------------------------------------------------------------
(* addNodeToBeExecuted, as a function of the stack and of what waits:      *)
(* x = [stack, waiting, keys, outOfTurn].                                  *)

\* Mutant: an entry is free whatever it has.
freeEntries_Any(entries, input) == DOMAIN entries

\* The entries of a node that have no data for the input yet.
freeEntries(entries, input) ==
    {i \in DOMAIN entries :
        input + 1 > Len(entries[i].main) \/ entries[i].main[input + 1] \in {Null, Hole}}

prepareWaitingToExecution(n) ==
    [main |-> [i \in 1..inputCount(n) |-> Null], source |-> [i \in 1..inputCount(n) |-> NoSource]]

\* Assigning beyond the end of an array extends it.
assign(seq, i, v, filler) ==
    [k \in 1..(IF i > Len(seq) THEN i ELSE Len(seq)) |->
        IF k = i THEN v ELSE IF k > Len(seq) THEN filler ELSE seq[k]]

put(f, k, v) == [i \in DOMAIN f \cup {k} |-> IF i = k THEN v ELSE f[i]]

removeKey(f, k) == [i \in DOMAIN f \ {k} |-> f[i]]

\* Mutant: the node stays when its last entry is deleted.
removeWaiting_KeepNode(x, n, index) ==
    [x EXCEPT !.waiting = put(@, n, removeKey(@[n], index))]

\* Deletes an entry, and the node with its last entry.
removeWaiting(x, n, index) ==
    IF DOMAIN x.waiting[n] = {index}
      THEN [x EXCEPT !.waiting = removeKey(@, n), !.keys = RemoveFirst(@, n)]
      ELSE [x EXCEPT !.waiting = put(@, n, removeKey(@[n], index))]

item(n, main, source) ==
    [node |-> n, disabled |-> n \in wf.disabled, main |-> main, source |-> source]

\* previousNode, previousNodeRun and previousNodeOutput of what n emits in this run.
sourceOf(n, output) == Source(n, Len(runData[n]) + 1, output)

\* What the node that is executed emits on c.output arrives at c.input of c.to.
addNodeToBeExecuted(x, c) ==
    LET n == c.to
        datum == Datum(c.from, serial, c.output)
        source == sourceOf(c.from, c.output)
        entries == IF n \in DOMAIN x.waiting THEN x.waiting[n] ELSE << >>
        free == freeEntries(entries, c.input)
        index == IF free # {} THEN Min(free) ELSE Cardinality(DOMAIN entries)
        old == IF free # {} THEN entries[index] ELSE prepareWaitingToExecution(n)
        entry == [main   |-> assign(old.main, c.input + 1, datum, Hole),
                  source |-> assign(old.source, c.input + 1, source, NoSource)]
        y == [stack     |-> x.stack,
              waiting   |-> put(x.waiting, n, put(entries, index, entry)),
              keys      |-> IF Contains(x.keys, n) THEN x.keys ELSE Append(x.keys, n),
              outOfTurn |-> x.outOfTurn \/ (free = {} /\ \E i \in DOMAIN entries : i >= index)]
    IN  IF inputCount(n) = 1
          THEN [x EXCEPT !.stack = <<item(n, <<datum>>, <<source>>)>> \o @]
        ELSE IF Contains(entry.main, Null) THEN y
        ELSE [removeWaiting(y, n, index) EXCEPT
                 !.stack = <<item(n, entry.main, entry.source)>> \o @]

\* nodesToAdd: the connections of the outputs with items.
nodesToAdd(n, out) == {c \in Range(wf.conns) : c.from = n /\ c.output \in out}

\* By position from the bottom right on: the stack then has the top left node first.
sortsBefore(c, d) ==
    \/ c.to > d.to
    \/ c.to = d.to /\ c.output < d.output
    \/ c.to = d.to /\ c.output = d.output /\ c.input < d.input

nextToAdd(todo) == CHOOSE c \in todo : \A d \in todo : c = d \/ sortsBefore(c, d)

\* The state after k of the connections were handled, and those that are left.
added(x, conns) ==
    LET after[k \in 0..Cardinality(conns)] ==
            IF k = 0 THEN [state |-> x, todo |-> conns]
            ELSE LET c == nextToAdd(after[k - 1].todo)
                 IN  [state |-> addNodeToBeExecuted(after[k - 1].state, c),
                      todo  |-> after[k - 1].todo \ {c}]
    IN  after

addNodes(x, conns) == added(x, conns)[Cardinality(conns)].state

-----------------------------------------------------------------------------
(* Nodes that wait when the stack is empty                                 *)

\* Mutant: a node is run although a node before it still waits.
parentIsWaiting_No(x, n) == FALSE

parentIsWaiting(x, n) == getParentNodes(Graph, n) \cap Range(x.keys) # {}

\* An index with zeros behind it, up to six digits: these sort like the texts of the
\* indexes, except that an index comes before itself with a zero more.
asText(i) == Max({i} \cup ({i * 10^d : d \in 1..5} \cap 1..(10^6 - 1)))

\* Object.keys(...).sort() compares the indexes as text: 10 comes before 2.
firstRunIndex(indexes) ==
    LET first == Min({asText(i) : i \in indexes})
    IN  Min({i \in indexes : asText(i) = first})

\* requiredInputs is a number of inputs, 0 if the node type has none.
requiredInputsMissing(x, n) ==
    LET required == wf.required[n]
        main == x.waiting[n][firstRunIndex(DOMAIN x.waiting[n])].main
    IN  /\ required # 0
        /\ \/ required = inputCount(n)
           \/ Cardinality({i \in DOMAIN main : main[i] \notin {Null, Hole}}) < required

mayRun(x, n) == ~requiredInputsMissing(x, n) /\ ~parentIsWaiting(x, n)

\* Mutant: only the first node that waits is looked at.
readyNodes_First(x) == {i \in {1} \cap DOMAIN x.keys : mayRun(x, x.keys[i])}

\* The positions in waitingNodes of the nodes that may run.
readyNodes(x) == {i \in DOMAIN x.keys : mayRun(x, x.keys[i])}

\* The first node that may run goes to the stack; one without any items is dropped.
runFirstReady(x) ==
    LET n == x.keys[Min(readyNodes(x))]
        index == firstRunIndex(DOMAIN x.waiting[n])
        entry == x.waiting[n][index]
        main == [i \in 1..inputCount(n) |->
                    IF i > Len(entry.main) \/ entry.main[i] = Null THEN EmptyData
                                                                   ELSE entry.main[i]]
        y == [removeWaiting(x, n, index) EXCEPT
                 !.outOfTurn = @ \/ index # Min(DOMAIN x.waiting[n])]
    IN  IF \E i \in DOMAIN main : hasItems(main[i])
          THEN [y EXCEPT !.stack = Append(@, item(n, main, entry.source))]
          ELSE y

entriesOf(waiting) == UNION {{<<n, i>> : i \in DOMAIN waiting[n]} : n \in DOMAIN waiting}

\* The loop over the waiting nodes ends with a node on the stack or with none that may
\* run; each round takes an entry away.
rounds(x) ==
    LET after[k \in 0..Cardinality(entriesOf(x.waiting))] ==
            IF k = 0 THEN x
            ELSE IF after[k - 1].stack # <<>> \/ readyNodes(after[k - 1]) = {} THEN after[k - 1]
            ELSE runFirstReady(after[k - 1])
    IN  after

runWaitingNode(x) == rounds(x)[Cardinality(entriesOf(x.waiting))]

-----------------------------------------------------------------------------
(* The loop of processRunExecutionData                                     *)

Running == pc # "ended" /\ status = "running"

\* The next node of the stack is executed.
StartNode ==
    /\ pc = "loop" /\ status = "running" /\ stack # <<>>
    /\ Head(stack).node \in runNodeFilter
    /\ current' = Head(stack) /\ stack' = Tail(stack)
    /\ tries' = 1 /\ pc' = "node" /\ executionError' = FALSE
    /\ UNCHANGED <<startVars, waitingExecution, waitingNodes, outOfTurn, runData, status,
                   result, lastNodeExecuted, serial, branchEnds>>

\* A node that is not on the filter is skipped.
SkipNode ==
    /\ pc = "loop" /\ status = "running" /\ stack # <<>>
    /\ Head(stack).node \notin runNodeFilter
    /\ stack' = Tail(stack) /\ executionError' = FALSE
    /\ UNCHANGED <<startVars, waitingExecution, waitingNodes, outOfTurn, runData, current,
                   tries, pc, status, result, lastNodeExecuted, serial, branchEnds>>

task(state, out) ==
    [main |-> current.main, source |-> current.source, state |-> state, out |-> out,
     serial |-> serial]

pushTask(state, out) ==
    /\ runData' = [runData EXCEPT ![current.node] = Append(@, task(state, out))]
    /\ serial' = serial + 1

passesThrough == current.disabled

execState == [stack |-> stack, waiting |-> waitingExecution, keys |-> waitingNodes,
              outOfTurn |-> outOfTurn]

\* The rest of the round: run data, the nodes to execute next, and when the stack is
\* empty a node that waits.  Nothing follows the destination.
finishNode(state, out) ==
    LET n == current.node
        y == addNodes(execState, nodesToAdd(n, out))
        next == IF n = destination THEN execState
                ELSE IF y.stack = <<>> THEN runWaitingNode(y) ELSE y
    IN  /\ pushTask(state, out)
        /\ stack' = next.stack
        /\ waitingExecution' = next.waiting
        /\ waitingNodes' = next.keys
        /\ outOfTurn' = next.outOfTurn
        /\ lastNodeExecuted' = n
        /\ executionError' = (state = "error")
        /\ current' = NoItem /\ tries' = 0 /\ pc' = "loop"
        /\ UNCHANGED <<startVars, status, result, branchEnds>>

\* What the node may return: the outputs that get items.
outcomes(n) ==
    IF n \in wf.pinned THEN {{0}}
    ELSE IF n \in wf.loops
      THEN IF Len(runData[n]) < MaxIterations THEN {{0}, {1}} ELSE {{0}}
    ELSE IF n \in wf.filters THEN SUBSET outputs(n)
    ELSE {outputs(n)}

\* A disabled node passes the data of its first input through.
firstInput == IF hasItems(current.main[1]) THEN {0} ELSE {}

NodeSucceeds ==
    /\ pc = "node"
    /\ IF passesThrough THEN finishNode("success", firstInput)
       ELSE \E out \in outcomes(current.node) : finishNode("success", out)

\* "If null gets returned it means that the node did succeed but did not have any data."
NodeReturnsNull ==
    /\ pc = "node" /\ ~passesThrough /\ current.node \in wf.nullable
    /\ lastNodeExecuted' = current.node
    /\ branchEnds' = branchEnds \cup {current}
    /\ current' = NoItem /\ tries' = 0 /\ pc' = "loop"
    /\ UNCHANGED <<startVars, execVars, runData, executionError, status, result, serial>>

mayThrow == pc = "node" /\ ~passesThrough /\ current.node \in wf.fails \ wf.pinned

triesLeft == current.node \in wf.retryOnFail /\ tries < maxTries

\* retryOnFail.
RetryNode ==
    /\ mayThrow /\ triesLeft
    /\ tries' = tries + 1
    /\ lastNodeExecuted' = current.node
    /\ UNCHANGED <<startVars, execVars, runData, current, executionError, pc, status, result,
                   serial, branchEnds>>

\* continueOnFail: the data of the first input is passed on.
ContinueOnFail ==
    /\ mayThrow /\ ~triesLeft /\ current.node \in wf.continueOnFail
    /\ finishNode("error", firstInput)

\* "Add the execution data again so that it can get restarted."
putBack == stack' = <<current>> \o stack

endsWith(state, how) ==
    /\ pushTask(state, {})
    /\ putBack
    /\ lastNodeExecuted' = current.node
    /\ current' = NoItem /\ tries' = 0 /\ executionError' = (how = "error")
    /\ pc' = "ended" /\ result' = IF status = "canceled" THEN "canceled" ELSE how
    /\ UNCHANGED <<startVars, waitingExecution, waitingNodes, outOfTurn, status, branchEnds>>

NodeFails ==
    /\ mayThrow /\ ~triesLeft /\ current.node \notin wf.continueOnFail
    /\ endsWith("failed", "error")

\* The node called putExecutionToWait: the run ends, with the node on the stack.
NodeWaits ==
    /\ pc = "node" /\ ~passesThrough /\ current.node \in wf.waiters
    /\ endsWith("waiting", "waiting")

\* The loop ends; processSuccessExecution.  A node that continues on fail leaves its error
\* behind when it was the last one.
End ==
    /\ pc = "loop" /\ (stack = <<>> \/ status = "canceled")
    /\ pc' = "ended"
    /\ result' = IF status = "canceled" THEN "canceled"
                 ELSE IF executionError THEN "error" ELSE "success"
    /\ UNCHANGED <<startVars, execVars, runData, current, tries, executionError, status,
                   lastNodeExecuted, serial, branchEnds>>

\* onCancel, or the timeout of the workflow.
Cancel ==
    /\ Running /\ wf.cancels
    /\ status' = "canceled"
    /\ UNCHANGED <<startVars, execVars, runData, current, tries, executionError, pc, result,
                   lastNodeExecuted, serial, branchEnds>>

-----------------------------------------------------------------------------
(* Starting again from the data that was saved                             *)

restart ==
    /\ pc = "ended" /\ restarts < MaxRestarts /\ restarts' = restarts + 1
    /\ pc' = "loop" /\ status' = "running" /\ result' = "none"
    /\ executionError' = FALSE
    /\ UNCHANGED <<wf, current, tries, serial, branchEnds>>

dropWaitingTask == runData' = [runData EXCEPT ![lastNodeExecuted] = Front(@)]

\* processRunExecutionData with waitTill set: the node that waited is disabled.
Resume ==
    /\ result = "waiting" /\ restart
    /\ stack' = [stack EXCEPT ![1].disabled = TRUE]
    /\ dropWaitingTask
    /\ UNCHANGED <<waitingExecution, waitingNodes, outOfTurn, destination, runNodeFilter,
                   lastNodeExecuted>>

\* ExecutionService.retry: the task that failed is removed.
Retry ==
    /\ result = "error" /\ restart
    /\ runData' = [runData EXCEPT ![lastNodeExecuted] =
                      IF @ # <<>> /\ Last(@).state \in {"failed", "error"} THEN Front(@) ELSE @]
    /\ UNCHANGED <<execVars, destination, runNodeFilter, lastNodeExecuted>>

\* runPartialWorkflow2, after an execution: the editor sends the run data it has, the
\* nodes that were changed since, and a destination.
PartialRun(dest, dirty) ==
    LET new == partialState(wf, runData, dest, dirty)
    IN  /\ result \in {"success", "canceled"} /\ restart
        /\ wf.partial
        /\ dest \in wf.nodes \ wf.disabled /\ 1 \in ancestors(Graph, dest)
        /\ destination' = dest /\ runNodeFilter' = new.filter
        /\ runData' = new.runData
        /\ stack' = new.stack
        /\ waitingNodes' = new.keys /\ waitingExecution' = new.waiting
        /\ lastNodeExecuted' = 0
        /\ UNCHANGED outOfTurn

-----------------------------------------------------------------------------
EngineStep ==
    \/ StartNode \/ SkipNode \/ NodeSucceeds \/ NodeReturnsNull \/ RetryNode
    \/ ContinueOnFail \/ NodeFails \/ NodeWaits \/ End

EngineNext ==
    \/ EngineStep \/ Cancel \/ Resume \/ Retry
    \/ \E dest \in wf.nodes, dirty \in SUBSET wf.changed : PartialRun(dest, dirty)

EngineSpec == EngineInit /\ [][EngineNext]_engineVars

-----------------------------------------------------------------------------
(* Properties                                                              *)

Entries == entriesOf(waitingExecution)

Tasks == UNION {{<<n, k>> : k \in DOMAIN runData[n]} : n \in wf.nodes}

taskAt(t) == runData[t[1]][t[2]]

\* Types: run data of nodes of the workflow, entries of nodes with several inputs only,
\* and an item under execution exactly between two rounds of the loop.
EngineTypeOK ==
    /\ wf \in Workflows
    /\ DOMAIN runData = wf.nodes /\ runNodeFilter \subseteq wf.nodes
    /\ pc \in {"loop", "node", "ended"} /\ status \in {"running", "canceled"}
    /\ result \in {"none", "success", "error", "waiting", "canceled"}
    /\ pc = "ended" <=> result # "none"
    /\ pc = "node" <=> current # NoItem
    /\ Range(waitingNodes) = DOMAIN waitingExecution
    /\ \A n \in DOMAIN waitingExecution : inputCount(n) > 1 /\ DOMAIN waitingExecution[n] # {}
    /\ \A i \in DOMAIN stack : stack[i].node \in wf.nodes /\ stack[i].main # <<>>
    /\ destination \in wf.nodes \cup {0} /\ lastNodeExecuted \in wf.nodes \cup {0}

connections == Range(wf.conns) \cup Range(filterDisabledNodes(Graph, wf.disabled).conns)

\* The datum on each input came over a connection to that input from the run that the
\* source names.
sourcesMatch(n, main, source) ==
    \A i \in DOMAIN main :
        hasItems(main[i]) /\ main[i] # StartData =>
            /\ i \in DOMAIN source
            /\ LET s == source[i]
               IN  /\ \E c \in connections :
                         c.from = s.node /\ c.output = s.output /\ c.to = n /\ c.input = i - 1
                   /\ \/ s.node \in wf.pinned /\ main[i] = PinData(s.node)
                      \/ /\ s.run \in DOMAIN runData[s.node]
                         /\ main[i] = outputData(runData, s.node, s.run, s.output)

\* Paired items are resolved through previousNode, previousNodeRun and
\* previousNodeOutput: wherever data waits, is about to run or has run, its source leads
\* to the task that emitted it, through merges, loops, retries, resumptions and partial
\* runs.  So a partial run leaves no task that consumed what was run again or dropped,
\* unless the workflow has a loop or a disabled node: cleanRunData may then drop the
\* sources of tasks that stay.
SourceMatchesData ==
    /\ \A i \in DOMAIN stack : sourcesMatch(stack[i].node, stack[i].main, stack[i].source)
    /\ sourcesMatch(current.node, current.main, current.source)
    /\ \A p \in Entries :
          LET entry == waitingExecution[p[1]][p[2]]
          IN  sourcesMatch(p[1], entry.main, entry.source)
    /\ destination = 0 \/ (wf.loops = {} /\ wf.disabled = {}) =>
          \A t \in Tasks : sourcesMatch(t[1], taskAt(t).main, taskAt(t).source)

\* In how many places the datum is on that input of the node: on the stack, waiting,
\* executed, or consumed by a task whose item did not go back to the stack.
carries(main, input, datum) == input + 1 \in DOMAIN main /\ main[input + 1] = datum

places(n, input, datum) ==
    Cardinality({i \in DOMAIN stack : stack[i].node = n /\ carries(stack[i].main, input, datum)})
    + Cardinality({p \in Entries :
          p[1] = n /\ carries(waitingExecution[n][p[2]].main, input, datum)})
    + Cardinality({t \in Tasks :
          /\ t[1] = n /\ taskAt(t).state \in {"success", "error"}
          /\ carries(taskAt(t).main, input, datum)})
    + Cardinality({x \in branchEnds \cup {current} :
          x.node = n /\ carries(x.main, input, datum)})

\* Nothing a node emits is lost or used twice (addNodeToBeExecuted, the loop, the items
\* put back for a retry or a resumption): over every connection each output with items
\* is in exactly one place, from the stack to the run that consumed it.
NothingLost ==
    destination = 0 =>
        \A t \in Tasks, c \in Range(wf.conns) :
            c.from = t[1] /\ c.output \in taskAt(t).out =>
                places(c.to, c.input, Datum(t[1], taskAt(t).serial, c.output)) = 1

\* A run ends with a node still waiting only if the node lacks inputs that it requires,
\* or a node before it does.
NothingReadyAtEnd ==
    result = "success" /\ destination = 0 =>
        \A n \in DOMAIN waitingExecution : ~mayRun(execState, n)

\* A node that waits is run with an input empty only when nothing can come on that
\* input any more ("Execute node later as one of its dependencies is still outstanding").
MergeNotEarly ==
    destination = 0 =>
        \A t \in Tasks, u \in Tasks :
            t[1] = u[1] /\ t[2] < u[2] =>
                \A i \in DOMAIN taskAt(t).main :
                    taskAt(t).main[i] = EmptyData => ~hasItems(taskAt(u).main[i])

\* A partial execution that succeeds has run its destination if data came to it over any
\* of its connections ("to be able to execute the destination node accurately").  Over a
\* disabled node that holds only of data from before: the filter is made of the graph
\* without disabled nodes, the workflow is run with them, so one that a node of this run
\* leads to is skipped, and what is behind it with it.
DestinationIsRun ==
    result = "success" /\ destination # 0 /\ runData[destination] = <<>> =>
        \A c \in connections :
            /\ c.to = destination /\ c.from \in runNodeFilter
            /\ c \in Range(wf.conns) \/ lastNodeExecuted = 0
            => ~\E k \in DOMAIN runData[c.from] : c.output \in runData[c.from][k].out

\* "avoids the problem that it executes leaves that are parallel to a selected
\* destinationNode" (the skip by runNodeFilter): what is skipped does not lead to it.
OnlyParallelSkipped ==
    pc = "loop" /\ stack # <<>> /\ Head(stack).node \notin runNodeFilter =>
        Head(stack).node \notin ancestors(Graph, destination)

===============================================================================
