-------------------------- MODULE WorkflowExecute --------------------------
(***************************************************************************)
(* The workflow engine (packages/core, WorkflowExecute) in the execution   *)
(* order 'v1': a stack of nodes to execute, each with the data of its      *)
(* inputs; nodes with several inputs collect their data in                 *)
(* waitingExecution until it is complete, or until nothing else is left to *)
(* execute.  One execution of one workflow without cycles is followed      *)
(* through failures, waits, cancellation, timeout, resumption and retry.   *)
(*                                                                         *)
(* Data is a packet: what one run of a node sent over one connection.      *)
(* The inputs of a node are a function from those of its inputs that have  *)
(* data to packets; an input outside the domain is null while the node     *)
(* waits, and an empty array once it is on the stack.                      *)
(***************************************************************************)
EXTENDS Naturals, Sequences, FiniteSets, SequencesExt

CONSTANTS
    Nodes,
    None,        \* no destination node, no node executed yet
    Workflows,   \* the workflows an execution may be of
    MaxRestarts  \* bound: resumptions and retries of the execution

Connection == [from : Nodes, output : Nat, to : Nodes, input : Nat]

\* The nodes from which one connection, and from which any number of them, leads
\* to the node n.
Before(w, n) == {c.from : c \in {x \in w.connections : x.to = n}}
AllBefore(w, n) ==
    LET within[i \in 0..Cardinality(Nodes)] ==
            IF i = 0 THEN Before(w, n)
            ELSE UNION {{m} \union Before(w, m) : m \in within[i - 1]}
    IN  within[Cardinality(Nodes)]

\* A workflow: its connections, the positions of its nodes on the canvas, from
\* the top left (no two nodes share one), the destination of a manual run and
\* its mode, the inputs a node requires (a set of them, and how many), and what
\* its nodes may do besides succeeding.
ASSUME WorkflowsAssumption ==
    /\ None \notin Nodes
    /\ IsFiniteSet(Nodes)
    /\ \A w \in Workflows :
          /\ w.connections \subseteq Connection /\ IsFiniteSet(w.connections)
          /\ \A n \in Nodes : n \notin AllBefore(w, n)
          /\ w.start \in Nodes
          /\ w.position \in [Nodes -> Nat] /\ IsInjective(w.position)
          /\ w.destination \in Nodes \union {None}
          /\ w.inclusive \in BOOLEAN
          /\ w.requires \in [Nodes -> SUBSET Nat]
          /\ w.requiresCount \in [Nodes -> Nat]
          /\ \A S \in {w.disabled, w.mayFail, w.continues, w.mayWait, w.mayReturnNull} :
                S \subseteq Nodes
ASSUME MaxRestartsAssumption == MaxRestarts \in Nat

VARIABLES
    wf,               \* the workflow
    stack,            \* nodeExecutionStack
    waitingExecution, \* for each node, its waiting entries by index
    waitingNodes,     \* the keys of waitingExecution, in the order of their insertion
    runData,          \* for each node, its runs
    current,          \* the stack entry whose node runs, or ran last
    targets,          \* the connections whose nodes are still to be added
    phase,            \* where processRunExecutionData has come to
    status, aborted, waitTill, executionError, lastNodeExecuted,
    early,            \* the last iteration of the loop ended by "continue"
    afterHooks,       \* the statuses with which workflowExecuteAfter was called
    restarts,
    runs,             \* history: the number of runs recorded so far
    dropped,          \* history: packets of entries that left no run
    lost              \* history: packets of waiting entries that were replaced and of
                      \* runs that a retry removed though their data had gone on

engineVars == <<phase, status, aborted, waitTill, executionError, early, afterHooks, restarts>>
dataVars == <<stack, waitingExecution, waitingNodes, runData, current, targets,
              lastNodeExecuted, runs, dropped, lost>>
vars == <<wf, engineVars, dataVars>>

Statuses == {"running", "success", "error", "canceled", "waiting"}
Phases == {"loop", "running", "adding", "after", "destination", "settling", "saving", "ended"}

-----------------------------------------------------------------------------
(* The workflow. *)

ConnectionsFrom(n) == {c \in wf.connections : c.from = n}
ConnectionsTo(n) == {c \in wf.connections : c.to = n}
Outputs(n) == {c.output : c \in ConnectionsFrom(n)}

\* The length of connectionsByDestinationNode[n].main: the highest input that is
\* connected counts, inputs without a connection below it too.
NumberOfInputs(n) ==
    IF ConnectionsTo(n) = {} THEN 0 ELSE 1 + Max({c.input : c \in ConnectionsTo(n)})

getParentNodes(n) == AllBefore(wf, n) \ {n}

runNodeFilter ==
    IF wf.destination = None THEN Nodes
    ELSE getParentNodes(wf.destination) \union (IF wf.inclusive THEN {wf.destination} ELSE {})

-----------------------------------------------------------------------------
(* Stack entries, packets and runs. *)

NoInputs == << >>
NoEntries == << >>
PacketsOf(inputs) == {inputs[i] : i \in DOMAIN inputs}
Entry(n, inputs) == [node |-> n, inputs |-> inputs, disabled |-> n \in wf.disabled]

\* The trigger data of the start node counts as its first input.
HasFirstInput(entry) == entry.node = wf.start \/ 0 \in DOMAIN entry.inputs

\* Runs are numbered, as the index of a removed run is given again.
Run(entry, outs, s) ==
    [inputs |-> entry.inputs, outs |-> outs, status |-> s, number |-> runs + 1]
AddRun(entry, outs, s) ==
    /\ runs' = runs + 1
    /\ runData' = [runData EXCEPT ![entry.node] = Append(@, Run(entry, outs, s))]

Init ==
    /\ wf \in Workflows
    /\ stack = << Entry(wf.start, NoInputs) >>
    /\ waitingExecution = [n \in Nodes |-> NoEntries]
    /\ waitingNodes = << >>
    /\ runData = [n \in Nodes |-> << >>]
    /\ current = Entry(wf.start, NoInputs)
    /\ targets = {}
    /\ phase = "loop"
    /\ status = "running"
    /\ aborted = FALSE
    /\ waitTill = FALSE
    /\ executionError = "none"
    /\ lastNodeExecuted = None
    /\ early = FALSE
    /\ afterHooks = << >>
    /\ restarts = 0
    /\ runs = 0
    /\ dropped = {}
    /\ lost = {}

-----------------------------------------------------------------------------
(* The execution loop. *)

LoopEnds_NoneWaiting ==
    /\ phase = "loop"
    /\ (stack = << >> /\ waitingNodes = << >>) \/ status = "canceled"
    /\ phase' = "settling"
    /\ UNCHANGED <<wf, status, aborted, waitTill, executionError, early, afterHooks, restarts,
                   dataVars>>

\* The loop ends: nothing is left on the stack, or the execution was canceled.
LoopEnds ==
    /\ phase = "loop"
    /\ stack = << >> \/ status = "canceled"
    /\ phase' = "settling"
    /\ UNCHANGED <<wf, status, aborted, waitTill, executionError, early, afterHooks, restarts,
                   dataVars>>

\* executionTimeoutTimestamp has passed when the next iteration begins.
Timeout ==
    /\ phase = "loop"
    /\ stack # << >>
    /\ status = "running"
    /\ status' = "canceled"
    /\ phase' = "settling"
    /\ UNCHANGED <<wf, aborted, waitTill, executionError, early, afterHooks, restarts, dataVars>>

\* The next entry is taken from the stack.  In the order v1 ensureInputData
\* always lets it run.
TakeEntry(allowed, next) ==
    /\ phase = "loop"
    /\ stack # << >>
    /\ status = "running"
    /\ (Head(stack).node \in runNodeFilter) = allowed
    /\ stack' = Tail(stack)
    /\ phase' = next

\* A node that does not lead to the destination is skipped.
SkipNode ==
    /\ TakeEntry(FALSE, "loop")
    /\ early' = TRUE
    /\ executionError' = "none"
    /\ dropped' = dropped \union PacketsOf(Head(stack).inputs)
    /\ UNCHANGED <<wf, waitingExecution, waitingNodes, runData, current, targets, status, aborted,
                   waitTill, lastNodeExecuted, afterHooks, restarts, runs, lost>>

StartNode ==
    /\ TakeEntry(TRUE, "running")
    /\ current' = Head(stack)
    /\ executionError' = "none"
    /\ UNCHANGED <<wf, waitingExecution, waitingNodes, runData, targets, status, aborted,
                   waitTill, lastNodeExecuted, early, afterHooks, restarts, runs, dropped, lost>>

\* The run is recorded and its data goes to the connected nodes, unless this is
\* the destination of a manual run.
Record(outs, s, e) ==
    /\ phase = "running"
    /\ executionError' = e
    /\ AddRun(current, outs, s)
    /\ lastNodeExecuted' = current.node
    /\ IF current.node = wf.destination
       THEN phase' = "destination" /\ targets' = {}
       ELSE phase' = "adding" /\ targets' = {c \in ConnectionsFrom(current.node) : c.output \in outs}
    /\ UNCHANGED <<wf, stack, waitingExecution, waitingNodes, current, status, aborted, waitTill,
                   early, afterHooks, restarts, dropped, lost>>

\* A disabled node, and one that failed but continues, passes on its first input.
PassThrough(entry) == IF HasFirstInput(entry) THEN {0} \intersect Outputs(entry.node) ELSE {}

Succeed(outs) ==
    /\ current.disabled => outs = PassThrough(current)
    /\ Record(outs, "success", "none")

\* The error stays in the run, and in executionError until the next iteration.
ContinueOnFail ==
    /\ ~current.disabled
    /\ current.node \in wf.continues
    /\ Record(PassThrough(current), "continued", "error")

\* A node returned null: its branch ends, and no run is recorded.
ReturnNull ==
    /\ phase = "running"
    /\ ~current.disabled
    /\ current.node \in wf.mayReturnNull
    /\ phase' = "loop"
    /\ early' = TRUE
    /\ dropped' = dropped \union PacketsOf(current.inputs)
    /\ UNCHANGED <<wf, stack, waitingExecution, waitingNodes, runData, current, targets, status,
                   aborted, waitTill, executionError, lastNodeExecuted, afterHooks, restarts,
                   runs, lost>>

\* The run is recorded, the entry goes back to the top of the stack and the loop
\* is left.
PutBack(s) ==
    /\ phase = "running"
    /\ ~current.disabled
    /\ AddRun(current, {}, s)
    /\ lastNodeExecuted' = current.node
    /\ stack' = <<current>> \o stack
    /\ phase' = "settling"
    /\ UNCHANGED <<wf, waitingExecution, waitingNodes, current, targets, status, aborted, early,
                   afterHooks, restarts, dropped, lost>>

\* All tries failed.  An error whose message says "canceled", as that of an
\* aborted request, counts as a cancellation in the end.
FailNode(e) ==
    /\ current.node \in wf.mayFail \ wf.continues
    /\ PutBack("error")
    /\ executionError' = e
    /\ UNCHANGED waitTill

\* The node called putExecutionToWait.
PutToWait ==
    /\ current.node \in wf.mayWait
    /\ PutBack("waiting")
    /\ waitTill' = TRUE
    /\ UNCHANGED executionError

-----------------------------------------------------------------------------
(* addNodeToBeExecuted. *)

Push(entry) == stack' = <<entry>> \o stack

\* The sequence without n, which is in it once.
Removed(s, n) == RemoveAt(s, CHOOSE i \in DOMAIN s : s[i] = n)

\* The entries of node n in waitingExecution become entries.
SetWaiting(n, entries) ==
    /\ waitingExecution' = [waitingExecution EXCEPT ![n] = entries]
    /\ waitingNodes' = IF DOMAIN entries = {} THEN Removed(waitingNodes, n)
                       ELSE IF n \in Range(waitingNodes) THEN waitingNodes
                       ELSE Append(waitingNodes, n)

Without_Kept(f, k) == f

With(f, k, v) == [j \in DOMAIN f \union {k} |-> IF j = k THEN v ELSE f[j]]
Without(f, k) == [j \in DOMAIN f \ {k} |-> f[j]]

\* The waiting entries of n that have no data for the input yet.
MissingInput(n, input) == {k \in DOMAIN waitingExecution[n] : input \notin DOMAIN waitingExecution[n][k]}

\* The first of them takes the data; if there is none, the entry whose index is
\* the number of waiting entries is created, whether it is free or not.
waitingNodeIndex(n, input) ==
    IF MissingInput(n, input) # {} THEN Min(MissingInput(n, input))
    ELSE Cardinality(DOMAIN waitingExecution[n])

\* Of the nodes still to be added, the one at the bottom right is put on the
\* stack first; two connections to one node are taken in the order of the outputs.
IsNextTarget(c) ==
    /\ c \in targets
    /\ \A d \in targets :
          \/ wf.position[d.to] < wf.position[c.to]
          \/ d.to = c.to /\ c.output <= d.output

AddToWaiting(c, packet) ==
    LET old == waitingExecution[c.to]
        index == waitingNodeIndex(c.to, c.input)
        created == MissingInput(c.to, c.input) = {}
        inputs == With(IF created THEN NoInputs ELSE old[index], c.input, packet)
    IN  /\ IF Cardinality(DOMAIN inputs) = NumberOfInputs(c.to)
           THEN /\ Push(Entry(c.to, inputs))
                /\ SetWaiting(c.to, Without(old, index))
           ELSE /\ SetWaiting(c.to, With(old, index, inputs))
                /\ UNCHANGED stack
        /\ lost' = IF created /\ index \in DOMAIN old
                   THEN lost \union PacketsOf(old[index])
                   ELSE lost

AddNode(c) ==
    /\ phase = "adding"
    /\ IsNextTarget(c)
    /\ LET packet == [connection |-> c, run |-> runs]
       IN  IF NumberOfInputs(c.to) > 1
           THEN AddToWaiting(c, packet)
           ELSE /\ Push(Entry(c.to, With(NoInputs, c.input, packet)))
                /\ UNCHANGED <<waitingExecution, waitingNodes, lost>>
    /\ targets' = targets \ {c}
    /\ UNCHANGED <<wf, engineVars, runData, current, lastNodeExecuted, runs, dropped>>

AllAdded ==
    /\ phase = "adding"
    /\ targets = {}
    /\ phase' = "after"
    /\ UNCHANGED <<wf, status, aborted, waitTill, executionError, early, afterHooks, restarts,
                   dataVars>>

-----------------------------------------------------------------------------
(* The end of an iteration. *)

RequirementMet(n, inputs) ==
    /\ wf.requires[n] \subseteq DOMAIN inputs
    /\ wf.requiresCount[n] <= Cardinality(DOMAIN inputs)

firstRunIndex(n) == Min(DOMAIN waitingExecution[n])

MayRunIncomplete_OffByOne(n) ==
    LET inputs == waitingExecution[n][firstRunIndex(n)]
    IN  /\ wf.requires[n] \subseteq DOMAIN inputs
        /\ wf.requiresCount[n] < Cardinality(DOMAIN inputs)
        /\ getParentNodes(n) \intersect Range(waitingNodes) = {}

MayRunIncomplete_ParentsIgnored(n) == RequirementMet(n, waitingExecution[n][firstRunIndex(n)])

\* A waiting node that may run without the inputs it has no data for.
MayRunIncomplete(n) ==
    /\ RequirementMet(n, waitingExecution[n][firstRunIndex(n)])
    /\ getParentNodes(n) \intersect Range(waitingNodes) = {}

\* The hook nodeExecuteAfter has run.  With nothing on the stack, the first
\* waiting node that may run is put there.
NodeDone ==
    /\ phase = "after"
    /\ phase' = "loop"
    /\ early' = FALSE
    /\ LET ready == {i \in DOMAIN waitingNodes : MayRunIncomplete(waitingNodes[i])}
       IN  IF stack = << >> /\ ready # {}
           THEN LET n == waitingNodes[Min(ready)]
                    index == firstRunIndex(n)
                IN  /\ Push(Entry(n, waitingExecution[n][index]))
                    /\ SetWaiting(n, Without(waitingExecution[n], index))
           ELSE UNCHANGED <<stack, waitingExecution, waitingNodes>>
    /\ UNCHANGED <<wf, status, aborted, waitTill, executionError, afterHooks, restarts, runData,
                   current, targets, lastNodeExecuted, runs, dropped, lost>>

\* The hook nodeExecuteAfter of the destination node has run.
DestinationDone ==
    /\ phase = "destination"
    /\ phase' = "loop"
    /\ early' = TRUE
    /\ UNCHANGED <<wf, status, aborted, waitTill, executionError, afterHooks, restarts, dataVars>>

-----------------------------------------------------------------------------
(* The end of the execution. *)

FinalStatus ==
    IF executionError # "none" THEN executionError
    ELSE IF status = "canceled" THEN "canceled"
    ELSE IF waitTill THEN "waiting"
    ELSE "success"

Settle_AlwaysReports ==
    /\ phase = "settling"
    /\ status' = FinalStatus
    /\ phase' = "saving"
    /\ afterHooks' = Append(afterHooks, FinalStatus)
    /\ UNCHANGED <<wf, aborted, waitTill, executionError, early, restarts, dataVars>>

\* processSuccessExecution, up to the hook workflowExecuteAfter, which is not
\* run again for an execution that was aborted.
Settle ==
    /\ phase = "settling"
    /\ status' = FinalStatus
    /\ IF aborted
       THEN phase' = "ended" /\ UNCHANGED afterHooks
       ELSE phase' = "saving" /\ afterHooks' = Append(afterHooks, FinalStatus)
    /\ UNCHANGED <<wf, aborted, waitTill, executionError, early, restarts, dataVars>>

\* The hook has run, and the promise is resolved.
Saved ==
    /\ phase = "saving"
    /\ phase' = "ended"
    /\ UNCHANGED <<wf, status, aborted, waitTill, executionError, early, afterHooks, restarts,
                   dataVars>>

\* cancel() of the promise, at any of the engine's awaits.
Cancel ==
    /\ phase \in {"loop", "running", "after", "destination", "settling", "saving"}
    /\ ~aborted
    /\ status' = "canceled"
    /\ aborted' = TRUE
    /\ afterHooks' = Append(afterHooks, "canceled")
    /\ UNCHANGED <<wf, phase, waitTill, executionError, early, restarts, dataVars>>

\* The engine is started again on the data that was saved.
Restart ==
    /\ phase = "ended"
    /\ restarts < MaxRestarts
    /\ restarts' = restarts + 1
    /\ phase' = "loop"
    /\ status' = "running"
    /\ executionError' = "none"
    /\ afterHooks' = << >>
    /\ aborted' = FALSE
    /\ runData' = [runData EXCEPT ![lastNodeExecuted] = Front(@)]
    /\ UNCHANGED <<wf, early, waitingExecution, waitingNodes, current, targets,
                   lastNodeExecuted, runs, dropped>>

\* A waiting execution is resumed: the node that put it to wait is disabled, and
\* its run is removed.
Resume ==
    /\ status = "waiting"
    /\ Restart
    /\ waitTill' = FALSE
    /\ stack' = [stack EXCEPT ![1].disabled = TRUE]
    /\ UNCHANGED lost

\* A failed execution is retried: the run with the error is removed.  It is the
\* one of the node on the stack, or of a node that went on after its error.
Retry ==
    /\ status = "error"
    /\ ~aborted
    /\ Restart
    /\ lost' = IF Last(runData[lastNodeExecuted]).status = "continued"
               THEN lost \union PacketsOf(Last(runData[lastNodeExecuted]).inputs)
               ELSE lost
    /\ UNCHANGED <<stack, waitTill>>

EngineStep ==
    \/ LoopEnds
    \/ SkipNode
    \/ StartNode
    \/ \E outs \in SUBSET Outputs(current.node) : Succeed(outs)
    \/ ContinueOnFail
    \/ ReturnNull
    \/ \E e \in {"error", "canceled"} : FailNode(e)
    \/ PutToWait
    \/ \E c \in wf.connections : AddNode(c)
    \/ AllAdded
    \/ NodeDone
    \/ DestinationDone
    \/ Settle
    \/ Saved

Next ==
    \/ EngineStep
    \/ Timeout
    \/ Cancel
    \/ Resume
    \/ Retry

Spec == Init /\ [][Next]_vars

\* The engine goes on by itself, and every node ends its run.
FairSpec == Spec /\ WF_vars(EngineStep)

-----------------------------------------------------------------------------
(* Properties. *)

\* The packets that recorded runs sent to other nodes.
Sent ==
    {p \in [connection : wf.connections, run : 1..runs] :
        /\ p.connection.from # wf.destination
        /\ \E r \in DOMAIN runData[p.connection.from] :
              /\ runData[p.connection.from][r].number = p.run
              /\ p.connection.output \in runData[p.connection.from][r].outs}

\* A run counts as a place of its inputs, except that the entry of a run which
\* ended the execution or put it to wait is back on the stack until a restart.
Counts(run) ==
    \/ run.status \in {"success", "continued"}
    \/ phase \notin {"settling", "saving", "ended"}

\* Where a packet is: the places are told apart by kind, node and index.
Place(kind, n, i) == [kind |-> kind, node |-> n, index |-> i]
PlacesOf(p) ==
    {Place("stack", stack[i].node, i) :
        i \in {j \in DOMAIN stack : p \in PacketsOf(stack[j].inputs)}}
    \union {Place("waiting", p.connection.to, i) :
               i \in {k \in DOMAIN waitingExecution[p.connection.to] :
                         p \in PacketsOf(waitingExecution[p.connection.to][k])}}
    \union {Place("run", p.connection.to, i) :
               i \in {r \in DOMAIN runData[p.connection.to] :
                         /\ Counts(runData[p.connection.to][r])
                         /\ p \in PacketsOf(runData[p.connection.to][r].inputs)}}
    \union (IF phase = "running" /\ p \in PacketsOf(current.inputs)
            THEN {Place("current", current.node, 0)} ELSE {})
    \union (IF p.connection \in targets /\ p.run = runs
            THEN {Place("target", p.connection.to, 0)} ELSE {})
    \union (IF p \in dropped THEN {Place("dropped", p.connection.to, 0)} ELSE {})
    \union (IF p \in lost THEN {Place("lost", p.connection.to, 0)} ELSE {})

\* Every packet a run has sent is in exactly one place: it is never given to two
\* entries or to two runs, and it disappears only with an entry that left no run
\* or was lost (addNodeToBeExecuted, the forced execution of waiting nodes).  A
\* resumed or retried node replaces its run (handleWaitingState, retry).
EveryPacketOnce == \A p \in Sent : Cardinality(PlacesOf(p)) = 1

\* No packet is lost: addNodeToBeExecuted creates a new entry when no waiting
\* entry lacks data for the input, so that it never replaces one.
NothingLost == lost = {}

\* An execution that succeeds leaves data waiting only at a node that lacks a
\* required input or comes after such a node, unless its last iteration ended by
\* "continue" and so skipped the search for waiting nodes.
LeftWaitingLacksInput ==
    phase = "ended" /\ status = "success" /\ ~early =>
        \A n \in Range(waitingNodes) :
            \E m \in (getParentNodes(n) \union {n}) \intersect Range(waitingNodes) :
                ~RequirementMet(m, waitingExecution[m][firstRunIndex(m)])

\* The hook workflowExecuteAfter runs once for each start of the engine; a second
\* time only if the cancellation comes while the hook is running.
ReportedOnce ==
    /\ phase = "ended" => afterHooks # << >>
    /\ Len(afterHooks) <= 2
    /\ Len(afterHooks) = 2 => aborted /\ afterHooks[2] = "canceled" /\ phase \in {"saving", "ended"}

\* The node n was, or is about to be, executed without data for the input.
RunsWithout(n, input) ==
    \/ \E i \in DOMAIN stack : stack[i].node = n /\ input \notin DOMAIN stack[i].inputs
    \/ \E r \in DOMAIN runData[n] : input \notin DOMAIN runData[n][r].inputs

\* A node is executed without data for one of its inputs only once nothing can
\* send data there any more: none arrives afterwards (the search for waiting
\* nodes passes over those whose parents wait).
MissingDataNeverComes ==
    [][\A c \in targets \ targets' : ~RunsWithout(c.to, c.input)]_vars

\* Two connections lead to one input of the node.
SharedInput(n) == \E c, d \in ConnectionsTo(n) : c # d /\ c.input = d.input

\* The nodes to which no data comes through a shared input.
Unshared == {n \in Nodes : \A m \in getParentNodes(n) \union {n} : ~SharedInput(m)}

\* Only shared inputs, at the node or before it, let a node be executed to its end
\* twice or let its waiting data be replaced (addNodeToBeExecuted, the search for
\* waiting nodes, resumption and retry).  Elsewhere data is lost only when a retry
\* removes the run of a node that went on after its error.
OnlySharedInputsRepeat ==
    \A n \in Unshared :
        /\ \A r, q \in DOMAIN runData[n] :
              {runData[n][r].status, runData[n][q].status} \subseteq {"success", "continued"} => r = q
        /\ \A p \in lost : p.connection.to = n => n \in wf.continues

\* Once started, the engine comes to an end: the loop, the search for waiting
\* nodes and the end of the execution leave nothing that blocks it.
ExecutionEnds == (phase # "ended") ~> (phase = "ended")
=============================================================================
