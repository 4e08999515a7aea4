------------------------- MODULE MCWorkflowExecute -------------------------
(* Small workflows for TLC. *)
EXTENDS WorkflowExecute

CONSTANTS t, a, b, c, d, j, k

Conn(from, output, to, input) == [from |-> from, output |-> output, to |-> to, input |-> input]
Positions == (t :> 0) @@ (a :> 1) @@ (b :> 2) @@ (c :> 3) @@ (d :> 4) @@ (j :> 5) @@ (k :> 6)

Plain ==
    [connections |-> {}, start |-> t, position |-> Positions, destination |-> None,
     inclusive |-> TRUE, requires |-> [n \in Nodes |-> {}], requiresCount |-> [n \in Nodes |-> 0],
     disabled |-> {}, mayFail |-> {}, continues |-> {}, mayWait |-> {}, mayReturnNull |-> {}]

\* The join k waits before the join j, which leads to it.
Nested ==
    [Plain EXCEPT
        !.connections = {Conn(t, 0, a, 0), Conn(t, 0, b, 0), Conn(t, 0, c, 0), Conn(a, 0, k, 0),
                         Conn(b, 0, j, 0), Conn(c, 0, j, 1), Conn(j, 0, k, 1), Conn(k, 0, d, 0)},
        !.mayWait = {b}, !.mayFail = {c, j}, !.mayReturnNull = {c}]

\* Three nodes send to one input of j, with the sender to the other input
\* between the second and the third.
Feeders ==
    [Plain EXCEPT
        !.connections = {Conn(t, 0, a, 0), Conn(t, 0, b, 0), Conn(t, 0, c, 0), Conn(t, 0, d, 0),
                         Conn(a, 0, j, 0), Conn(b, 0, j, 0), Conn(d, 0, j, 0), Conn(c, 0, j, 1),
                         Conn(j, 0, k, 0)},
        !.requiresCount = [n \in Nodes |-> 1],
        !.mayWait = {j}, !.mayFail = {d}]

\* A manual run up to k; d does not lead there.
Manual ==
    [Plain EXCEPT
        !.connections = {Conn(t, 0, a, 0), Conn(t, 0, b, 0), Conn(a, 0, j, 0), Conn(b, 0, j, 1),
                         Conn(b, 0, d, 0), Conn(j, 0, k, 0)},
        !.destination = k, !.mayReturnNull = {b}, !.continues = {k}, !.mayFail = {k}]

\* A disabled node, a node that continues after an error, two outputs to one
\* join that requires both, and a node with only its second input connected.
Required ==
    [Plain EXCEPT
        !.connections = {Conn(t, 0, a, 0), Conn(a, 0, b, 0), Conn(b, 0, c, 0), Conn(b, 0, k, 0),
                         Conn(c, 0, j, 0), Conn(c, 1, j, 1), Conn(c, 1, d, 1), Conn(j, 0, k, 1)},
        !.requires = [n \in Nodes |-> IF n = j THEN {0, 1} ELSE {}],
        !.disabled = {a}, !.continues = {b}, !.mayFail = {b, k}, !.mayWait = {c}]

\* Three nodes that run one after the other, each connected to one of the inputs
\* of two joins in all possible ways; j leads to k, or not.
Joins ==
    {[Plain EXCEPT
        !.connections = {Conn(t, 0, n, 0) : n \in {a, b, c}} \union later
                        \union {Conn(n, 0, f[n][1], f[n][2]) : n \in {a, b, c}},
        !.mayWait = {b}, !.mayFail = {c}] :
        f \in [{a, b, c} -> {j, k} \X {0, 1}],
        later \in {{}, {Conn(j, 0, k, 0)}, {Conn(j, 0, k, 1)}}}

\* A node that continues after an error and is executed twice: a retry after a
\* timeout removes a run whose data is on the stack, and gives its index again.
Repeated ==
    [Plain EXCEPT
        !.connections = {Conn(t, 0, a, 0), Conn(t, 0, b, 0), Conn(a, 0, c, 0), Conn(b, 0, c, 0),
                         Conn(c, 0, d, 0)},
        !.continues = {c}, !.mayFail = {c}]

OnlyFeeders == {Feeders}
AllWorkflows ==
    Joins \union {Nested, Feeders, Manual, [Manual EXCEPT !.inclusive = FALSE], Required, Repeated}
=============================================================================
