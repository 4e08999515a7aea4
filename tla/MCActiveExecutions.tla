------------------------- MODULE MCActiveExecutions -------------------------
(* Small instances of ActiveExecutions for TLC. *)
EXTENDS ActiveExecutions, TLC

CONSTANTS n1, n2, r1, r2, e1, e2

\* e1 is run by n1 and resumed, or re-run at startup, by r1 and r2.
MCExecutionOf == [c \in Calls |-> IF c = n2 THEN e2 ELSE e1]

MCModeOf == [e \in Executions |-> IF e = e1 THEN "webhook" ELSE "trigger"]

\* One production execution at a time.
MCLimit == "production" :> 1 @@ "evaluation" :> -1
=============================================================================
