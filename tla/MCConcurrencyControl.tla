------------------------ MODULE MCConcurrencyControl ------------------------
(* A small instance of ConcurrencyControl for TLC. *)
EXTENDS ConcurrencyControl, TLC

CONSTANTS c1, c2, c3, c4, c5, c6, e1, e2, e3, e4, e5

\* Two calls are about e1 (a run and a resumption); e4 has a queue of its own
\* kind and e5 is never throttled.
MCExecutionOf == c1 :> e1 @@ c2 :> e1 @@ c3 :> e2 @@ c4 :> e3 @@ c5 :> e4 @@ c6 :> e5

MCModeOf == e1 :> "webhook" @@ e2 :> "trigger" @@ e3 :> "chat"
            @@ e4 :> "evaluation" @@ e5 :> "manual"

\* Production executions limited to one, evaluations by -5, that is unlimited.
LimitOne == "production" :> 1 @@ "evaluation" :> -5
=============================================================================
