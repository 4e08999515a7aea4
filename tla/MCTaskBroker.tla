---------------------------- MODULE MCTaskBroker ----------------------------
(* Small instances of TaskBroker for TLC. *)
EXTENDS TaskBroker, TLC

CONSTANTS q1, q2, w1, w2, l1

\* All requests and runners are of the same type.
OneRequestType == [q \in Requests |-> "javascript"]
OneRunnerType == [r \in Runners |-> "javascript"]
=============================================================================
