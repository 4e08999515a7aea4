--------------------------- MODULE MCWaitTracker ----------------------------
(* Small instances of WaitTracker for TLC. *)
EXTENDS WaitTracker, TLC

CONSTANTS m1, m2, e1
=============================================================================
