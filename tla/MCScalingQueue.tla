--------------------------- MODULE MCScalingQueue ---------------------------
(* Small instances of ScalingQueue for TLC. *)
EXTENDS ScalingQueue, TLC

CONSTANTS m1, m2, w1, w2, e1
=============================================================================
