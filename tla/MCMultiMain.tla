---------------------------- MODULE MCMultiMain -----------------------------
(* Small instances of MultiMain for TLC. *)
EXTENDS MultiMain, TLC

CONSTANTS m1, m2
=============================================================================
