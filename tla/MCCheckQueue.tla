---------------------------- MODULE MCCheckQueue ----------------------------
(* Small instances of CheckQueue for TLC: sets of model values. *)
EXTENDS CheckQueue, TLC
=============================================================================
