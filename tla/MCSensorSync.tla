---------------------------- MODULE MCSensorSync ----------------------------
(***************************************************************************)
(* SensorSync for TLC: the goroutines are interchangeable.                 *)
(***************************************************************************)
EXTENDS SensorSync, TLC

Symmetry == Permutations(Task)
=============================================================================
