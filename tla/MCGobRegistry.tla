--------------------------- MODULE MCGobRegistry ---------------------------
(***************************************************************************)
(* GobRegistry for TLC: sensors are interchangeable.                       *)
(***************************************************************************)
EXTENDS GobRegistry, TLC

Symmetry == Permutations(Sensor)
=============================================================================
