-------------------------- MODULE MCSensorPipeline --------------------------
(***************************************************************************)
(* SensorPipeline for TLC: the Linux controller with two workers, and the  *)
(* scripts controller.                                                     *)
(***************************************************************************)
EXTENDS SensorPipeline

CONSTANTS w1, w2, linux, scripts

OwnerOf == [w \in Worker |-> linux]
=============================================================================
