---------------------------- MODULE MCSensorBus ----------------------------
(***************************************************************************)
(* SensorBus with one reader and a measurement when more than one second   *)
(* has passed since the last.                                              *)
(***************************************************************************)
EXTENDS SensorBus

CONSTANTS r1
=============================================================================
