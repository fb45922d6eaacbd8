----------------------------- MODULE MCMqttLog -----------------------------
(***************************************************************************)
(* MqttLog with two brokers and one topic.                                 *)
(***************************************************************************)
EXTENDS MqttLog

CONSTANTS b1, b2, t1
=============================================================================
