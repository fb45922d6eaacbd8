------------------------------ MODULE MCButton ------------------------------
(***************************************************************************)
(* Button with an uptime of four bits and the threshold of the code.       *)
(***************************************************************************)
EXTENDS Button
=============================================================================
