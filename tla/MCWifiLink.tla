----------------------------- MODULE MCWifiLink -----------------------------
(***************************************************************************)
(* WifiLink with one network and one retry.                                *)
(***************************************************************************)
EXTENDS WifiLink

CONSTANT home
=============================================================================
