--------------------------- MODULE MCConfigStore ---------------------------
(***************************************************************************)
(* ConfigStore with one address, so that interfaces are told apart by      *)
(* use_dhcp, and two passwords.  httpd and the timer task copy the         *)
(* configuration.                                                          *)
(***************************************************************************)
EXTENDS ConfigStore

CONSTANTS a0, none, p1
=============================================================================
