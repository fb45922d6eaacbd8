-------------------------- MODULE MCGeigerCounter --------------------------
(***************************************************************************)
(* GeigerCounter on a ring of three seconds with counters that wrap.  The  *)
(* readers do not see each other, so one of them shows what there is.      *)
(***************************************************************************)
EXTENDS GeigerCounter

CONSTANTS httpd
=============================================================================
