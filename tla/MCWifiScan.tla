----------------------------- MODULE MCWifiScan -----------------------------
(***************************************************************************)
(* WifiScan with scans of up to two access points and two heap blocks, one *)
(* more than a program that frees what it drops ever needs.                *)
(***************************************************************************)
EXTENDS WifiScan

CONSTANTS b1, b2
=============================================================================
