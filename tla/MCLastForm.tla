----------------------------- MODULE MCLastForm ------------------------------
(***************************************************************************)
(* LastForm with two networks and one retry.  Nothing tells one network    *)
(* from another.                                                           *)
(***************************************************************************)
EXTENDS LastForm, TLC

CONSTANTS home, other

Interchangeable == Permutations(Networks)

\* conTryStatus is only shown: no action and none of the properties here looks
\* at it, so states that differ in nothing else count as one.
AllButStatus ==
  <<flashed, interfaces, sta_reconnect, s_retry_num, wanted, armed, web,
    main, event, timer, httpd, form, picked, log, last>>
=============================================================================
