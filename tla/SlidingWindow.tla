--------------------------- MODULE SlidingWindow ---------------------------
(***************************************************************************)
(* What the pulse counter of the firmware promises: the pulses of each of  *)
(* the last Slots whole seconds, newest first, and those of the second     *)
(* that is running.  Counts live in unsigned words of modulus U16.         *)
(***************************************************************************)
EXTENDS Naturals

CONSTANTS
  Slots,   \* seconds in the window
  U16      \* modulus of the counters

VARIABLES
  current, \* pulses of the running second
  recent   \* recent[k]: pulses of the k-th last whole second, k \in 1..Slots

wvars == <<current, recent>>

\* How many pulses the last k whole seconds had, for each k.
Totals ==
  LET total[k \in 0 .. Slots] == IF k = 0 THEN 0 ELSE total[k - 1] + recent[k]
  IN  total

Init ==
  /\ current = 0
  /\ recent = [k \in 1 .. Slots |-> 0]

\* A pulse belongs to the running second.
Count ==
  /\ current' = (current + 1) % U16
  /\ UNCHANGED recent

\* A second ends: it becomes the newest of the window, the oldest one leaves.
EndSecond ==
  /\ recent' = [k \in 1 .. Slots |-> IF k = 1 THEN current ELSE recent[k - 1]]
  /\ current' = 0

Next == Count \/ EndSecond

Spec == Init /\ [][Next]_wvars
=============================================================================
