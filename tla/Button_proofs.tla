---------------------------- MODULE Button_proofs ----------------------------
(***************************************************************************)
(* Proofs about Button, for an uptime of any width, any threshold and any  *)
(* time that interrupts wait: the types, and that the timer is armed only  *)
(* after a hold that is long enough.                                       *)
(***************************************************************************)
EXTENDS Button, TLAPS

-----------------------------------------------------------------------------
(* Types *)

LEMMA TypeOKInit == Init => TypeOK
<1> SUFFICES ASSUME Init PROVE TypeOK
  OBVIOUS
<1>1. /\ uptime \in 0 .. W - 1 /\ button_timer \in 0 .. W - 1
      /\ held \in 0 .. MaxHold /\ waited \in 0 .. MaxWait
  BY ConstantsAssumption DEF Init
<1> QED
  BY <1>1, Zenon DEF Init, TypeOK

\* The uptime keeps its width.
LEMMA NextUptimeType ==
  ASSUME uptime \in 0 .. W - 1
  PROVE  NextUptime \in 0 .. W - 1
BY ConstantsAssumption DEF NextUptime

LEMMA TypeOKNext == TypeOK /\ [Next]_vars => TypeOK'
<1> SUFFICES ASSUME TypeOK, [Next]_vars PROVE TypeOK'
  OBVIOUS
<1> USE DEF TypeOK, pin, history
<1>1. CASE Press
  <2>1. /\ level' \in {"low", "high"}
        /\ pending' \in BOOLEAN /\ seen' \in BOOLEAN /\ restored' \in BOOLEAN
    BY <1>1, Zenon DEF Press
  <2>2. /\ held' = 0
        /\ UNCHANGED <<isr, uptime, button_timer, armed, waited>>
    BY <1>1 DEF Press
  <2> QED
    BY <2>1, <2>2, ConstantsAssumption
<1>2. CASE Release
  BY <1>2 DEF Release
<1>3. CASE Tick
  <2>1. uptime' \in 0 .. W - 1
    BY <1>3, NextUptimeType DEF Tick
  <2>2. held' \in 0 .. MaxHold /\ waited' \in 0 .. MaxWait
    BY <1>3, ConstantsAssumption DEF Tick
  <2>3. UNCHANGED <<pin, isr, button_timer, armed, seen, restored>>
    BY <1>3 DEF Tick
  <2> QED
    BY <2>1, <2>2, <2>3
<1>4. CASE Interrupt
  <2>1. pending' \in BOOLEAN
    BY <1>4, Zenon DEF Interrupt
  <2>2. /\ isr' = "read" /\ waited' = 0
        /\ UNCHANGED <<level, uptime, button_timer, armed, held, seen, restored>>
    BY <1>4 DEF Interrupt
  <2> QED
    BY <2>1, <2>2, ConstantsAssumption
<1>5. CASE ReadLow
  BY <1>5 DEF ReadLow
<1>6. CASE ReadHigh
  <2>1. armed' \in BOOLEAN
    BY <1>6, Zenon DEF ReadHigh
  <2>2. /\ isr' = "idle"
        /\ UNCHANGED <<pin, uptime, button_timer, history>>
    BY <1>6 DEF ReadHigh
  <2> QED
    BY <2>1, <2>2
<1>7. CASE Restore
  BY <1>7 DEF Restore
<1>8. CASE Restart
  <2>1. /\ pending' \in BOOLEAN /\ armed' \in BOOLEAN
        /\ seen' \in BOOLEAN /\ restored' \in BOOLEAN
    BY <1>8, Zenon DEF Restart
  <2>2. /\ isr' = "idle"
        /\ uptime' = 0 /\ button_timer' = 0 /\ held' = 0 /\ waited' = 0
        /\ UNCHANGED level
    BY <1>8 DEF Restart
  <2> QED
    BY <2>1, <2>2, ConstantsAssumption
<1>9. CASE UNCHANGED vars
  BY <1>9 DEF vars
<1> QED
  BY <1>1, <1>2, <1>3, <1>4, <1>5, <1>6, <1>7, <1>8, <1>9 DEF Next, Isr

\* The variables keep their types and the uptime its width, whatever it is.
THEOREM TypeCorrect == Spec => []TypeOK
BY TypeOKInit, TypeOKNext, PTL DEF Spec

-----------------------------------------------------------------------------
(* The measured time *)

\* A tick makes the measured time longer by one, or wraps it to zero.
LEMMA ElapsedTick ==
  ASSUME TypeOK, Tick
  PROVE  /\ Elapsed \in Nat /\ Elapsed' \in Nat
         /\ Elapsed' <= Elapsed + 1
<1>1. /\ W \in Nat /\ uptime \in 0 .. W - 1 /\ button_timer \in 0 .. W - 1
      /\ uptime' = NextUptime /\ button_timer' = button_timer
  BY ConstantsAssumption DEF TypeOK, Tick
<1> QED
  BY <1>1 DEF Elapsed, NextUptime

LEMMA ElapsedType == ASSUME TypeOK PROVE Elapsed \in Nat
BY ConstantsAssumption DEF TypeOK, Elapsed

\* Once the handler has seen the button down, the time since then is at most
\* the time it was held, and after the release the time the interrupt waited.
\* An edge that came while the handler was called waits since then.
HoldInv ==
  /\ ~pending => waited = 0
  /\ seen /\ level = "low" => Elapsed <= held
  /\ seen /\ level = "high" /\ isr = "idle" /\ pending => Elapsed <= held + waited
  /\ seen /\ level = "high" /\ isr = "read" => Elapsed <= held + MaxWait
  /\ seen /\ level = "high" /\ isr = "read" /\ pending => Elapsed <= held

LEMMA HoldInit == Init => HoldInv
BY DEF Init, HoldInv

LEMMA HoldNext == TypeOK /\ HoldInv /\ [Next]_vars => HoldInv'
<1> SUFFICES ASSUME TypeOK, HoldInv, [Next]_vars PROVE HoldInv'
  OBVIOUS
<1>1. /\ MaxWait \in Nat /\ held \in Nat /\ waited \in 0 .. MaxWait
      /\ Elapsed \in Nat
      /\ level \in {"low", "high"} /\ isr \in {"idle", "read"}
  BY ConstantsAssumption, ElapsedType DEF TypeOK
<1>2. UNCHANGED <<uptime, button_timer>> => Elapsed' = Elapsed
  BY DEF Elapsed
<1> USE <1>1 DEF HoldInv, pin, history
<1>3. CASE Press
  BY <1>3 DEF Press
<1>4. CASE Release
  BY <1>2, <1>4 DEF Release
<1>5. CASE Tick
  <2>1. Elapsed' \in Nat /\ Elapsed' <= Elapsed + 1
    BY <1>5, ElapsedTick
  <2>2. CASE level = "low"
    BY <1>5, <2>1, <2>2 DEF Tick
  <2>3. CASE level = "high"
    BY <1>5, <2>1, <2>3 DEF Tick
  <2> QED
    BY <2>2, <2>3
<1>6. CASE Interrupt
  BY <1>2, <1>6 DEF Interrupt
<1>7. CASE ReadLow
  <2>1. Elapsed' = 0
    BY <1>7, ConstantsAssumption DEF ReadLow, Elapsed, TypeOK
  <2> QED
    BY <1>7, <2>1 DEF ReadLow
<1>8. CASE ReadHigh
  BY <1>2, <1>8 DEF ReadHigh
<1>9. CASE Restore
  BY <1>2, <1>9 DEF Restore
<1>10. CASE Restart
  BY <1>10 DEF Restart
<1>11. CASE UNCHANGED vars
  BY <1>2, <1>11 DEF vars
<1> QED
  BY <1>3, <1>4, <1>5, <1>6, <1>7, <1>8, <1>9, <1>10, <1>11 DEF Next, Isr

\* The timer is armed only after a hold that exceeds the threshold, give or
\* take what the interrupt waited, also when the uptime wraps meanwhile.
THEOREM RestoredOnlyAfterHold == Spec => ArmsAfterHold
<1>1. TypeOK /\ HoldInv /\ [Next]_vars => [(Arms /\ seen) => held + MaxWait > Long]_vars
  <2> SUFFICES ASSUME TypeOK, HoldInv, Arms, seen
               PROVE  held + MaxWait > Long
    OBVIOUS
  <2>1. Elapsed <= held + MaxWait /\ Elapsed > Long
    BY DEF HoldInv, Arms
  <2> QED
    BY <2>1, ElapsedType, ConstantsAssumption DEF TypeOK
<1> QED
  BY <1>1, TypeOKInit, TypeOKNext, HoldInit, HoldNext, PTL DEF Spec, ArmsAfterHold
=============================================================================
