-------------------------------- MODULE Button --------------------------------
(***************************************************************************)
(* The button (main.c): gpio_isr_button_handler measures, in ticks of the  *)
(* uptime, how long the pin was low, and arms the timer that restores the  *)
(* access point.                                                           *)
(*                                                                         *)
(* The handler is called once for the edges that came since its last call, *)
(* and reads the level the pin has by then: interrupts wait while flash is *)
(* written, and contacts bounce.                                           *)
(*                                                                         *)
(* held, seen, waited and restored are history variables; only the bounds  *)
(* MaxHold and MaxWait look at them.                                       *)
(***************************************************************************)
EXTENDS Integers

CONSTANTS
  W,         \* the uptime counts modulo W (2^32 in the code)
  Long,      \* ticks that a hold has to exceed (4 in the code)
  MaxHold,   \* bound: ticks that anybody holds the button
  MaxWait    \* bound: ticks that an interrupt waits

ASSUME ConstantsAssumption ==
  /\ W \in Nat /\ Long \in Nat /\ MaxHold \in Nat /\ MaxWait \in Nat
  /\ MaxHold + MaxWait < W
  /\ Long + MaxWait < MaxHold

VARIABLES
  level,         \* of the pin: "low" while the button is down
  pending,       \* an edge came, and the handler was not called since
  isr,           \* "read" when the interrupt is acknowledged, before the handler
  uptime, button_timer,
  armed,         \* soft_ap_restore_timer
  held,          \* ticks since the button went down, until it went up
  seen,          \* the handler was called while it was down
  waited,        \* ticks since pending rose
  restored       \* soft_ap_restore_timer_func ran since the button went down

pin == <<level, pending>>
history == <<held, seen, waited, restored>>
vars == <<pin, isr, uptime, button_timer, armed, history>>

Init ==
  /\ level = "high" /\ pending = FALSE /\ isr = "idle"
  /\ uptime = 0 /\ button_timer = 0
  /\ armed = FALSE
  /\ held = 0 /\ seen = FALSE /\ waited = 0 /\ restored = FALSE

-----------------------------------------------------------------------------
(* The pin *)

Press ==
  /\ level = "high"
  /\ level' = "low" /\ pending' = TRUE
  /\ held' = 0 /\ seen' = FALSE /\ restored' = FALSE
  /\ UNCHANGED <<isr, uptime, button_timer, armed, waited>>

Release ==
  /\ level = "low"
  /\ level' = "high" /\ pending' = TRUE
  /\ UNCHANGED <<isr, uptime, button_timer, armed, history>>

-----------------------------------------------------------------------------
(* Interrupts *)

\* increment_uptime
NextUptime == IF uptime = W - 1 THEN 0 ELSE uptime + 1

\* The other handler of the GPIO interrupt.
Tick ==
  /\ isr = "idle"
  /\ pending => waited < MaxWait
  /\ level = "low" => held < MaxHold
  /\ uptime' = NextUptime
  /\ held' = IF level = "low" THEN held + 1 ELSE held
  /\ waited' = IF pending THEN waited + 1 ELSE waited
  /\ UNCHANGED <<pin, isr, button_timer, armed, seen, restored>>

\* The driver acknowledges the interrupt and calls the handler.
Interrupt ==
  /\ isr = "idle" /\ pending
  /\ pending' = FALSE
  /\ isr' = "read"
  /\ waited' = 0
  /\ UNCHANGED <<level, uptime, button_timer, armed, held, seen, restored>>

\* Faulty variant: the difference is taken of signed numbers.
ElapsedSigned == uptime - button_timer

\* (uint32_t)(get_uptime() - button_timer)
Elapsed == IF uptime >= button_timer THEN uptime - button_timer
                                     ELSE uptime + W - button_timer

\* Faulty variant: the first press is taken for the beginning of every hold.
ReadLowOnce ==
  /\ isr = "read" /\ level = "low"
  /\ button_timer' = IF button_timer = 0 THEN uptime ELSE button_timer
  /\ isr' = "idle"
  /\ seen' = TRUE
  /\ UNCHANGED <<pin, uptime, armed, held, waited, restored>>

ReadLow ==
  /\ isr = "read" /\ level = "low"
  /\ button_timer' = uptime
  /\ isr' = "idle"
  /\ seen' = TRUE
  /\ UNCHANGED <<pin, uptime, armed, held, waited, restored>>

\* os_timer_disarm, os_timer_setfn, os_timer_arm
ReadHigh ==
  /\ isr = "read" /\ level = "high"
  /\ armed' = (armed \/ Elapsed > Long)
  /\ isr' = "idle"
  /\ UNCHANGED <<pin, uptime, button_timer, history>>

-----------------------------------------------------------------------------
(* The timer task, and restarts *)

\* soft_ap_restore_timer_func calls wifi_init_softap.
Restore ==
  /\ armed
  /\ armed' = FALSE
  /\ restored' = TRUE
  /\ UNCHANGED <<pin, isr, uptime, button_timer, held, seen, waited>>

\* The board starts again, whoever holds the button.
Restart ==
  /\ pending' = FALSE /\ isr' = "idle"
  /\ uptime' = 0 /\ button_timer' = 0
  /\ armed' = FALSE
  /\ held' = 0 /\ seen' = FALSE /\ waited' = 0 /\ restored' = FALSE
  /\ UNCHANGED level

-----------------------------------------------------------------------------
Isr == Interrupt \/ ReadLow \/ ReadHigh

Next == Press \/ Release \/ Tick \/ Isr \/ Restore \/ Restart

Spec == Init /\ [][Next]_vars

\* Interrupts are served and timers fall due.  Nobody has to press the button,
\* and the seconds need not come.
Fairness == WF_vars(Isr) /\ WF_vars(Restore)

FairSpec == Spec /\ Fairness

-----------------------------------------------------------------------------
(* Properties *)

\* The variables keep their types and the uptime its width.
TypeOK ==
  /\ level \in {"low", "high"}
  /\ pending \in BOOLEAN
  /\ isr \in {"idle", "read"}
  /\ uptime \in 0 .. W - 1 /\ button_timer \in 0 .. W - 1
  /\ armed \in BOOLEAN
  /\ held \in 0 .. MaxHold
  /\ seen \in BOOLEAN
  /\ waited \in 0 .. MaxWait
  /\ restored \in BOOLEAN

Arms == isr = "read" /\ isr' = "idle" /\ level = "high" /\ Elapsed > Long

\* The timer is armed only after a hold of that many ticks, one that the
\* interrupt waited for more or less, also when the uptime wraps meanwhile; but
\* the handler must have been called while the button was down: a tap that is
\* over before is measured from an earlier press, or from the boot.
ArmsAfterHold == [][(Arms /\ seen) => held + MaxWait > Long]_vars

\* A hold that is long enough, and whose press the handler saw, restores the
\* access point, unless the contact closes again before, as it does when it
\* bounces.
HoldRestores ==
  (level = "high" /\ seen /\ held > Long + MaxWait) ~> (restored \/ ~seen)
=============================================================================
