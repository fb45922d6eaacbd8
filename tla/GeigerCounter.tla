--------------------------- MODULE GeigerCounter ---------------------------
(***************************************************************************)
(* The pulse counter (geiger.c) and the one-second interrupt that drives   *)
(* it (main.c), with the tasks that read it.                               *)
(*                                                                         *)
(* Both interrupts are GPIO interrupts of one service routine, so each     *)
(* handler is one action.  A task that reads the ring is interruptible     *)
(* between two slots: geiger_get_cpm takes one action per slot.            *)
(*                                                                         *)
(* snap, seen and ticks are history variables of the reads, early and      *)
(* filled of the boot; no guard looks at them.                             *)
(***************************************************************************)
EXTENDS Integers

CONSTANTS
  Readers,   \* tasks that may call constructDataJSON: httpd, the timer task
  Slots,     \* length of geiger_pulses: 60 in the code
  U16,       \* modulus of uint16_t
  U32,       \* modulus of uint32_t
  BootTicks  \* bound: ticks taken between the hooking of the RTC interrupt
             \* and geiger_init

ASSUME ConstantsAssumption ==
  /\ Slots \in Nat \ {0}
  /\ U16 \in Nat \ {0, 1}
  /\ U32 \in Nat \ {0, 1}
  /\ BootTicks \in Nat /\ BootTicks < U32 /\ Slots < U32

VARIABLES
  pulses,               \* pulses of the running second
  geiger_pulses,        \* the ring
  geiger_pulses_index,  \* slot the next second goes to
  uptime,               \* seconds since boot
  booted,               \* geiger_init has returned: pulses are counted
  reading,              \* readers inside geiger_get_cpm
  i, result,            \* the locals of geiger_get_cpm
  snap, seen, ticks,    \* history: ring at the call, slots read, ticks since
  early, filled         \* history: ticks before geiger_init, slots stored since

counter == <<pulses, geiger_pulses, geiger_pulses_index, uptime, booted>>
reader == <<reading, i, result, snap, seen, ticks>>
boot == <<early, filled>>
vars == <<counter, reader, boot>>

Index == 0 .. Slots - 1
Count == 0 .. U16 - 1
Ring == [Index -> Count]
EmptyRing == [k \in Index |-> 0]

Init ==
  /\ pulses = 0
  /\ geiger_pulses = EmptyRing
  /\ geiger_pulses_index = 0
  /\ uptime = 0
  /\ booted = FALSE
  /\ reading = {}
  /\ i = [r \in Readers |-> 0]
  /\ result = [r \in Readers |-> 0]
  /\ snap = [r \in Readers |-> EmptyRing]
  /\ seen = [r \in Readers |-> EmptyRing]
  /\ ticks = [r \in Readers |-> 0]
  /\ early = 0
  /\ filled = {}

-----------------------------------------------------------------------------
(* Interrupts *)

\* Faulty variant: the pulse goes straight to the slot of the running second.
PulseIntoRing ==
  /\ booted
  /\ geiger_pulses' = [geiger_pulses EXCEPT ![geiger_pulses_index] = (@ + 1) % U16]
  /\ UNCHANGED <<pulses, geiger_pulses_index, uptime, booted, reader, boot>>

\* geiger_isr_cpm_handler
Pulse ==
  /\ booted
  /\ pulses' = (pulses + 1) % U16
  /\ UNCHANGED <<geiger_pulses, geiger_pulses_index, uptime, booted, reader, boot>>

\* Faulty variant: the comparison lets the index past the end of the ring.
NextIndexPastEnd(k) == IF k + 1 > Slots THEN 0 ELSE k + 1

NextIndex(k) == IF k + 1 > Slots - 1 THEN 0 ELSE k + 1

\* Faulty variant: the slot of the next second is cleared in advance.
StoreSecondClearNext ==
  /\ geiger_pulses' = [geiger_pulses EXCEPT ![geiger_pulses_index] = pulses,
                                            ![NextIndex(geiger_pulses_index)] = 0]
  /\ pulses' = 0
  /\ geiger_pulses_index' = NextIndex(geiger_pulses_index)

\* geiger_1s_handle
StoreSecond ==
  /\ geiger_pulses' = [geiger_pulses EXCEPT ![geiger_pulses_index] = pulses]
  /\ pulses' = 0
  /\ geiger_pulses_index' = NextIndex(geiger_pulses_index)

\* gpio_isr_rtc_handler: increment_uptime, then geiger_1s_handle.
Tick ==
  /\ booted \/ uptime < BootTicks
  /\ uptime' = (uptime + 1) % U32
  /\ StoreSecond
  /\ ticks' = [r \in Readers |->
                 IF r \in reading /\ ticks[r] <= Slots THEN ticks[r] + 1 ELSE ticks[r]]
  /\ early' = IF booted THEN early ELSE early + 1
  /\ filled' = IF booted THEN filled \cup {geiger_pulses_index} ELSE {}
  /\ UNCHANGED <<booted, reading, i, result, snap, seen>>

-----------------------------------------------------------------------------
(* Tasks *)

\* geiger_init, called by app_main after it hooked the RTC interrupt.
GeigerInit ==
  /\ ~booted
  /\ booted' = TRUE
  /\ geiger_pulses' = EmptyRing
  /\ UNCHANGED <<pulses, geiger_pulses_index, uptime, reader, boot>>

\* Faulty variant: the guard is off by one.
ReportableEarly == uptime > Slots - 2

Reportable == uptime > Slots - 1

\* constructDataJSON calls geiger_get_cpm once the board is up for a minute;
\* the tasks that do are created after geiger_init.
ReadStart(r) ==
  /\ booted
  /\ r \notin reading
  /\ Reportable
  /\ reading' = reading \cup {r}
  /\ snap' = [snap EXCEPT ![r] = geiger_pulses]
  /\ UNCHANGED <<counter, boot, i, result, seen, ticks>>

\* One turn of the loop of geiger_get_cpm.
ReadSlot(r) ==
  /\ r \in reading
  /\ i[r] < Slots
  /\ result' = [result EXCEPT ![r] = (result[r] + geiger_pulses[i[r]]) % U16]
  /\ seen' = [seen EXCEPT ![r] = [seen[r] EXCEPT ![i[r]] = geiger_pulses[i[r]]]]
  /\ i' = [i EXCEPT ![r] = i[r] + 1]
  /\ UNCHANGED <<counter, boot, reading, snap, ticks>>

\* Faulty variant: the sum of the last call is not cleared.
ReadEndKeepSum(r) ==
  /\ r \in reading
  /\ i[r] >= Slots
  /\ reading' = reading \ {r}
  /\ i' = [i EXCEPT ![r] = 0]
  /\ snap' = [snap EXCEPT ![r] = EmptyRing]
  /\ seen' = [seen EXCEPT ![r] = EmptyRing]
  /\ ticks' = [ticks EXCEPT ![r] = 0]
  /\ UNCHANGED <<counter, boot, result>>

\* geiger_get_cpm returns its sum, and its locals are gone.
ReadEnd(r) ==
  /\ r \in reading
  /\ i[r] >= Slots
  /\ reading' = reading \ {r}
  /\ i' = [i EXCEPT ![r] = 0]
  /\ result' = [result EXCEPT ![r] = 0]
  /\ snap' = [snap EXCEPT ![r] = EmptyRing]
  /\ seen' = [seen EXCEPT ![r] = EmptyRing]
  /\ ticks' = [ticks EXCEPT ![r] = 0]
  /\ UNCHANGED <<counter, boot>>

Next ==
  \/ Pulse
  \/ Tick
  \/ GeigerInit
  \/ \E r \in Readers : ReadStart(r) \/ ReadSlot(r) \/ ReadEnd(r)

Spec == Init /\ [][Next]_vars

-----------------------------------------------------------------------------
(* Properties *)

\* The variables keep their types; widths and array bounds are those of the
\* declarations at the top of geiger.c.
TypeOK ==
  /\ pulses \in Count
  /\ geiger_pulses \in Ring
  /\ geiger_pulses_index \in Index
  /\ uptime \in 0 .. U32 - 1
  /\ booted \in BOOLEAN
  /\ reading \in SUBSET Readers
  /\ i \in [Readers -> 0 .. Slots]
  /\ result \in [Readers -> Count]
  /\ snap \in [Readers -> Ring]
  /\ seen \in [Readers -> Ring]
  /\ ticks \in [Readers -> 0 .. Slots + 1]
  /\ early \in 0 .. BootTicks
  /\ filled \in SUBSET Index

\* How many pulses the slots below k hold, for each k.
Totals(ring) ==
  LET total[k \in 0 .. Slots] == IF k = 0 THEN 0 ELSE total[k - 1] + ring[k - 1]
  IN  total

\* The pulses of a ring, as many of them as a uint16_t can tell.
CpmOf(ring) == Totals(ring)[Slots] % U16

\* What a read took is the ring at the call or the ring as it is now, never
\* some slots of each, when at most one tick hit it.  The ring has no lock: the
\* loop and geiger_1s_handle interleave slot by slot.
ReadIsAtomic ==
  \A r \in reading :
    (i[r] = Slots /\ ticks[r] <= 1)
      => seen[r] \in {snap[r], geiger_pulses}

\* With more ticks than that (a task held back for seconds) a read still
\* takes every slot from one of the two windows, as long as the ring has not
\* turned over.
ReadMixesTwoWindows ==
  \A r \in reading :
    ticks[r] <= Slots
      => \A k \in 0 .. i[r] - 1 : seen[r][k] \in {snap[r][k], geiger_pulses[k]}

\* Whole seconds since slot k was stored, 0 for the newest.
Age(k) == IF k < geiger_pulses_index
            THEN geiger_pulses_index - 1 - k
            ELSE geiger_pulses_index - 1 - k + Slots

\* The guard of constructDataJSON (uptime > 59) lets a rate out only when
\* every slot of the ring was stored since counting began, but for as many of
\* the oldest as there were ticks between gpio_isr_handler_add of the RTC pin
\* and geiger_init in app_main.
ReportsFilledWindow ==
  reading # {} => \A k \in Index : Age(k) < Slots - early => k \in filled

-----------------------------------------------------------------------------
(* The counter and the sliding window. *)

\* Slot of the k-th last whole second.
SlotOf(k) == IF k <= geiger_pulses_index
               THEN geiger_pulses_index - k
               ELSE geiger_pulses_index - k + Slots

Window == INSTANCE SlidingWindow
            WITH current <- pulses,
                 recent <- [k \in 1 .. Slots |-> geiger_pulses[SlotOf(k)]]

\* A rate that geiger_get_cpm returns is the total of one window, the one at
\* its call or the one at its return, when at most one tick hit the read: when
\* none did, the pulses of the last Slots seconds, in whatever slots they are.
CpmIsSomeWindow ==
  \A r \in reading : i[r] = Slots =>
    /\ ticks[r] <= 1 => result[r] \in {CpmOf(snap[r]), CpmOf(geiger_pulses)}
    /\ ticks[r] = 0 => result[r] = Window!Totals[Slots] % U16

\* The ring with its index is a window of whole seconds: no pulse is lost,
\* counted twice or moved to another second when geiger_1s_handle wraps.
ImplementsWindow == Window!Spec
=============================================================================
