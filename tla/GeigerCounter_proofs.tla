------------------------ MODULE GeigerCounter_proofs ------------------------
(***************************************************************************)
(* Proofs about GeigerCounter, for a ring of any length, counters of any   *)
(* width and any number of readers.                                        *)
(***************************************************************************)
EXTENDS GeigerCounter, WellFoundedInduction, TLAPS

\* Before geiger_init nothing counts pulses, so the ring it clears is clear.
BootInv ==
  ~booted => /\ geiger_pulses = EmptyRing
             /\ pulses = 0
             /\ reading = {}
             /\ filled = {}
             /\ early = uptime

\* Outside geiger_get_cpm a reader has read nothing.
IdleInv ==
  \A r \in Readers \ reading : i[r] = 0 /\ ticks[r] = 0

\* Slots stored since the call changed; the others are what they were, and
\* what was read of them is what they are.
ReadInv ==
  \A r \in reading : ticks[r] <= Slots =>
    \A k \in Index :
      /\ Age(k) >= ticks[r] =>
           /\ snap[r][k] = geiger_pulses[k]
           /\ k < i[r] => seen[r][k] = geiger_pulses[k]
      /\ (Age(k) < ticks[r] /\ k < i[r]) =>
           seen[r][k] \in {snap[r][k], geiger_pulses[k]}

\* Until uptime wraps, every second after geiger_init has its slot.
FillInv ==
  booted => \A k \in Index : Age(k) < uptime - early => k \in filled

IInv ==
  /\ TypeOK
  /\ BootInv
  /\ IdleInv
  /\ ReadInv
  /\ FillInv
  /\ ReportsFilledWindow

-----------------------------------------------------------------------------
(* The index and the ages of the slots. *)

LEMMA IndexStep ==
  ASSUME NEW k \in Index
  PROVE  NextIndex(k) = IF k = Slots - 1 THEN 0 ELSE k + 1
BY ConstantsAssumption, SMT DEF NextIndex, Index

\* A tick makes the slot it stores the newest and every other one older by one.
LEMMA TickAges ==
  ASSUME geiger_pulses_index \in Index, StoreSecond, NEW k \in Index
  PROVE  /\ geiger_pulses_index' \in Index
         /\ Age(k) \in 0 .. Slots - 1
         /\ Age(k) = Slots - 1 <=> k = geiger_pulses_index
         /\ k = geiger_pulses_index => Age(k)' = 0
         /\ k # geiger_pulses_index => Age(k)' = Age(k) + 1
BY ConstantsAssumption, IndexStep DEF StoreSecond, Index, Age

-----------------------------------------------------------------------------
THEOREM InitIInv == Init => IInv
<1> SUFFICES ASSUME Init PROVE IInv
  OBVIOUS
<1>1. TypeOK
  <2>1. EmptyRing \in Ring /\ 0 \in Count /\ 0 \in Index
    BY ConstantsAssumption DEF EmptyRing, Ring, Index, Count
  <2>2. /\ 0 \in 0 .. U32 - 1 /\ 0 \in 0 .. Slots
        /\ 0 \in 0 .. Slots + 1 /\ 0 \in 0 .. BootTicks
    BY ConstantsAssumption
  <2> QED
    BY <2>1, <2>2 DEF Init, TypeOK
<1>2. BootInv /\ IdleInv /\ ReadInv /\ FillInv /\ ReportsFilledWindow
  BY DEF Init, BootInv, IdleInv, ReadInv, FillInv, ReportsFilledWindow
<1> QED
  BY <1>1, <1>2 DEF IInv

LEMMA PulseIInv == IInv /\ Pulse => IInv'
<1> SUFFICES ASSUME IInv, Pulse PROVE IInv'
  OBVIOUS
<1>1. TypeOK'
  BY ConstantsAssumption DEF IInv, TypeOK, Pulse, Count, counter, reader, boot
<1>2. (BootInv /\ IdleInv /\ ReadInv /\ FillInv /\ ReportsFilledWindow)'
  BY DEF IInv, Pulse, reader, boot, BootInv, IdleInv, ReadInv, FillInv,
         ReportsFilledWindow, Age
<1> QED
  BY <1>1, <1>2 DEF IInv

LEMMA GeigerInitIInv == IInv /\ GeigerInit => IInv'
<1> SUFFICES ASSUME IInv, GeigerInit PROVE IInv'
  OBVIOUS
<1>1. geiger_pulses' = geiger_pulses /\ reading = {} /\ early = uptime
  BY DEF IInv, BootInv, GeigerInit
<1>2. TypeOK'
  BY <1>1 DEF IInv, TypeOK, GeigerInit, reader, boot
<1>3. FillInv'
  <2> SUFFICES ASSUME NEW k \in Index PROVE ~(Age(k)' < uptime' - early')
    BY DEF FillInv
  <2>1. uptime' - early' = 0
    BY <1>1 DEF IInv, TypeOK, GeigerInit, boot
  <2>2. Age(k)' \in Nat
    BY ConstantsAssumption DEF IInv, TypeOK, GeigerInit, Age, Index
  <2> QED
    BY <2>1, <2>2
<1>4. (BootInv /\ IdleInv /\ ReadInv /\ ReportsFilledWindow)'
  BY <1>1 DEF IInv, GeigerInit, reader, boot, BootInv, IdleInv, ReadInv,
              ReportsFilledWindow
<1> QED
  BY <1>2, <1>3, <1>4 DEF IInv

LEMMA TickIInv == IInv /\ Tick => IInv'
<1> SUFFICES ASSUME IInv, Tick PROVE IInv'
  OBVIOUS
<1> USE ConstantsAssumption
<1>1. /\ StoreSecond
      /\ UNCHANGED <<booted, reading, i, result, snap, seen>>
      /\ geiger_pulses_index \in Index
  BY DEF Tick, IInv, TypeOK
<1>2. \A k \in Index :
        /\ Age(k) \in 0 .. Slots - 1
        /\ Age(k) = Slots - 1 <=> k = geiger_pulses_index
        /\ k = geiger_pulses_index => Age(k)' = 0
        /\ k # geiger_pulses_index => Age(k)' = Age(k) + 1
  BY <1>1, TickAges
<1>3. TypeOK'
  <2>1. /\ pulses' \in Count
        /\ geiger_pulses' \in Ring
        /\ geiger_pulses_index' \in Index
    <3>1. geiger_pulses_index' \in Index
      BY <1>1, IndexStep DEF StoreSecond, Index
    <3> QED
      BY <1>1, <3>1 DEF StoreSecond, IInv, TypeOK, Count, Ring
  <2>2. uptime' \in 0 .. U32 - 1
    BY DEF Tick, IInv, TypeOK
  <2>3. ticks' \in [Readers -> 0 .. Slots + 1]
    BY DEF Tick, IInv, TypeOK
  <2>4. early' \in 0 .. BootTicks
    BY DEF Tick, IInv, TypeOK, BootInv
  <2>5. filled' \in SUBSET Index
    BY DEF Tick, IInv, TypeOK
  <2> QED
    BY <1>1, <2>1, <2>2, <2>3, <2>4, <2>5 DEF IInv, TypeOK
<1>4. BootInv'
  <2> SUFFICES ASSUME ~booted
               PROVE  /\ geiger_pulses' = EmptyRing
                      /\ pulses' = 0
                      /\ reading' = {}
                      /\ filled' = {}
                      /\ early' = uptime'
    BY <1>1 DEF BootInv
  <2>1. geiger_pulses = EmptyRing /\ pulses = 0 /\ reading = {} /\ early = uptime
    BY DEF IInv, BootInv
  <2>2. geiger_pulses' = EmptyRing
    BY <1>1, <2>1 DEF StoreSecond, EmptyRing
  <2>3. (uptime + 1) % U32 = uptime + 1
    BY DEF Tick, IInv, TypeOK
  <2> QED
    BY <1>1, <2>1, <2>2, <2>3 DEF Tick, StoreSecond
<1>5. IdleInv'
  BY <1>1 DEF IInv, IdleInv, Tick, TypeOK
<1>6. ReadInv'
  <2> SUFFICES ASSUME NEW r \in reading, ticks'[r] <= Slots, NEW k \in Index
               PROVE  /\ Age(k)' >= ticks'[r] =>
                           /\ snap[r][k] = geiger_pulses'[k]
                           /\ k < i[r] => seen[r][k] = geiger_pulses'[k]
                      /\ (Age(k)' < ticks'[r] /\ k < i[r]) =>
                           seen[r][k] \in {snap[r][k], geiger_pulses'[k]}
    BY <1>1 DEF ReadInv
  <2>1. ticks[r] \in Nat /\ ticks'[r] = ticks[r] + 1
    BY DEF Tick, IInv, TypeOK
  <2>2. ticks[r] <= Slots - 1
    BY <2>1
  <2>3. /\ Age(k) >= ticks[r] =>
             /\ snap[r][k] = geiger_pulses[k]
             /\ k < i[r] => seen[r][k] = geiger_pulses[k]
        /\ (Age(k) < ticks[r] /\ k < i[r]) =>
             seen[r][k] \in {snap[r][k], geiger_pulses[k]}
    BY <2>1, <2>2 DEF IInv, ReadInv
  <2>4. CASE k = geiger_pulses_index
    <3>1. Age(k) = Slots - 1 /\ Age(k)' = 0
      BY <1>2, <2>4
    <3>2. snap[r][k] = geiger_pulses[k] /\ (k < i[r] => seen[r][k] = snap[r][k])
      BY <2>1, <2>2, <2>3, <3>1
    <3>3. ~(Age(k)' >= ticks'[r])
      BY <2>1, <3>1
    <3> QED
      BY <3>2, <3>3
  <2>5. CASE k # geiger_pulses_index
    <3>1. Age(k) \in Nat /\ Age(k)' = Age(k) + 1
      BY <1>2, <2>5
    <3>2. geiger_pulses'[k] = geiger_pulses[k]
      BY <1>1, <2>5 DEF StoreSecond, IInv, TypeOK, Ring
    <3>3. /\ Age(k)' >= ticks'[r] <=> Age(k) >= ticks[r]
          /\ Age(k)' < ticks'[r] <=> Age(k) < ticks[r]
      BY <2>1, <3>1
    <3> QED
      BY <2>3, <3>2, <3>3
  <2> QED
    BY <2>4, <2>5
<1>7. FillInv'
  <2> SUFFICES ASSUME booted, NEW k \in Index, Age(k)' < uptime' - early'
               PROVE  k \in filled'
    BY <1>1 DEF FillInv
  <2>1. early' = early /\ filled' = filled \cup {geiger_pulses_index}
    BY DEF Tick
  <2>2. CASE k # geiger_pulses_index
    <3>1. Age(k) \in Nat /\ Age(k)' = Age(k) + 1
      BY <1>2, <2>2
    <3>2. uptime' <= uptime + 1
      BY DEF Tick, IInv, TypeOK
    <3>3. uptime' \in Int /\ uptime \in Int /\ early \in Int
      BY <1>3 DEF IInv, TypeOK
    <3>4. Age(k) < uptime - early
      BY <2>1, <3>1, <3>2, <3>3
    <3> QED
      BY <2>1, <3>4 DEF IInv, FillInv
  <2> QED
    BY <2>1, <2>2
<1>8. ReportsFilledWindow'
  <2> SUFFICES ASSUME reading # {}, NEW k \in Index, Age(k)' < Slots - early'
               PROVE  k \in filled'
    BY <1>1 DEF ReportsFilledWindow
  <2>1. booted
    BY DEF IInv, BootInv
  <2>2. early' = early /\ filled' = filled \cup {geiger_pulses_index} /\ early \in Int
    BY <2>1 DEF Tick, IInv, TypeOK
  <2>3. CASE k # geiger_pulses_index
    <3>1. Age(k) \in Nat /\ Age(k)' = Age(k) + 1
      BY <1>2, <2>3
    <3>2. Age(k) < Slots - early
      BY <2>2, <3>1
    <3> QED
      BY <2>2, <3>2 DEF IInv, ReportsFilledWindow
  <2> QED
    BY <2>2, <2>3
<1> QED
  BY <1>3, <1>4, <1>5, <1>6, <1>7, <1>8 DEF IInv

LEMMA ReadStartIInv ==
  ASSUME NEW r \in Readers, IInv, ReadStart(r)
  PROVE  IInv'
<1> USE ConstantsAssumption
<1>1. /\ booted /\ r \notin reading
      /\ uptime > Slots - 1
      /\ reading' = reading \cup {r}
      /\ snap' = [snap EXCEPT ![r] = geiger_pulses]
      /\ UNCHANGED <<pulses, geiger_pulses, geiger_pulses_index, uptime, booted>>
      /\ UNCHANGED <<early, filled, i, result, seen, ticks>>
  BY DEF ReadStart, Reportable, counter, boot
<1>2. TypeOK'
  BY <1>1 DEF IInv, TypeOK
<1>3. IdleInv'
  BY <1>1 DEF IInv, IdleInv
<1>4. ReadInv'
  <2> SUFFICES ASSUME NEW s \in reading', ticks[s] <= Slots, NEW k \in Index
               PROVE  /\ Age(k) >= ticks[s] =>
                           /\ snap'[s][k] = geiger_pulses[k]
                           /\ k < i[s] => seen[s][k] = geiger_pulses[k]
                      /\ (Age(k) < ticks[s] /\ k < i[s]) =>
                           seen[s][k] \in {snap'[s][k], geiger_pulses[k]}
    BY <1>1 DEF ReadInv, Age
  <2>1. CASE s = r
    <3>1. snap'[r] = geiger_pulses
      BY <1>1 DEF IInv, TypeOK
    <3>2. i[r] = 0 /\ ~(k < i[r])
      BY <1>1 DEF IInv, IdleInv, Index
    <3> QED
      BY <2>1, <3>1, <3>2
  <2>2. CASE s # r
    <3>1. s \in reading /\ snap'[s] = snap[s]
      BY <1>1, <2>2 DEF IInv, TypeOK
    <3> QED
      BY <3>1 DEF IInv, ReadInv
  <2> QED
    BY <2>1, <2>2
<1>5. ReportsFilledWindow'
  <2> SUFFICES ASSUME NEW k \in Index, Age(k) < Slots - early
               PROVE  k \in filled
    BY <1>1 DEF ReportsFilledWindow, Age
  <2>1. Age(k) < uptime - early
    BY <1>1 DEF IInv, TypeOK, Index, Age
  <2> QED
    BY <1>1, <2>1 DEF IInv, FillInv
<1>6. (BootInv /\ FillInv)'
  BY <1>1 DEF IInv, BootInv, FillInv, Age
<1> QED
  BY <1>2, <1>3, <1>4, <1>5, <1>6 DEF IInv

LEMMA ReadSlotIInv ==
  ASSUME NEW r \in Readers, IInv, ReadSlot(r)
  PROVE  IInv'
<1> USE ConstantsAssumption
<1>1. /\ r \in reading
      /\ i[r] \in Index
      /\ i' = [i EXCEPT ![r] = i[r] + 1]
      /\ result' = [result EXCEPT ![r] = (result[r] + geiger_pulses[i[r]]) % U16]
      /\ seen' = [seen EXCEPT ![r] = [seen[r] EXCEPT ![i[r]] = geiger_pulses[i[r]]]]
      /\ UNCHANGED <<pulses, geiger_pulses, geiger_pulses_index, uptime, booted>>
      /\ UNCHANGED <<early, filled, reading, snap, ticks>>
  BY DEF ReadSlot, counter, boot, IInv, TypeOK, Index
<1>2. TypeOK'
  <2>1. i' \in [Readers -> 0 .. Slots]
    BY <1>1 DEF IInv, TypeOK, Index
  <2>2. geiger_pulses[i[r]] \in Count
    BY <1>1 DEF IInv, TypeOK, Ring
  <2>3. seen' \in [Readers -> Ring]
    BY <1>1, <2>2 DEF IInv, TypeOK, Ring
  <2>4. (result[r] + geiger_pulses[i[r]]) % U16 \in Count
    BY <2>2 DEF IInv, TypeOK, Count
  <2>5. result' \in [Readers -> Count]
    BY <1>1, <2>4 DEF IInv, TypeOK
  <2> QED
    BY <1>1, <2>1, <2>3, <2>5 DEF IInv, TypeOK
<1>3. ReadInv'
  <2> SUFFICES ASSUME NEW s \in reading, ticks[s] <= Slots, NEW k \in Index
               PROVE  /\ Age(k) >= ticks[s] =>
                           /\ snap[s][k] = geiger_pulses[k]
                           /\ k < i'[s] => seen'[s][k] = geiger_pulses[k]
                      /\ (Age(k) < ticks[s] /\ k < i'[s]) =>
                           seen'[s][k] \in {snap[s][k], geiger_pulses[k]}
    BY <1>1 DEF ReadInv, Age
  <2>1. /\ Age(k) >= ticks[s] =>
             /\ snap[s][k] = geiger_pulses[k]
             /\ k < i[s] => seen[s][k] = geiger_pulses[k]
        /\ (Age(k) < ticks[s] /\ k < i[s]) =>
             seen[s][k] \in {snap[s][k], geiger_pulses[k]}
    BY DEF IInv, ReadInv
  <2>2. CASE s = r /\ k = i[r]
    BY <1>1, <2>1, <2>2 DEF IInv, TypeOK, Ring
  <2>3. CASE ~(s = r /\ k = i[r])
    <3>1. seen'[s][k] = seen[s][k]
      BY <1>1, <2>3 DEF IInv, TypeOK, Ring
    <3>2. k < i'[s] => k < i[s]
      BY <1>1, <2>3 DEF IInv, TypeOK, Index
    <3> QED
      BY <2>1, <3>1, <3>2
  <2> QED
    BY <2>2, <2>3
<1>4. (BootInv /\ IdleInv /\ FillInv /\ ReportsFilledWindow)'
  BY <1>1 DEF IInv, BootInv, IdleInv, FillInv, ReportsFilledWindow, Age
<1> QED
  BY <1>2, <1>3, <1>4 DEF IInv

LEMMA ReadEndIInv ==
  ASSUME NEW r \in Readers, IInv, ReadEnd(r)
  PROVE  IInv'
<1> USE ConstantsAssumption
<1>1. EmptyRing \in Ring /\ 0 \in Count /\ 0 \in 0 .. Slots /\ 0 \in 0 .. Slots + 1
  BY DEF EmptyRing, Ring, Index, Count
<1>2. TypeOK'
  BY <1>1 DEF IInv, TypeOK, ReadEnd, counter, boot
<1>3. IdleInv'
  BY DEF IInv, IdleInv, TypeOK, ReadEnd
<1>4. ReadInv'
  BY DEF IInv, ReadInv, TypeOK, ReadEnd, counter, Age
<1>5. (BootInv /\ FillInv /\ ReportsFilledWindow)'
  BY DEF IInv, BootInv, FillInv, ReportsFilledWindow, ReadEnd, counter, boot, Age
<1> QED
  BY <1>2, <1>3, <1>4, <1>5 DEF IInv

THEOREM StepIInv == IInv /\ [Next]_vars => IInv'
<1> SUFFICES ASSUME IInv, [Next]_vars PROVE IInv'
  OBVIOUS
<1>1. CASE UNCHANGED vars
  BY <1>1 DEF IInv, vars, counter, reader, boot, TypeOK, BootInv, IdleInv,
              ReadInv, FillInv, ReportsFilledWindow, Age
<1>2. CASE Pulse
  BY <1>2, PulseIInv
<1>3. CASE Tick
  BY <1>3, TickIInv
<1>4. CASE GeigerInit
  BY <1>4, GeigerInitIInv
<1>5. ASSUME NEW r \in Readers, ReadStart(r) \/ ReadSlot(r) \/ ReadEnd(r)
      PROVE  IInv'
  BY <1>5, ReadStartIInv, ReadSlotIInv, ReadEndIInv
<1> QED
  BY <1>1, <1>2, <1>3, <1>4, <1>5 DEF Next

THEOREM Invariance == Spec => []IInv
BY InitIInv, StepIInv, PTL DEF Spec

-----------------------------------------------------------------------------
(* What the readers get. *)

\* Every variable keeps its type: no store past the end of the ring, no count
\* wider than its word.
THEOREM TypeCorrect == Spec => []TypeOK
<1>1. IInv => TypeOK
  BY DEF IInv
<1> QED
  BY Invariance, <1>1, PTL

\* A read during which at most one second ended is atomic: it saw the window
\* of its call or the window of its return.
THEOREM ReadAtomic == Spec => []ReadIsAtomic
<1>1. ASSUME IInv PROVE ReadIsAtomic
  <2> SUFFICES ASSUME NEW r \in reading, i[r] = Slots, ticks[r] <= 1
               PROVE  seen[r] = snap[r] \/ seen[r] = geiger_pulses
    BY DEF ReadIsAtomic
  <2>1. /\ snap[r] \in Ring /\ seen[r] \in Ring /\ geiger_pulses \in Ring
        /\ ticks[r] \in {0, 1} /\ ticks[r] <= Slots
    BY <1>1, ConstantsAssumption DEF IInv, TypeOK
  <2>2. \A k \in Index :
          /\ k < i[r]
          /\ Age(k) \in Nat
          /\ Age(k) = 0 => k = (IF geiger_pulses_index = 0 THEN Slots - 1
                                                          ELSE geiger_pulses_index - 1)
    BY <1>1, ConstantsAssumption DEF IInv, TypeOK, Index, Age
  <2>3. \A k \in Index :
          /\ Age(k) >= ticks[r] => /\ snap[r][k] = geiger_pulses[k]
                                   /\ seen[r][k] = geiger_pulses[k]
          /\ Age(k) < ticks[r] => seen[r][k] \in {snap[r][k], geiger_pulses[k]}
    BY <1>1, <2>1, <2>2 DEF IInv, ReadInv
  <2> DEFINE w == IF geiger_pulses_index = 0 THEN Slots - 1 ELSE geiger_pulses_index - 1
  <2>4. \A k \in Index : k # w => /\ snap[r][k] = geiger_pulses[k]
                                  /\ seen[r][k] = geiger_pulses[k]
    BY <2>1, <2>2, <2>3
  <2>5. seen[r][w] \in {snap[r][w], geiger_pulses[w]}
    <3>1. w \in Index
      BY <1>1, ConstantsAssumption DEF IInv, TypeOK, Index
    <3> QED
      BY <2>1, <2>2, <2>3, <3>1
  <2>6. CASE seen[r][w] = snap[r][w]
    <3>1. \A k \in Index : seen[r][k] = snap[r][k]
      BY <2>4, <2>6
    <3> QED
      BY <2>1, <3>1 DEF Ring
  <2>7. CASE seen[r][w] = geiger_pulses[w]
    <3>1. \A k \in Index : seen[r][k] = geiger_pulses[k]
      BY <2>4, <2>7
    <3> QED
      BY <2>1, <3>1 DEF Ring
  <2> QED
    BY <2>5, <2>6, <2>7
<1> QED
  BY Invariance, <1>1, PTL

\* However late a reader is, as long as the ring did not turn over it took
\* every slot from the window of its call or from the present one.
THEOREM ReadMixes == Spec => []ReadMixesTwoWindows
<1>1. ASSUME IInv PROVE ReadMixesTwoWindows
  <2> SUFFICES ASSUME NEW r \in reading, ticks[r] <= Slots, NEW k \in 0 .. i[r] - 1
               PROVE  seen[r][k] \in {snap[r][k], geiger_pulses[k]}
    BY DEF ReadMixesTwoWindows
  <2>1. /\ r \in Readers /\ i[r] \in 0 .. Slots /\ ticks[r] \in Nat
        /\ geiger_pulses_index \in 0 .. Slots - 1
    BY <1>1, ConstantsAssumption DEF IInv, TypeOK, Index
  <2>2. k \in Index /\ k < i[r]
    BY <2>1, ConstantsAssumption DEF Index
  <2>3. Age(k) \in Int
    BY <2>1, <2>2, ConstantsAssumption DEF Index, Age
  <2> QED
    BY <1>1, <2>1, <2>2, <2>3 DEF IInv, ReadInv
<1> QED
  BY Invariance, <1>1, PTL

\* A rate is reported only over slots stored since counting began, but for
\* the oldest ones, at most as many as there were ticks before geiger_init.
THEOREM GateIsSufficient == Spec => []ReportsFilledWindow
<1>1. IInv => ReportsFilledWindow
  BY DEF IInv
<1> QED
  BY Invariance, <1>1, PTL

-----------------------------------------------------------------------------
(* The rates: what the loop of geiger_get_cpm has summed. *)

\* Induction, said of a set.
LEMMA SetInduction ==
  ASSUME NEW S, 0 \in S, \A n \in Nat : n \in S => n + 1 \in S
  PROVE  Nat \subseteq S
<1> DEFINE R == OpToRel(<, Nat)
           T == Nat \ S
<1>1. \A x, y \in Nat : x < y => <<x, y>> \in R
  BY DEF OpToRel
<1> SUFFICES ASSUME T # {} PROVE FALSE
  OBVIOUS
<1>2. IsWellFoundedOn(R, Nat)
  BY NatLessThanWellFounded, Zenon
<1>3. T \subseteq Nat
  OBVIOUS
<1> HIDE DEF R
<1>4. \E x \in T : \A y \in T : ~ (<<y, x>> \in R)
  BY <1>2, <1>3, WFMin
<1>5. PICK x \in T : \A y \in T : ~ (<<y, x>> \in R)
  BY <1>4
<1>6. x # 0 /\ x \in Nat
  BY <1>5
<1>7. x - 1 \in Nat /\ x - 1 < x
  BY <1>6
<1>8. x - 1 \in S
  BY <1>1, <1>5, <1>6, <1>7
<1>9. (x - 1) + 1 = x
  BY <1>6
<1> QED
  BY <1>5, <1>7, <1>8, <1>9

\* Division has one remainder.
LEMMA RemainderIs ==
  ASSUME NEW m \in Nat \ {0}, NEW x \in Int, NEW q \in Int, NEW s \in 0 .. m - 1,
         x = m * q + s
  PROVE  x % m = s
<1> DEFINE d == q - x \div m
<1>1. x = m * (x \div m) + (x % m) /\ x \div m \in Int /\ x % m \in 0 .. m - 1
  OBVIOUS
<1>2. d \in Int /\ m * d = m * q - m * (x \div m)
  BY <1>1
<1>3. m * d = (x % m) - s
  <2>1. m * q \in Int /\ m * (x \div m) \in Int /\ m * d \in Int
    BY <1>1, <1>2
  <2> HIDE DEF d
  <2> QED
    BY <1>1, <1>2, <2>1
<1> HIDE DEF d
<1>4. ~(d >= 1)
  <2> SUFFICES ASSUME d >= 1 PROVE FALSE
    OBVIOUS
  <2>1. m * d >= m
    BY <1>2
  <2> QED
    BY <1>1, <1>2, <1>3, <2>1
<1>5. ~(d <= -1)
  <2> SUFFICES ASSUME d <= -1 PROVE FALSE
    OBVIOUS
  <2>1. m * d <= -m
    BY <1>2
  <2> QED
    BY <1>1, <1>2, <1>3, <2>1
<1>6. d = 0
  BY <1>2, <1>4, <1>5
<1> QED
  BY <1>1, <1>3, <1>6

\* A sum that wraps at every step is the sum, wrapped once.
LEMMA ModStep ==
  ASSUME NEW m \in Nat \ {0}, NEW a \in Nat, NEW b \in 0 .. m - 1
  PROVE  ((a % m) + b) % m = (a + b) % m
<1> DEFINE q == a \div m
           r == a % m
<1>1. a = m * q + r /\ q \in Int /\ r \in 0 .. m - 1 /\ m * q \in Int
  OBVIOUS
<1> HIDE DEF q, r
<1>2. CASE r + b < m
  <2>1. a + b = m * q + (r + b) /\ r + b \in 0 .. m - 1
    BY <1>1, <1>2
  <2>2. r + b = m * 0 + (r + b)
    BY <1>1
  <2>3. (a + b) % m = r + b /\ (r + b) % m = r + b
    BY <1>1, <2>1, <2>2, RemainderIs
  <2> QED
    BY <2>3 DEF r
<1>3. CASE r + b >= m
  <2> DEFINE s == r + b - m
  <2>1. s \in 0 .. m - 1
    BY <1>1, <1>3
  <2>2. a + b = m * (q + 1) + s /\ q + 1 \in Int /\ a + b \in Int
    BY <1>1
  <2>3. r + b = m * 1 + s /\ r + b \in Int
    BY <1>1
  <2> HIDE DEF s
  <2>4. (a + b) % m = s
    BY <2>1, <2>2, RemainderIs
  <2>5. (r + b) % m = s
    BY <2>1, <2>3, RemainderIs
  <2> QED
    BY <2>4, <2>5 DEF r
<1> QED
  BY <1>1, <1>2, <1>3

\* The totals of a ring are what their definition says.
LEMMA TotalsEquation ==
  ASSUME NEW ring \in Ring
  PROVE  /\ Totals(ring) \in [0 .. Slots -> Nat]
         /\ Totals(ring)[0] = 0
         /\ \A k \in Index : Totals(ring)[k + 1] = Totals(ring)[k] + ring[k]
<1> USE ConstantsAssumption
<1> DEFINE Eq(f, n) == f = [k \in 0 .. n |-> IF k = 0 THEN 0 ELSE f[k - 1] + ring[k - 1]]
           S == {n \in Nat : n <= Slots => \E f : f \in [0 .. n -> Nat] /\ Eq(f, n)}
<1>1. 0 \in S
  <2>1. [k \in 0 .. 0 |-> 0] \in [0 .. 0 -> Nat] /\ Eq([k \in 0 .. 0 |-> 0], 0)
    OBVIOUS
  <2> QED
    BY <2>1
<1>2. ASSUME NEW n \in Nat, n \in S PROVE n + 1 \in S
  <2> SUFFICES ASSUME n + 1 <= Slots
               PROVE  \E g : g \in [0 .. n + 1 -> Nat] /\ Eq(g, n + 1)
    OBVIOUS
  <2>1. PICK f : f \in [0 .. n -> Nat] /\ Eq(f, n)
    BY <1>2
  <2> DEFINE g == [k \in 0 .. n + 1 |-> IF k = n + 1 THEN f[n] + ring[n] ELSE f[k]]
  <2>2. ring[n] \in Nat /\ f[n] \in Nat
    BY <2>1 DEF Ring, Index, Count
  <2>3. g \in [0 .. n + 1 -> Nat]
    BY <2>1, <2>2
  <2>4. ASSUME NEW k \in 0 .. n + 1
        PROVE  g[k] = IF k = 0 THEN 0 ELSE g[k - 1] + ring[k - 1]
    <3>1. CASE k = n + 1
      BY <3>1
    <3>2. CASE k = 0
      BY <2>1, <3>2
    <3>3. CASE k \in 1 .. n
      <4>1. g[k] = f[k] /\ g[k - 1] = f[k - 1]
        BY <3>3
      <4>2. f[k] = f[k - 1] + ring[k - 1]
        BY <2>1, <3>3
      <4> QED
        BY <3>3, <4>1, <4>2
    <3> QED
      BY <3>1, <3>2, <3>3
  <2>5. Eq(g, n + 1)
    BY <2>4
  <2> QED
    BY <2>3, <2>5
<1>3. \A n \in Nat : n \in S => n + 1 \in S
  BY <1>2
<1>4. Slots \in S
  <2> HIDE DEF S
  <2>1. Nat \subseteq S
    BY <1>1, <1>3, SetInduction
  <2> QED
    BY <2>1
<1>5. Eq(Totals(ring), Slots)
  <2>1. \E f : Eq(f, Slots)
    BY <1>4
  <2>2. Totals(ring) = CHOOSE f : Eq(f, Slots)
    BY Zenon DEF Totals
  <2> HIDE DEF Eq
  <2> QED
    BY <2>1, <2>2, Zenon
<1>6. /\ Totals(ring)[0] = 0
      /\ \A k \in Index : Totals(ring)[k + 1] = Totals(ring)[k] + ring[k]
  BY <1>5 DEF Index
<1> DEFINE T == {n \in Nat : n <= Slots => Totals(ring)[n] \in Nat}
<1>7. 0 \in T /\ \A n \in Nat : n \in T => n + 1 \in T
  BY <1>6 DEF Index, Ring, Count
<1>8. Nat \subseteq T
  <2> HIDE DEF T
  <2> QED
    BY <1>7, SetInduction
<1> QED
  BY <1>5, <1>6, <1>8

\* A total depends on the slots it sums and no others.
LEMMA TotalsAgree ==
  ASSUME NEW a \in Ring, NEW b \in Ring, NEW n \in 0 .. Slots,
         \A k \in 0 .. n - 1 : a[k] = b[k]
  PROVE  Totals(a)[n] = Totals(b)[n]
<1> DEFINE S == {m \in Nat : m <= n => Totals(a)[m] = Totals(b)[m]}
<1>1. 0 \in S /\ \A m \in Nat : m \in S => m + 1 \in S
  BY ConstantsAssumption, TotalsEquation DEF Index
<1>2. Nat \subseteq S
  <2> HIDE DEF S
  <2> QED
    BY <1>1, SetInduction
<1> QED
  BY <1>2

\* The sum of a reader is that of the slots it has read.
SumInv ==
  \A r \in Readers : result[r] = Totals(seen[r])[i[r]] % U16

LEMMA SumInit == Init => SumInv
<1> SUFFICES ASSUME Init, NEW r \in Readers PROVE result[r] = Totals(seen[r])[i[r]] % U16
  BY DEF SumInv
<1>1. EmptyRing \in Ring
  BY ConstantsAssumption DEF EmptyRing, Ring, Index, Count
<1>2. Totals(EmptyRing)[0] = 0
  BY <1>1, TotalsEquation
<1> QED
  BY <1>2, ConstantsAssumption DEF Init

\* One turn of the loop adds the slot it reads.
LEMMA SumReadSlot ==
  ASSUME NEW r \in Readers, IInv, SumInv, ReadSlot(r)
  PROVE  SumInv'
<1> USE ConstantsAssumption
<1> DEFINE p == geiger_pulses[i[r]]
           t == Totals(seen[r])[i[r]]
<1>1. /\ i[r] \in Index /\ p \in Count
      /\ seen[r] \in Ring /\ seen'[r] \in Ring
      /\ seen'[r] = [seen[r] EXCEPT ![i[r]] = p]
      /\ i'[r] = i[r] + 1
      /\ result'[r] = (result[r] + p) % U16
      /\ result[r] = t % U16
  BY DEF ReadSlot, IInv, TypeOK, Index, Ring, SumInv
<1>2. \A q \in Readers \ {r} : /\ result'[q] = result[q]
                               /\ seen'[q] = seen[q] /\ i'[q] = i[q]
  BY DEF ReadSlot, IInv, TypeOK
<1>3. Totals(seen'[r])[i[r] + 1] = t + p
  <2>1. /\ seen'[r][i[r]] = p
        /\ \A k \in 0 .. i[r] - 1 : seen'[r][k] = seen[r][k]
    BY <1>1 DEF Index, Ring
  <2>2. i[r] \in 0 .. Slots
    BY <1>1 DEF Index
  <2>3. Totals(seen'[r])[i[r]] = t
    BY ONLY <1>1, <2>1, <2>2, TotalsAgree
  <2>4. Totals(seen'[r])[i[r] + 1] = Totals(seen'[r])[i[r]] + seen'[r][i[r]]
    BY <1>1, TotalsEquation
  <2> QED
    BY <2>1, <2>3, <2>4
<1>4. t \in Nat
  <2>1. i[r] \in 0 .. Slots
    BY <1>1 DEF Index
  <2>2. seen[r] \in Ring
    BY <1>1
  <2>3. \A k \in 0 .. Slots : Totals(seen[r])[k] \in Nat
    BY ONLY <2>2, TotalsEquation
  <2> QED
    BY ONLY <2>1, <2>3
<1>5. result'[r] = Totals(seen'[r])[i'[r]] % U16
  <2> HIDE DEF p, t
  <2>1. ((t % U16) + p) % U16 = (t + p) % U16
    BY <1>1, <1>4, ModStep DEF Count
  <2> QED
    BY <1>1, <1>3, <2>1
<1> QED
  BY <1>2, <1>5 DEF SumInv

LEMMA SumStep == IInv /\ SumInv /\ [Next]_vars => SumInv'
<1> SUFFICES ASSUME IInv, SumInv, [Next]_vars PROVE SumInv'
  OBVIOUS
<1>1. CASE UNCHANGED <<i, result, seen>>
  BY <1>1 DEF SumInv
<1>2. ASSUME NEW r \in Readers, ReadEnd(r) PROVE SumInv'
  <2>1. EmptyRing \in Ring
    BY ConstantsAssumption DEF EmptyRing, Ring, Index, Count
  <2>2. Totals(EmptyRing)[0] = 0
    BY <2>1, TotalsEquation
  <2>3. \A q \in Readers :
          IF q = r THEN i'[q] = 0 /\ result'[q] = 0 /\ seen'[q] = EmptyRing
                   ELSE i'[q] = i[q] /\ result'[q] = result[q] /\ seen'[q] = seen[q]
    BY <1>2 DEF ReadEnd, IInv, TypeOK
  <2>4. 0 % U16 = 0
    BY ConstantsAssumption
  <2> QED
    BY <2>2, <2>3, <2>4 DEF SumInv
<1>3. ASSUME NEW r \in Readers, ReadStart(r) \/ ReadSlot(r) \/ ReadEnd(r) PROVE SumInv'
  BY <1>1, <1>2, <1>3, SumReadSlot DEF ReadStart
<1> QED
  BY <1>1, <1>3 DEF Next, Pulse, Tick, GeigerInit, vars, reader

\* The slots add up to the same in the order of their age as in that of the
\* ring, wherever the index is.
LEMMA WindowTotal ==
  ASSUME geiger_pulses \in Ring, geiger_pulses_index \in Index
  PROVE  Window!Totals[Slots] = Totals(geiger_pulses)[Slots]
<1> USE ConstantsAssumption
<1> DEFINE x == geiger_pulses_index
           t == Totals(geiger_pulses)
           recent == [k \in 1 .. Slots |-> geiger_pulses[SlotOf(k)]]
           f == [k \in 0 .. Slots |-> IF k <= x THEN t[x] - t[x - k]
                                                ELSE t[x] + t[Slots] - t[x - k + Slots]]
           Eq(g) == g = [k \in 0 .. Slots |-> IF k = 0 THEN 0 ELSE g[k - 1] + recent[k]]
           w == Window!Totals
<1>1. /\ t[0] = 0
      /\ \A k \in 0 .. Slots : t[k] \in Nat
      /\ \A k \in Index : t[k + 1] = t[k] + geiger_pulses[k]
  BY TotalsEquation
<1>2. x \in 0 .. Slots - 1
  BY DEF Index
<1> HIDE DEF x, t
<1>3. ASSUME NEW k \in 1 .. Slots PROVE f[k] = f[k - 1] + recent[k]
  <2>1. CASE k <= x
    <3>1. /\ recent[k] = geiger_pulses[x - k] /\ x - k \in Index
      BY <1>2, <2>1 DEF SlotOf, x, Index
    <3>2. t[x - k + 1] = t[x - k] + geiger_pulses[x - k] /\ x - (k - 1) = x - k + 1
      BY <1>1, <1>2, <2>1, <3>1
    <3>3. f[k] = t[x] - t[x - k] /\ f[k - 1] = t[x] - t[x - k + 1]
      BY <1>2, <2>1, <3>2
    <3>4. t[x] \in Nat /\ t[x - k] \in Nat /\ geiger_pulses[x - k] \in Nat
      BY <1>1, <1>2, <2>1, <3>1 DEF Ring, Count
    <3> HIDE DEF f, recent
    <3> QED
      BY ONLY <3>1, <3>2, <3>3, <3>4
  <2>2. CASE k > x
    <3>1. /\ recent[k] = geiger_pulses[x - k + Slots] /\ x - k + Slots \in Index
      BY <1>2, <2>2 DEF SlotOf, x, Index
    <3>2. t[x - k + Slots + 1] = t[x - k + Slots] + geiger_pulses[x - k + Slots]
      BY <1>1, <3>1
    <3>3. f[k] = t[x] + t[Slots] - t[x - k + Slots]
      BY <1>2, <2>2
    <3>4. f[k - 1] = t[x] + t[Slots] - t[x - k + Slots + 1]
      <4>1. CASE k = x + 1
        BY <1>1, <1>2, <4>1
      <4>2. CASE k > x + 1
        <5>1. x - (k - 1) + Slots = x - k + Slots + 1
          BY <1>2
        <5> QED
          BY <1>2, <4>2, <5>1
      <4> QED
        BY <1>2, <2>2, <4>1, <4>2
    <3>5. /\ t[x] \in Nat /\ t[Slots] \in Nat /\ t[x - k + Slots] \in Nat
          /\ geiger_pulses[x - k + Slots] \in Nat
      BY <1>1, <1>2, <2>2, <3>1 DEF Ring, Count, Index
    <3> HIDE DEF f, recent
    <3> QED
      BY ONLY <3>1, <3>2, <3>3, <3>4, <3>5
  <2> QED
    BY <1>2, <2>1, <2>2
<1>4. f[0] = 0 /\ f[Slots] = t[Slots]
  BY <1>1, <1>2
<1>5. Eq(f)
  <2> HIDE DEF recent
  <2>1. \A k \in 0 .. Slots : f[k] = IF k = 0 THEN 0 ELSE f[k - 1] + recent[k]
    BY <1>3, <1>4
  <2>2. f = [k \in 0 .. Slots |-> f[k]]
    OBVIOUS
  <2> HIDE DEF f
  <2> QED
    BY <2>1, <2>2, Zenon
<1>6. Eq(w)
  <2>1. w = CHOOSE g : Eq(g)
    BY Zenon DEF Window!Totals
  <2> HIDE DEF Eq, f, w
  <2> QED
    BY <1>5, <2>1, Zenon
<1> DEFINE S == {n \in Nat : n <= Slots => w[n] = f[n]}
<1>7. 0 \in S /\ \A n \in Nat : n \in S => n + 1 \in S
  <2> HIDE DEF f, recent, w
  <2>1. w[0] = 0 /\ \A k \in 1 .. Slots : w[k] = w[k - 1] + recent[k]
    BY <1>6
  <2> QED
    BY <1>3, <1>4, <2>1
<1>8. Nat \subseteq S
  <2> HIDE DEF S
  <2> QED
    BY <1>7, SetInduction
<1>9. w[Slots] = f[Slots]
  <2> HIDE DEF f, w
  <2> QED
    BY <1>8
<1> QED
  BY <1>4, <1>9 DEF t

\* A rate that geiger_get_cpm returns is the total of one window, as much of
\* it as a uint16_t can tell, when at most one second ended during the read;
\* when none did, it is the pulses of the last Slots seconds.
THEOREM RateIsOfOneWindow == Spec => []CpmIsSomeWindow
<1>1. ASSUME IInv, SumInv, ReadIsAtomic PROVE CpmIsSomeWindow
  <2> SUFFICES ASSUME NEW r \in reading, i[r] = Slots
               PROVE  /\ ticks[r] <= 1 => result[r] \in {CpmOf(snap[r]), CpmOf(geiger_pulses)}
                      /\ ticks[r] = 0 => result[r] = Window!Totals[Slots] % U16
    BY DEF CpmIsSomeWindow
  <2>1. result[r] = CpmOf(seen[r])
    BY <1>1 DEF IInv, TypeOK, SumInv, CpmOf
  <2>2. ticks[r] <= 1 => seen[r] \in {snap[r], geiger_pulses}
    BY <1>1 DEF ReadIsAtomic
  <2>3. ticks[r] = 0 => snap[r] = geiger_pulses
    <3> SUFFICES ASSUME ticks[r] = 0 PROVE snap[r] = geiger_pulses
      OBVIOUS
    <3>1. /\ r \in Readers /\ snap[r] \in Ring /\ geiger_pulses \in Ring
          /\ geiger_pulses_index \in Index
      BY <1>1 DEF IInv, TypeOK
    <3>2. \A k \in Index : Age(k) >= ticks[r] /\ 0 <= Slots
      BY <3>1, ConstantsAssumption DEF Age, Index
    <3>3. \A k \in Index : snap[r][k] = geiger_pulses[k]
      BY <1>1, <3>1, <3>2 DEF IInv, ReadInv
    <3> QED
      BY <3>1, <3>3 DEF Ring
  <2>4. CpmOf(geiger_pulses) = Window!Totals[Slots] % U16
    <3>1. Window!Totals[Slots] = Totals(geiger_pulses)[Slots]
      BY <1>1, WindowTotal DEF IInv, TypeOK
    <3> QED
      BY <3>1, Zenon DEF CpmOf
  <2> QED
    BY <2>1, <2>2, <2>3, <2>4
<1> QED
  BY <1>1, SumInit, SumStep, Invariance, ReadAtomic, PTL DEF Spec

-----------------------------------------------------------------------------
(* The ring is a sliding window. *)

\* The slot stored by a tick becomes the newest of the window, and each other
\* one is a second further back.
LEMMA SlotShift ==
  ASSUME geiger_pulses_index \in Index, StoreSecond, NEW k \in 1 .. Slots
  PROVE  /\ SlotOf(k) \in Index
         /\ k = 1 => SlotOf(k)' = geiger_pulses_index
         /\ k # 1 => SlotOf(k)' = SlotOf(k - 1) /\ SlotOf(k)' # geiger_pulses_index
BY ConstantsAssumption, IndexStep DEF StoreSecond, Index, SlotOf

\* The ring buffer of geiger.c implements the window of SlidingWindow: every
\* action is a pulse, the end of a second, or none of its business.
THEOREM Refinement == Spec => ImplementsWindow
<1> USE ConstantsAssumption
<1>1. Init => Window!Init
  <2> SUFFICES ASSUME Init PROVE Window!Init
    OBVIOUS
  <2>1. \A k \in 1 .. Slots : SlotOf(k) \in Index
    BY DEF Init, Index, SlotOf
  <2> QED
    BY <2>1 DEF Init, Window!Init, EmptyRing
<1>2. IInv /\ [Next]_vars => [Window!Next]_(Window!wvars)
  <2> SUFFICES ASSUME IInv, [Next]_vars PROVE [Window!Next]_(Window!wvars)
    OBVIOUS
  <2>1. CASE Pulse
    BY <2>1 DEF Pulse, Window!Next, Window!Count, SlotOf
  <2>2. CASE Tick
    <3>1. StoreSecond /\ geiger_pulses_index \in Index /\ geiger_pulses \in Ring
      BY <2>2 DEF Tick, IInv, TypeOK
    <3>2. \A k \in 1 .. Slots :
            geiger_pulses'[SlotOf(k)'] = IF k = 1 THEN pulses ELSE geiger_pulses[SlotOf(k - 1)]
      <4> SUFFICES ASSUME NEW k \in 1 .. Slots
                   PROVE  geiger_pulses'[SlotOf(k)'] =
                            IF k = 1 THEN pulses ELSE geiger_pulses[SlotOf(k - 1)]
        OBVIOUS
      <4>1. CASE k = 1
        BY <3>1, <4>1, SlotShift DEF StoreSecond, Ring
      <4>2. CASE k # 1
        <5>1. k - 1 \in 1 .. Slots
          BY <4>2
        <5>2. SlotOf(k - 1) \in Index
          BY <3>1, <5>1, SlotShift
        <5> QED
          BY <3>1, <4>2, <5>2, SlotShift DEF StoreSecond, Ring
      <4> QED
        BY <4>1, <4>2
    <3>3. Window!EndSecond
      <4>1. \A k \in 1 .. Slots : k # 1 => k - 1 \in 1 .. Slots
        OBVIOUS
      <4> QED
        BY <3>1, <3>2, <4>1 DEF StoreSecond, Window!EndSecond
    <3> QED
      BY <3>3 DEF Window!Next
  <2>3. CASE GeigerInit
    <3>1. geiger_pulses' = geiger_pulses
      BY <2>3 DEF GeigerInit, IInv, BootInv
    <3> QED
      BY <2>3, <3>1 DEF GeigerInit, Window!wvars, SlotOf
  <2>4. CASE UNCHANGED <<pulses, geiger_pulses, geiger_pulses_index>>
    BY <2>4 DEF Window!wvars, SlotOf
  <2>5. ASSUME NEW r \in Readers, ReadStart(r) \/ ReadSlot(r) \/ ReadEnd(r)
        PROVE  UNCHANGED <<pulses, geiger_pulses, geiger_pulses_index>>
    BY <2>5 DEF ReadStart, ReadSlot, ReadEnd, counter
  <2>6. CASE UNCHANGED vars
    BY <2>4, <2>6 DEF vars, counter
  <2> QED
    BY <2>1, <2>2, <2>3, <2>4, <2>5, <2>6 DEF Next
<1> QED
  BY <1>1, <1>2, Invariance, PTL DEF Spec, ImplementsWindow, Window!Spec
=============================================================================
