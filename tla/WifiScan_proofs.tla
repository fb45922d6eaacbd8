-------------------------- MODULE WifiScan_proofs --------------------------
(***************************************************************************)
(* Proofs about WifiScan, for a heap and scans of any size: what holds     *)
(* however the tasks interleave, and what holds of a scan whose callbacks  *)
(* run to their end, whatever happened in the scans before it.             *)
(***************************************************************************)
EXTENDS WifiScan, TLAPS

\* The pointer leads to a list, but between free and the assignment after it.
PointerInv == timer # "clear" => ap_info \in live \cup {NULL}

-----------------------------------------------------------------------------
(* However the tasks interleave *)

\* What a step notes, and that a step that notes nothing was one's turn.
LEMMA Notes ==
  /\ TimerTurn \/ EventTurn \/ OthersTurn => overlapped' \in BOOLEAN
  /\ TimerTurn /\ ~overlapped' => ~overlapped /\ event = "idle" /\ ~done
  /\ EventTurn /\ ~overlapped' => ~overlapped /\ timer = "idle"
  /\ OthersTurn /\ ~overlapped' => ~overlapped /\ timer = "idle" /\ event = "idle"
BY Zenon DEF Note, NoEvent, TimerTurn, EventTurn, OthersTurn

LEMMA TypeOKInit == Init => TypeOK
<1> SUFFICES ASSUME Init PROVE TypeOK
  OBVIOUS
<1>1. 0 \in 0 .. MaxAps
  BY ConstantsAssumption
<1>2. Empty \in [room : 0 .. MaxAps, filled : BOOLEAN]
  BY <1>1 DEF Empty
<1> QED
  BY <1>1, <1>2 DEF Init, TypeOK

LEMMA TypeOKNext == TypeOK /\ [Next]_vars => TypeOK'
<1> SUFFICES ASSUME TypeOK, [Next]_vars PROVE TypeOK'
  OBVIOUS
<1> USE DEF shared, heap, driver, tasks
<1>0. 0 \in 0 .. MaxAps /\ Empty \in [room : 0 .. MaxAps, filled : BOOLEAN]
  BY ConstantsAssumption DEF Empty
<1>1. CASE ScanTimer \/ ClearPointer \/ RaiseFlag
  <2>1. overlapped' \in BOOLEAN
    BY <1>1, Notes, Zenon DEF ScanTimer, NoEvent, ClearPointer, RaiseFlag
  <2>2. CASE ScanTimer
    BY <2>1, <2>2 DEF TypeOK, ScanTimer
  <2>3. CASE ClearPointer
    BY <2>1, <2>3 DEF TypeOK, ClearPointer
  <2>4. CASE RaiseFlag
    BY <2>1, <2>4 DEF TypeOK, RaiseFlag
  <2> QED
    BY <1>1, <2>2, <2>3, <2>4
<1>11. CASE StartScan
  <2>1. refused' \in BOOLEAN /\ overlapped' \in BOOLEAN
    BY <1>11, Notes, Zenon DEF StartScan
  <2>2. /\ radio' \in {"idle", "scanning"} /\ timer' = "flag"
        /\ UNCHANGED <<shared, heap, armed, done, found, event, httpd, i>>
    BY <1>11 DEF TypeOK, StartScan
  <2> QED
    BY <2>1, <2>2 DEF TypeOK
<1>2. CASE FreeList
  <2>1. block' \in [Blocks -> [room : 0 .. MaxAps, filled : BOOLEAN]]
    BY <1>0, <1>2 DEF TypeOK, FreeList
  <2> QED
    BY <1>2, <2>1, Notes DEF TypeOK, FreeList
<1>3. CASE ScanEnd \/ CountAps
  <2>1. overlapped' \in BOOLEAN
    BY <1>3, Notes, Zenon DEF ScanEnd, CountAps
  <2>2. CASE ScanEnd
    BY <2>1, <2>2 DEF TypeOK, ScanEnd
  <2>3. CASE CountAps
    BY <2>1, <2>3 DEF TypeOK, CountAps
  <2> QED
    BY <1>3, <2>2, <2>3
<1>4. CASE AllocList
  <2>1. CASE UNCHANGED <<live, block>> /\ ap_info' = NULL /\ event' = "idle" /\ nomem' = TRUE
    BY <1>4, <2>1, Notes DEF TypeOK, AllocList
  <2>2. ASSUME NEW b \in Blocks \ live,
               ap_info' = b, live' = live \cup {b}, event' = "records", nomem' = FALSE,
               block' = [block EXCEPT ![b] = [room |-> ap_count, filled |-> FALSE]]
        PROVE  TypeOK'
    <3>1. block' \in [Blocks -> [room : 0 .. MaxAps, filled : BOOLEAN]]
      BY <2>2 DEF TypeOK
    <3> QED
      BY <1>4, <2>2, <3>1, Notes DEF TypeOK, AllocList
  <2> QED
    BY <1>4, <2>1, <2>2 DEF AllocList
<1>5. CASE FetchRecords
  <2>1. block' \in [Blocks -> [room : 0 .. MaxAps, filled : BOOLEAN]]
    BY <1>5 DEF TypeOK, FetchRecords
  <2>2. ap_count' \in 0 .. MaxAps
    BY <1>5, ConstantsAssumption DEF TypeOK, FetchRecords
  <2> QED
    BY <1>5, <2>1, <2>2, Notes DEF TypeOK, FetchRecords
<1>6. CASE ScanAbort
  <2>1. block' \in [Blocks -> [room : 0 .. MaxAps, filled : BOOLEAN]]
    BY <1>0, <1>6 DEF ScanAbort
  <2> QED
    BY <1>0, <1>6, <2>1 DEF TypeOK, ScanAbort
<1>7. CASE GetList \/ ListEnd \/ SendList \/ ArmScan
  <2>1. httpd' \in {"idle", "list", "send", "arm"} /\ i' \in 0 .. MaxAps
    BY <1>0, <1>7 DEF TypeOK, GetList, ListEnd, SendList, ArmScan
  <2>2. /\ armed' \in BOOLEAN /\ overlapped' \in BOOLEAN
        /\ UNCHANGED <<scanInProgress, ap_count, ap_info, live, block, nomem, radio, done,
                      found, refused, timer, event>>
    BY <1>7, Notes DEF TypeOK, GetList, ListEnd, SendList, ArmScan
  <2> QED
    BY <2>1, <2>2 DEF TypeOK
<1>8. CASE ListRecord
  <2>1. i' \in 0 .. MaxAps
    BY <1>8, ConstantsAssumption DEF TypeOK, ListRecord
  <2> QED
    BY <1>8, <2>1, Notes DEF TypeOK, ListRecord
<1>9. CASE RadioDone
  BY <1>9, Notes DEF TypeOK, RadioDone
<1>10. CASE UNCHANGED vars
  BY <1>10 DEF TypeOK, vars
<1> QED
  BY <1>1, <1>2, <1>3, <1>4, <1>5, <1>6, <1>7, <1>8, <1>9, <1>10, <1>11
  DEF Next, TimerStep, EventStep, HttpdStep

LEMMA PointerNext == TypeOK /\ PointerInv /\ [Next]_vars => PointerInv'
<1> SUFFICES ASSUME TypeOK, PointerInv, [Next]_vars PROVE PointerInv'
  OBVIOUS
<1> USE DEF PointerInv, shared, heap, driver, tasks
<1>1. CASE TimerStep
  BY <1>1 DEF TimerStep, ScanTimer, FreeList, ClearPointer, StartScan, RaiseFlag
\* A list that is allocated meanwhile saves the pointer that ClearPointer drops.
<1>2. CASE EventStep
  BY <1>2 DEF EventStep, ScanEnd, CountAps, AllocList, FetchRecords, ScanAbort
<1>3. CASE HttpdStep
  BY <1>3 DEF HttpdStep, GetList, ListRecord, ListEnd, SendList, ArmScan
<1>4. CASE RadioDone
  BY <1>4 DEF RadioDone
<1>5. CASE UNCHANGED vars
  BY <1>5 DEF vars
<1> QED
  BY <1>1, <1>2, <1>3, <1>4, <1>5 DEF Next

\* The variables of wificgi.c keep their types, and the loop of
\* constructAPsJSON its bound.
THEOREM TypeCorrect == Spec => []TypeOK
BY TypeOKInit, TypeOKNext, PTL DEF Spec

\* scan_timer_func frees a list once, whatever the event task does meanwhile.
THEOREM FreedOnce == Spec => []NoDoubleFree
<1>1. Init => PointerInv
  BY DEF Init, PointerInv
<1>2. PointerInv => NoDoubleFree
  BY DEF PointerInv, NoDoubleFree
<1> QED
  BY <1>1, <1>2, TypeCorrect, PointerNext, PTL DEF Spec

-----------------------------------------------------------------------------
(* A scan whose callbacks run to their end *)

\* A callback has begun, or an event waits, only while the others rest.
TurnInv ==
  /\ event # "idle" => timer = "idle"
  /\ done => timer = "idle" /\ event = "idle" /\ radio = "idle"
  /\ event # "idle" => radio = "idle"

\* The pointer is cleared before the scan starts, and stays so until there is
\* a list for it.
HeapInv ==
  /\ timer = "free" => ap_info # NULL
  /\ timer = "clear" => ap_info \notin live
  /\ timer \in {"start", "flag"} => ap_info = NULL
  /\ timer = "idle" /\ radio = "scanning" => ap_info = NULL
  /\ done \/ event \in {"count", "alloc"} => ap_info = NULL

\* The flag is up as long as a scan may come to replace the list.
FlagInv ==
  /\ done => scanInProgress = 1
  /\ radio = "scanning" => (scanInProgress = 1 \/ timer # "idle")
  /\ event \in {"alloc", "records"} => ap_count > 0
  /\ event = "records" => ap_info \in live /\ block[ap_info].room = ap_count

\* The list is complete, or being replaced, or there was no memory for it.
CompleteInv ==
  (~nomem /\ scanInProgress = 0 /\ timer = "idle" /\ event = "idle") => ListExists

CalmInv == ~overlapped => TurnInv /\ HeapInv /\ FlagInv /\ CompleteInv

QuietInv == TypeOK /\ PointerInv /\ CalmInv

\* Of the steps that leave the callbacks in order, two need not have found
\* them so: the timer that begins a scan, and the abort, from which the board
\* starts anew.
LEMMA CalmBefore ==
  ASSUME CalmInv, [Next]_vars, ~overlapped', ~ScanAbort, ~ScanTimer
  PROVE  TurnInv /\ HeapInv /\ FlagInv /\ CompleteInv
<1>1. ~overlapped
  <2> USE Notes
  <2>1. CASE TimerStep
    BY <2>1 DEF TimerStep, FreeList, ClearPointer, StartScan, RaiseFlag
  <2>2. CASE EventStep
    BY <2>2 DEF EventStep, ScanEnd, CountAps, AllocList, FetchRecords
  <2>3. CASE HttpdStep
    BY <2>3 DEF HttpdStep, GetList, ListRecord, ListEnd, SendList, ArmScan
  <2>4. CASE RadioDone
    BY <2>4 DEF RadioDone
  <2>5. CASE UNCHANGED vars
    BY <2>5 DEF vars
  <2> QED
    BY <2>1, <2>2, <2>3, <2>4, <2>5 DEF Next
<1> QED
  BY <1>1 DEF CalmInv

LEMMA TurnNext ==
  ASSUME TypeOK, CalmInv, [Next]_vars, ~overlapped', ~ScanAbort, ~ScanTimer
  PROVE  TurnInv'
<1> USE Notes DEF TurnInv, shared, heap, driver, tasks
<1>0. TurnInv
  BY CalmBefore
<1>1. CASE TimerStep
  BY <1>0, <1>1 DEF TimerStep, FreeList, ClearPointer, StartScan, RaiseFlag
<1>2. CASE EventStep
  BY <1>0, <1>2 DEF EventStep, ScanEnd, CountAps, AllocList, FetchRecords
<1>3. CASE HttpdStep
  BY <1>0, <1>3 DEF HttpdStep, GetList, ListRecord, ListEnd, SendList, ArmScan
<1>4. CASE RadioDone
  BY <1>0, <1>4 DEF RadioDone
<1>5. CASE UNCHANGED vars
  BY <1>0, <1>5 DEF vars
<1> QED
  BY <1>1, <1>2, <1>3, <1>4, <1>5 DEF Next

LEMMA HeapNext ==
  ASSUME TypeOK, CalmInv, [Next]_vars, ~overlapped', ~ScanAbort, ~ScanTimer
  PROVE  HeapInv'
<1> USE Notes DEF HeapInv, TurnInv, shared, heap, driver, tasks
<1>0. TurnInv /\ HeapInv /\ live \in SUBSET Blocks
  BY CalmBefore DEF TypeOK
<1>2. CASE FreeList
  BY <1>0, <1>2 DEF FreeList
<1>3. CASE ClearPointer
  BY <1>0, <1>3 DEF ClearPointer
<1>4. CASE StartScan
  BY <1>0, <1>4 DEF StartScan
<1>5. CASE RaiseFlag
  BY <1>0, <1>5 DEF RaiseFlag
<1>6. CASE ScanEnd \/ CountAps
  BY <1>0, <1>6 DEF ScanEnd, CountAps
<1>7. CASE AllocList
  BY <1>0, <1>7 DEF AllocList
<1>8. CASE FetchRecords
  BY <1>0, <1>8 DEF FetchRecords
<1>9. CASE HttpdStep
  BY <1>0, <1>9 DEF HttpdStep, GetList, ListRecord, ListEnd, SendList, ArmScan
<1>10. CASE RadioDone
  BY <1>0, <1>10 DEF RadioDone
<1>11. CASE UNCHANGED vars
  BY <1>0, <1>11 DEF vars
<1> QED
  BY <1>2, <1>3, <1>4, <1>5, <1>6, <1>7, <1>8, <1>9, <1>10, <1>11
  DEF Next, TimerStep, EventStep

LEMMA FlagNext ==
  ASSUME TypeOK, CalmInv, [Next]_vars, ~overlapped', ~ScanAbort, ~ScanTimer
  PROVE  FlagInv'
<1> USE Notes DEF FlagInv, HeapInv, TurnInv, shared, heap, driver, tasks
<1>0. TurnInv /\ HeapInv /\ FlagInv
  BY CalmBefore
<1>1. CASE TimerStep
  BY <1>0, <1>1 DEF TimerStep, FreeList, ClearPointer, StartScan, RaiseFlag
<1>2. CASE ScanEnd
  BY <1>0, <1>2 DEF ScanEnd
<1>3. CASE CountAps
  BY <1>0, <1>3 DEF CountAps, TypeOK
<1>4. CASE AllocList
  BY <1>0, <1>4 DEF AllocList, TypeOK
<1>5. CASE FetchRecords
  BY <1>0, <1>5 DEF FetchRecords
<1>6. CASE HttpdStep
  BY <1>0, <1>6 DEF HttpdStep, GetList, ListRecord, ListEnd, SendList, ArmScan
<1>7. CASE RadioDone
  BY <1>0, <1>7 DEF RadioDone
<1>8. CASE UNCHANGED vars
  BY <1>0, <1>8 DEF vars
<1> QED
  BY <1>1, <1>2, <1>3, <1>4, <1>5, <1>6, <1>7, <1>8 DEF Next, EventStep

LEMMA CompleteNext ==
  ASSUME TypeOK, CalmInv, [Next]_vars, ~overlapped', ~ScanAbort, ~ScanTimer
  PROVE  CompleteInv'
<1> USE Notes DEF CompleteInv, ListExists, shared, heap, driver, tasks
<1>0. TurnInv /\ HeapInv /\ FlagInv /\ CompleteInv
  BY CalmBefore
<1>1. CASE TimerStep
  BY <1>0, <1>1 DEF TypeOK, TimerStep, FreeList, ClearPointer, StartScan, RaiseFlag
<1>2. CASE ScanEnd
  BY <1>2 DEF ScanEnd
<1>3. CASE CountAps
  BY <1>0, <1>3 DEF CountAps, TypeOK
<1>4. CASE AllocList
  BY <1>0, <1>4 DEF AllocList
<1>5. CASE FetchRecords
  <2>1. ap_info \in live /\ block[ap_info].room = ap_count
    BY <1>0, <1>5 DEF FetchRecords, FlagInv
  <2>2. /\ ap_info' = ap_info /\ live' = live
        /\ block'[ap_info] = [room |-> ap_count, filled |-> TRUE]
    BY <1>5, <2>1 DEF FetchRecords, TypeOK
  <2>3. ap_count >= ap_count'
    BY <1>5, ConstantsAssumption DEF FetchRecords, TypeOK
  <2> QED
    BY <2>1, <2>2, <2>3
<1>6. CASE HttpdStep
  BY <1>0, <1>6 DEF HttpdStep, GetList, ListRecord, ListEnd, SendList, ArmScan
<1>7. CASE RadioDone
  BY <1>0, <1>7 DEF RadioDone
<1>8. CASE UNCHANGED vars
  BY <1>0, <1>8 DEF vars
<1> QED
  BY <1>1, <1>2, <1>3, <1>4, <1>5, <1>6, <1>7, <1>8 DEF Next, EventStep

\* A timer that finds no event begins a scan that knows nothing of the ones
\* before: that ap_info leads to a list or is NULL holds on its own.
LEMMA BeginsAnew ==
  ASSUME TypeOK, PointerInv, ScanTimer, ~overlapped'
  PROVE  TurnInv' /\ HeapInv' /\ FlagInv' /\ CompleteInv'
<1>1. /\ event' = "idle" /\ ~done'
      /\ timer' = (IF ap_info # NULL THEN "free" ELSE "start")
      /\ ap_info' = ap_info
  BY DEF ScanTimer, NoEvent, shared, driver
<1> QED
  BY <1>1 DEF TurnInv, HeapInv, FlagInv, CompleteInv

LEMMA CalmNext ==
  ASSUME TypeOK, PointerInv, CalmInv, [Next]_vars
  PROVE  CalmInv'
<1>1. CASE ScanAbort
  BY <1>1, ConstantsAssumption
  DEF ScanAbort, CalmInv, TurnInv, HeapInv, FlagInv, CompleteInv, ListExists
<1>2. CASE ScanTimer
  BY <1>2, BeginsAnew DEF CalmInv
<1>3. CASE ~ScanAbort /\ ~ScanTimer
  BY <1>3, TurnNext, HeapNext, FlagNext, CompleteNext DEF CalmInv
<1> QED
  BY <1>1, <1>2, <1>3

LEMMA QuietInvariance == Spec => []QuietInv
<1>1. Init => QuietInv
  BY TypeOKInit
  DEF Init, QuietInv, PointerInv, CalmInv, TurnInv, HeapInv, FlagInv, CompleteInv, ListExists
<1>2. QuietInv /\ [Next]_vars => QuietInv'
  BY TypeOKNext, PointerNext, CalmNext DEF QuietInv
<1> QED
  BY <1>1, <1>2, PTL DEF Spec

\* The heap changes in four steps only.
LEMMA LosingSteps ==
  ASSUME [Next]_vars
  PROVE  \/ FreeList \/ ClearPointer \/ AllocList \/ ScanAbort
         \/ UNCHANGED <<live, ap_info>>
<1> USE DEF shared, heap
<1>1. CASE ScanTimer \/ StartScan \/ RaiseFlag
  BY <1>1 DEF ScanTimer, StartScan, RaiseFlag
<1>2. CASE ScanEnd \/ CountAps \/ FetchRecords
  BY <1>2 DEF ScanEnd, CountAps, FetchRecords
<1>3. CASE HttpdStep \/ RadioDone
  BY <1>3 DEF HttpdStep, GetList, ListRecord, ListEnd, SendList, ArmScan, RadioDone
<1>4. CASE UNCHANGED vars
  BY <1>4 DEF vars
<1> QED
  BY <1>1, <1>2, <1>3, <1>4 DEF Next, TimerStep, EventStep

\* A list is lost only in a scan one of whose callbacks was interrupted,
\* whatever happened in the scans before.
THEOREM NothingLeaks == Spec => NoLeak
<1>1. QuietInv /\ [Next]_vars => [~overlapped' => live' \ {ap_info'} \subseteq live \ {ap_info}]_vars
  <2> SUFFICES ASSUME QuietInv, [Next]_vars, ~overlapped'
               PROVE  live' \ {ap_info'} \subseteq live \ {ap_info}
    OBVIOUS
  <2>0. live \in SUBSET Blocks /\ NULL \notin Blocks
    BY ConstantsAssumption DEF QuietInv, TypeOK
  <2>1. CASE FreeList
    BY <2>1 DEF FreeList, shared
  <2>2. CASE ClearPointer
    <3>1. ~ScanAbort /\ ~ScanTimer
      BY <2>2, Notes DEF ClearPointer, ScanTimer, ScanAbort
    <3> QED
      BY <2>2, <3>1, CalmBefore DEF QuietInv, ClearPointer, HeapInv, heap
  <2>3. CASE AllocList
    <3>1. event = "alloc" /\ ~ScanAbort /\ ~ScanTimer
      BY <2>3 DEF AllocList, ScanTimer, ScanAbort, tasks
    <3>2. ap_info = NULL
      BY <3>1, CalmBefore DEF QuietInv, HeapInv
    <3> QED
      BY <2>0, <2>3, <3>2 DEF AllocList
  <2>4. CASE ScanAbort
    BY <2>4 DEF ScanAbort
  <2>5. CASE UNCHANGED <<live, ap_info>>
    BY <2>5
  <2> QED
    BY <2>1, <2>2, <2>3, <2>4, <2>5, LosingSteps
<1> QED
  BY <1>1, QuietInvariance, PTL DEF Spec, NoLeak

\* A scan whose callbacks run to their end, and for whose list the heap has
\* room, leaves a list that is complete.
THEOREM ListsAreComplete == Spec => []ListWhenQuiet
<1>1. QuietInv => ListWhenQuiet
  BY DEF QuietInv, CalmInv, CompleteInv, ListWhenQuiet
<1> QED
  BY <1>1, QuietInvariance, PTL
=============================================================================
