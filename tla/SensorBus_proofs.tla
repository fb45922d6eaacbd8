-------------------------- MODULE SensorBus_proofs --------------------------
(***************************************************************************)
(* Proofs about SensorBus, for any number of readers and any period: the   *)
(* types, who is on the bus, what the control register of the DS3231 holds,*)
(* the time across restarts, what readers get, and that the semaphores are *)
(* never waited for in a circle.                                           *)
(***************************************************************************)
EXTENDS SensorBus, Ds3231Time, TLAPS

\* Where app_main goes from each of its steps.
LEMMA Steps ==
  /\ Following("hook") = "getFreq" /\ Following("getFreq") = "readFreq"
  /\ Following("readFreq") = "writeFreq" /\ Following("writeFreq") = "readWave"
  /\ Following("readWave") = "writeWave" /\ Following("writeWave") = "tickSemaphore"
  /\ Following("tickSemaphore") = "busSemaphore"
  /\ Following("busSemaphore") = "takeClock"
  /\ Following("takeClock") = "readClock" /\ Following("readClock") = "giveClock"
  /\ Following("giveClock") = "setTime" /\ Following("setTime") = "startSntp"
  /\ Following("startSntp") = "setZone" /\ Following("setZone") = "createTask"
  /\ Following("createTask") = "done"
BY DEF Following, InOrder

-----------------------------------------------------------------------------
(* Types *)

LEMMA TypeOKInit == Init => TypeOK
<1> SUFFICES ASSUME Init PROVE TypeOK
  OBVIOUS
<1>1. NoMeasurement \in Measurement /\ NoData \in Data
  BY DEF NoMeasurement, Measurement, NoData, Data
<1>2. copy \in [Readers -> Data] /\ 0 \in 0 .. Period + 1
  BY <1>1, ConstantsAssumption DEF Init, Fresh
<1> QED
  BY <1>1, <1>2 DEF Init, Fresh, TypeOK, BootLabels, TaskLabels, Times, Bits, PowerOnBits

LEMMA ResetTypes ==
  ASSUME TypeOK, NEW kept, Reset(kept)
  PROVE  TypeOK'
<1>1. NoMeasurement \in Measurement /\ NoData \in Data
  BY DEF NoMeasurement, Measurement, NoData, Data
<1>2. copy' \in [Readers -> Data] /\ 0 \in 0 .. Period + 1
  BY <1>1, ConstantsAssumption DEF Reset
<1>3. rtc' \in Times /\ failed' \in BOOLEAN /\ synced' \in BOOLEAN
  BY DEF Reset, TypeOK, Times
<1>4. read' \in [Readers -> {"idle", "take", "values", "timestamp", "give"}]
  BY DEF Reset
<1> QED
  BY <1>1, <1>2, <1>3, <1>4 DEF Reset, TypeOK, BootLabels, TaskLabels, Times

LEMMA AppMainTypes ==
  ASSUME TypeOK, AppMain
  PROVE  TypeOK'
<1> USE Steps DEF TypeOK, BootLabels, app, clock, time, semaphores, sensor, data,
                  readers, history
<1>1. CASE HookIsr
  BY <1>1 DEF HookIsr
<1>2. CASE ReadControl
  <2>1. failed' \in BOOLEAN /\ waveFailed' \in BOOLEAN /\ synced' \in BOOLEAN
    BY <1>2, Zenon DEF ReadControl, WaveFails
  <2>2. /\ flag' \in SUBSET Bits
        /\ UNCHANGED <<got, clock, time, hooked, semaphores, sntp, task, elapsed, sensor,
                      data, readers, bmeFailed, sure>>
    BY <1>2 DEF ReadControl, WaveFails
  <2>3. boot' \in BootLabels
    BY <1>2 DEF ReadControl
  <2> QED
    BY <2>1, <2>2, <2>3
<1>3. CASE WriteControl
  <2>1. failed' \in BOOLEAN /\ waveFailed' \in BOOLEAN /\ synced' \in BOOLEAN
    BY <1>3, Zenon DEF WriteControl, WaveFails
  <2>2. control' \in SUBSET Bits /\ flag' \in SUBSET Bits
    BY <1>3 DEF WriteControl, NewControl
  <2>3. UNCHANGED <<got, rtc, time, hooked, semaphores, sntp, task, elapsed, sensor, data,
                    readers, bmeFailed, sure>>
    BY <1>3 DEF WriteControl, WaveFails
  <2>4. boot' \in BootLabels
    BY <1>3 DEF WriteControl
  <2> QED
    BY <2>1, <2>2, <2>3, <2>4
<1>4. CASE CreateTickSemaphore
  <2>1. waveFailed' \in BOOLEAN
    BY <1>4, Zenon DEF CreateTickSemaphore
  <2>2. /\ boot' \in BootLabels /\ xSemaphore' = "empty"
        /\ UNCHANGED <<flag, got, clock, time, hooked, i2cSemaphore, bmeSemaphore, sntp,
                      task, elapsed, sensor, data, readers, failed, bmeFailed, synced,
                      sure>>
    BY <1>4 DEF CreateTickSemaphore
  <2> QED
    BY <2>1, <2>2
<1>5. CASE CreateBusSemaphore
  BY <1>5 DEF CreateBusSemaphore
<1>6. CASE TakeClock
  BY <1>6 DEF TakeClock
<1>7. CASE ReadClock
  <2>1. got' \in Times \cup {"none"}
    BY <1>7 DEF ReadClock, Times
  <2>2. sure' \in BOOLEAN /\ failed' \in BOOLEAN /\ synced' \in BOOLEAN
    BY <1>7, Zenon DEF ReadClock
  <2> QED
    BY <1>7, <2>1, <2>2 DEF ReadClock
<1>8. CASE GiveClock
  BY <1>8 DEF GiveClock
<1>9. CASE SetTime
  <2>1. sys' \in Times
    BY <1>9 DEF SetTime, Times
  <2> QED
    BY <1>9, <2>1 DEF SetTime
<1>10. CASE StartSntp
  BY <1>10 DEF StartSntp
<1>11. CASE SetZone
  BY <1>11 DEF SetZone
<1>12. CASE CreateTask
  BY <1>12 DEF CreateTask, TaskLabels
<1> QED
  BY <1>1, <1>2, <1>3, <1>4, <1>5, <1>6, <1>7, <1>8, <1>9, <1>10, <1>11, <1>12
  DEF AppMain

LEMMA SetupTypes ==
  ASSUME TypeOK, Setup
  PROVE  TypeOK'
<1> USE DEF TypeOK, TaskLabels, app, clock, time, semaphores, sensor, data, readers,
            history
<1>1. CASE TakeSetup
  BY <1>1 DEF TakeSetup, TaskTakesBus
<1>2. CASE BmeInit
  <2>1. NoMeasurement \in Measurement
    BY DEF NoMeasurement, Measurement
  <2>2. NoData \in Data
    BY <2>1 DEF NoData, Data
  <2>3. calibrated' \in BOOLEAN /\ bme_data_present' \in BOOLEAN
    BY <1>2, Zenon DEF BmeInit
  <2>4. /\ current_data' = NoData /\ bmeSemaphore' = "free" /\ task' = "chipId"
        /\ UNCHANGED <<app, clock, time, hooked, xSemaphore, i2cSemaphore, sntp, elapsed,
                      busy, sampling, tmp_data, readers, history>>
    BY <1>2 DEF BmeInit
  <2> QED
    BY <2>2, <2>3, <2>4
<1>3. CASE ChipId
  <2>1. bmeFailed' \in BOOLEAN
    BY <1>3, Zenon DEF ChipId, BmeFails
  <2>2. /\ task' \in {"reset", "giveSetup"}
        /\ UNCHANGED <<app, clock, time, hooked, semaphores, sntp, elapsed, sensor, data,
                      readers, failed, waveFailed, synced, sure>>
    BY <1>3 DEF ChipId, BmeFails
  <2> QED
    BY <2>1, <2>2
<1>4. CASE BmeReset
  <2>1. busy' \in BOOLEAN /\ sampling' \in BOOLEAN /\ bmeFailed' \in BOOLEAN
    BY <1>4, Zenon DEF BmeReset, BmeFails
  <2>2. /\ task' = "poll"
        /\ UNCHANGED <<app, clock, time, hooked, semaphores, sntp, elapsed, calibrated, data,
                      readers, failed, waveFailed, synced, sure>>
    BY <1>4 DEF BmeReset, BmeFails
  <2> QED
    BY <2>1, <2>2
<1>5. CASE Poll
  <2>1. bmeFailed' \in BOOLEAN
    BY <1>5, Zenon DEF Poll, BmeFails
  <2>2. /\ task' = "compensation"
        /\ UNCHANGED <<app, clock, time, hooked, semaphores, sntp, elapsed, sensor, data,
                      readers, failed, waveFailed, synced, sure>>
    BY <1>5 DEF Poll, BmeFails
  <2> QED
    BY <2>1, <2>2
<1>6. CASE ReadCompensation
  <2>1. calibrated' \in BOOLEAN /\ bmeFailed' \in BOOLEAN
    BY <1>6, Zenon DEF ReadCompensation, BmeFails
  <2>2. /\ task' = "sampling"
        /\ UNCHANGED <<app, clock, time, hooked, semaphores, sntp, elapsed, busy, sampling,
                      data, readers, failed, waveFailed, synced, sure>>
    BY <1>6 DEF ReadCompensation, BmeFails
  <2> QED
    BY <2>1, <2>2
<1>7. CASE SetSampling
  <2>1. sampling' \in BOOLEAN /\ bmeFailed' \in BOOLEAN
    BY <1>7, Zenon DEF SetSampling, BmeFails
  <2>2. /\ task' = "giveSetup"
        /\ UNCHANGED <<app, clock, time, hooked, semaphores, sntp, elapsed, busy, calibrated,
                      data, readers, failed, waveFailed, synced, sure>>
    BY <1>7 DEF SetSampling, BmeFails
  <2> QED
    BY <2>1, <2>2
<1>8. CASE GiveSetup
  BY <1>8 DEF GiveSetup
<1> QED
  BY <1>1, <1>2, <1>3, <1>4, <1>5, <1>6, <1>7, <1>8 DEF Setup

LEMMA UpdateTypes ==
  ASSUME TypeOK, Update
  PROVE  TypeOK'
<1> USE DEF TypeOK, TaskLabels, app, clock, time, semaphores, sensor, data, readers,
            history
<1>1. CASE AwaitSecond
  BY <1>1 DEF AwaitSecond
<1>2. CASE TakeUpdate
  BY <1>2 DEF TakeUpdate, TaskTakesBus
<1>3. CASE Measure
  <2>1. 1 - current_data.timestamp \in {0, 1}
    BY DEF Data
  <2>2. (calibrated /\ sampling) \in BOOLEAN
    BY Zenon
  <2>3. tmp_data' \in Measurement
    <3>1. CASE tmp_data' = [id |-> 1 - current_data.timestamp,
                            good |-> calibrated /\ sampling]
      BY <2>1, <2>2, <3>1 DEF Measurement
    <3>2. CASE tmp_data' = [id |-> 1 - current_data.timestamp, good |-> FALSE]
      BY <2>1, <3>2 DEF Measurement
    <3> QED
      BY <1>3, <3>1, <3>2 DEF Measure
  <2>4. bmeFailed' \in BOOLEAN
    BY <1>3, Zenon DEF Measure, BmeFails
  <2>5. /\ task' = "takeData"
        /\ UNCHANGED <<app, clock, time, hooked, semaphores, sntp, elapsed, sensor,
                      current_data, bme_data_present, readers, failed, waveFailed,
                      synced, sure>>
    BY <1>3 DEF Measure, BmeFails
  <2> QED
    BY <2>3, <2>4, <2>5
<1>4. CASE TakeData
  BY <1>4 DEF TakeData
<1>5. CASE StoreValues
  <2>1. current_data' \in Data
    BY <1>5 DEF StoreValues, Data
  <2> QED
    BY <1>5, <2>1 DEF StoreValues
<1>6. CASE StoreTimestamp
  <2>1. current_data' \in Data
    BY <1>6 DEF StoreTimestamp, Data, Measurement
  <2>2. tmp_data' \in Measurement
    BY <1>6 DEF StoreTimestamp, NoMeasurement, Measurement
  <2> QED
    BY <1>6, <2>1, <2>2 DEF StoreTimestamp
<1>7. CASE GiveData
  BY <1>7 DEF GiveData
<1>8. CASE DataPresent
  BY <1>8 DEF DataPresent
<1>9. CASE GiveUpdate
  BY <1>9, ConstantsAssumption DEF GiveUpdate
<1> QED
  BY <1>1, <1>2, <1>3, <1>4, <1>5, <1>6, <1>7, <1>8, <1>9 DEF Update

LEMMA ReaderTypes ==
  ASSUME TypeOK, NEW r \in Readers, StartRead(r) \/ Read(r)
  PROVE  TypeOK'
<1> USE DEF TypeOK, app, clock, time, semaphores, sensor, data, readers, history
<1>1. CASE StartRead(r)
  BY <1>1 DEF StartRead
<1>2. CASE ReaderTakesData(r)
  BY <1>2 DEF ReaderTakesData
<1>3. CASE CopyValues(r)
  <2>1. copy' \in [Readers -> Data]
    BY <1>3 DEF CopyValues, Data
  <2> QED
    BY <1>3, <2>1 DEF CopyValues
<1>4. CASE CopyTimestamp(r)
  <2>1. copy' \in [Readers -> Data]
    BY <1>4 DEF CopyTimestamp, Data
  <2> QED
    BY <1>4, <2>1 DEF CopyTimestamp
<1>5. CASE ReaderGivesData(r)
  <2>1. copy' \in [Readers -> Data]
    BY <1>5 DEF ReaderGivesData, Data, Measurement, NoData, NoMeasurement
  <2> QED
    BY <1>5, <2>1 DEF ReaderGivesData
<1> QED
  BY <1>1, <1>2, <1>3, <1>4, <1>5 DEF Read

LEMMA SyncTypes ==
  ASSUME TypeOK, SyncArrives \/ Sync
  PROVE  TypeOK'
<1> USE DEF TypeOK, app, clock, time, semaphores, sensor, data, readers, history
<1>1. CASE SyncArrives
  BY <1>1 DEF SyncArrives, Times
<1>2. CASE SyncTakesBus
  BY <1>2 DEF SyncTakesBus
<1>3. CASE WriteTime
  <2>1. rtc' \in Times
    BY <1>3 DEF WriteTime, Times
  <2>2. synced' \in BOOLEAN /\ failed' \in BOOLEAN
    BY <1>3, Zenon DEF WriteTime
  <2>3. /\ i2cSemaphore' = "free" /\ sntp' = "idle"
        /\ UNCHANGED <<app, control, time, hooked, xSemaphore, bmeSemaphore, task,
                      elapsed, sensor, data, readers, waveFailed, bmeFailed, sure>>
    BY <1>3 DEF WriteTime
  <2> QED
    BY <2>1, <2>2, <2>3
<1> QED
  BY <1>1, <1>2, <1>3 DEF Sync

LEMMA TypeOKNext == TypeOK /\ [Next]_vars => TypeOK'
<1> SUFFICES ASSUME TypeOK, [Next]_vars PROVE TypeOK'
  OBVIOUS
<1> USE DEF app, clock, time, semaphores, sensor, data, readers, history
<1>1. CASE SensorReady
  <2>1. busy' \in BOOLEAN
    BY <1>1, Zenon DEF SensorReady
  <2>2. UNCHANGED <<app, clock, time, hooked, semaphores, sntp, task, elapsed, calibrated,
                    sampling, data, readers, history>>
    BY <1>1 DEF SensorReady
  <2> QED
    BY <2>1, <2>2 DEF TypeOK
<1>2. CASE Second
  <2>1. CASE Reset(TRUE)
    BY <2>1, ResetTypes
  <2>2. CASE ~Reset(TRUE)
    <3>1. elapsed' \in 0 .. Period + 1
      <4>1. elapsed' = IF elapsed > Period THEN elapsed ELSE elapsed + 1
        BY <1>2, <2>2, Zenon DEF Second
      <4>2. elapsed \in 0 .. Period + 1 /\ Period \in Nat
        BY ConstantsAssumption DEF TypeOK
      <4> QED
        BY <4>1, <4>2
    <3>2. xSemaphore' \in {"null", "empty", "full"}
      <4>1. xSemaphore' = "full" \/ xSemaphore' = xSemaphore
        BY <1>2, <2>2, Zenon DEF Second
      <4> QED
        BY <4>1 DEF TypeOK
    <3>3. UNCHANGED <<app, clock, time, hooked, i2cSemaphore, bmeSemaphore, sntp, task,
                      sensor, data, readers, history>>
      BY <1>2, <2>2 DEF Second
    <3> QED
      BY <3>1, <3>2, <3>3 DEF TypeOK
  <2> QED
    BY <2>1, <2>2
<1>3. CASE Restart \/ PowerLoss
  BY <1>3, ResetTypes DEF Restart, PowerLoss
<1>4. CASE UNCHANGED vars
  BY <1>4 DEF TypeOK, vars
<1> QED
  BY <1>1, <1>2, <1>3, <1>4, AppMainTypes, SetupTypes, UpdateTypes, ReaderTypes,
     SyncTypes
  DEF Next

\* The variables of the three tasks and the contents of both chips keep their
\* types, for any number of readers.
THEOREM TypeCorrect == Spec => []TypeOK
BY TypeOKInit, TypeOKNext, PTL DEF Spec

-----------------------------------------------------------------------------
(* Who is on the bus *)

\* The task keeps i2cSemaphore from the step after it took it to the step
\* that gives it back.
TaskHolds ==
  TaskTransfers \cup {"init", "giveSetup", "takeData", "values", "timestamp",
                      "giveData", "present", "giveUpdate"}

\* The task and the time synchronisation start after app_main has used the bus
\* for the last time; from then on who is on it holds i2cSemaphore.
BusInv ==
  /\ boot # "done" => task = "off"
  /\ boot \notin {"setZone", "createTask", "done"} => sntp = "off"
  /\ task \in TaskHolds => i2cSemaphore = "task"
  /\ sntp = "write" => i2cSemaphore = "sntp"

LEMMA BusNext == BusInv /\ [Next]_vars => BusInv'
<1> SUFFICES ASSUME BusInv, [Next]_vars PROVE BusInv'
  OBVIOUS
<1> USE DEF BusInv, TaskHolds, TaskTransfers, app, clock, time, semaphores, sensor,
            data, readers, history
<1>1. CASE AppMain
  <2> USE Steps
  <2>1. CASE HookIsr
    BY <2>1 DEF HookIsr
  <2>2. CASE ReadControl
    BY <2>2 DEF ReadControl
  <2>3. CASE WriteControl
    BY <2>3 DEF WriteControl
  <2>4. CASE CreateTickSemaphore \/ CreateBusSemaphore
    BY <2>4 DEF CreateTickSemaphore, CreateBusSemaphore
  <2>5. CASE TakeClock \/ ReadClock \/ GiveClock
    BY <2>5 DEF TakeClock, ReadClock, GiveClock
  <2>6. CASE SetTime \/ StartSntp
    BY <2>6 DEF SetTime, StartSntp
  <2>7. CASE SetZone \/ CreateTask
    BY <2>7 DEF SetZone, CreateTask
  <2> QED
    BY <1>1, <2>1, <2>2, <2>3, <2>4, <2>5, <2>6, <2>7 DEF AppMain
<1>2. CASE Setup
  BY <1>2 DEF Setup, TakeSetup, TaskTakesBus, BmeInit, ChipId, BmeReset, Poll,
              ReadCompensation, SetSampling, GiveSetup
<1>3. CASE Update
  BY <1>3 DEF Update, AwaitSecond, TakeUpdate, TaskTakesBus, Measure, TakeData,
              StoreValues, StoreTimestamp, GiveData, DataPresent, GiveUpdate
<1>4. CASE SensorReady \/ SyncArrives \/ Sync
  BY <1>4 DEF SensorReady, SyncArrives, Sync, SyncTakesBus, WriteTime
<1>5. ASSUME NEW r \in Readers, StartRead(r) \/ Read(r) PROVE BusInv'
  BY <1>5 DEF StartRead, Read, ReaderTakesData, CopyValues, CopyTimestamp, ReaderGivesData
<1>6. CASE Restart \/ PowerLoss
  BY <1>6 DEF Restart, PowerLoss, Reset
<1>7. CASE Second
  BY <1>7 DEF Second, Reset
<1>8. CASE UNCHANGED vars
  BY <1>8 DEF vars
<1> QED
  BY <1>1, <1>2, <1>3, <1>4, <1>5, <1>6, <1>7, <1>8 DEF Next

\* Two tasks never have a transfer on the bus at a time.
THEOREM OneOnTheBus == Spec => []BusIsExclusive
<1>1. Init => BusInv
  BY DEF Init, Fresh, BusInv, TaskHolds, TaskTransfers
<1>2. BusInv => BusIsExclusive
  BY DEF BusInv, BusIsExclusive, BootTransfers, TaskTransfers, TaskHolds
<1> QED
  BY <1>1, <1>2, BusNext, PTL DEF Spec

-----------------------------------------------------------------------------
(* The control register and the time *)

\* The task of the sensor and the readers touch neither the clock nor the
\* system time, and know nothing of where app_main is.
LEMMA Elsewhere ==
  ASSUME Setup \/ Update \/ SensorReady \/ \E r \in Readers : StartRead(r) \/ Read(r)
  PROVE  UNCHANGED <<app, clock, time, sntp, failed, waveFailed, synced, sure>>
<1> USE DEF app, clock, time, semaphores, sensor, data, readers, history
<1>1. CASE Setup
  BY <1>1 DEF Setup, TakeSetup, TaskTakesBus, BmeInit, ChipId, BmeReset, Poll,
              ReadCompensation, SetSampling, GiveSetup, BmeFails
<1>2. CASE Update
  BY <1>2 DEF Update, AwaitSecond, TakeUpdate, TaskTakesBus, Measure, TakeData,
              StoreValues, StoreTimestamp, GiveData, DataPresent, GiveUpdate, BmeFails
<1>3. CASE SensorReady
  BY <1>3 DEF SensorReady
<1>4. ASSUME NEW r \in Readers, StartRead(r) \/ Read(r)
      PROVE  UNCHANGED <<app, clock, time, sntp, failed, waveFailed, synced, sure>>
  BY <1>4 DEF StartRead, Read, ReaderTakesData, CopyValues, CopyTimestamp, ReaderGivesData
<1> QED
  BY <1>1, <1>2, <1>3, <1>4

\* As long as this boot's transfers of the control register succeed, its steps
\* find what the steps before them left; as long as none ever failed, nobody
\* has seen a stopped oscillator.
ClockInv ==
  /\ waveFailed => failed
  /\ ~waveFailed => /\ boot = "readWave" => "RS" \notin control
                    /\ boot = "writeWave" => "RS" \notin flag
                    /\ boot = "tickSemaphore" => control \cap {"INTCN", "RS"} = {}
  /\ ~failed => /\ "EOSC" \notin control \cup flag
                /\ "INTCN" \notin control => "RS" \notin control

LEMMA ClockNext == ClockInv /\ [Next]_vars => ClockInv'
<1> SUFFICES ASSUME ClockInv, [Next]_vars PROVE ClockInv'
  OBVIOUS
<1> USE DEF ClockInv, app, clock, time, semaphores, sensor, data, readers, history
<1>1. CASE UNCHANGED <<boot, flag, control, failed, waveFailed>>
  BY <1>1
<1>2. CASE AppMain
  <2> USE Steps
  <2>1. CASE HookIsr
    BY <2>1 DEF HookIsr
  <2>2. CASE ReadControl
    <3>1. CASE /\ flag' = (IF boot = "readFreq" THEN flag ELSE control)
               /\ boot' = Following(boot)
               /\ UNCHANGED history
      <4>1. boot' # "tickSemaphore" /\ boot' # "readWave" /\ UNCHANGED control
        BY <2>2, <3>1 DEF ReadControl
      <4>2. boot' = "writeWave" => flag' = control /\ boot = "readWave"
        BY <2>2, <3>1 DEF ReadControl
      <4>3. "EOSC" \in flag' => "EOSC" \in control \cup flag
        BY <3>1
      <4> QED
        BY <3>1, <4>1, <4>2, <4>3
    <3>2. CASE WaveFails
      BY <2>2, <3>2 DEF ReadControl, WaveFails
    <3> QED
      BY <2>2, <3>1, <3>2 DEF ReadControl
  <2>3. CASE WriteControl
    <3>1. CASE control' = NewControl /\ UNCHANGED <<failed, waveFailed>>
      BY <2>3, <3>1 DEF WriteControl, NewControl
    <3>2. CASE WaveFails
      BY <2>3, <3>2 DEF WriteControl, WaveFails
    <3> QED
      BY <2>3, <3>1, <3>2 DEF WriteControl
  <2>4. CASE CreateTickSemaphore
    BY <2>4 DEF CreateTickSemaphore
  <2>5. CASE CreateBusSemaphore
    BY <2>5 DEF CreateBusSemaphore
  <2>6. CASE TakeClock
    BY <2>6 DEF TakeClock
  <2>7. CASE ReadClock
    BY <2>7 DEF ReadClock
  <2>8. CASE GiveClock
    BY <2>8 DEF GiveClock
  <2>9. CASE SetTime
    BY <2>9 DEF SetTime
  <2>10. CASE StartSntp
    BY <2>10 DEF StartSntp
  <2>11. CASE SetZone
    BY <2>11 DEF SetZone
  <2>12. CASE CreateTask
    BY <2>12 DEF CreateTask
  <2> QED
    BY <1>2, <2>1, <2>2, <2>3, <2>4, <2>5, <2>6, <2>7, <2>8, <2>9, <2>10, <2>11, <2>12
    DEF AppMain
<1>3. CASE SyncArrives \/ SyncTakesBus
  BY <1>3 DEF SyncArrives, SyncTakesBus
<1>4. CASE WriteTime
  BY <1>4 DEF WriteTime
<1>5. ASSUME NEW kept, Reset(kept) PROVE ClockInv'
  BY <1>5 DEF Reset
<1>6. CASE Second
  BY <1>1, <1>5, <1>6 DEF Second
<1>7. CASE UNCHANGED vars
  BY <1>7 DEF vars
<1> QED
  BY <1>1, <1>2, <1>3, <1>4, <1>5, <1>6, <1>7, Elsewhere DEF Next, Sync, Restart, PowerLoss

LEMMA ClockInit == Init => ClockInv
BY DEF Init, Fresh, ClockInv, PowerOnBits

\* Whatever failed transfers and restarts left in the register, a boot whose
\* own transfers succeed makes the clock tick once a second.
THEOREM TicksAfterBoot == Spec => []WaveIsRepaired
<1>1. ClockInv => WaveIsRepaired
  BY DEF ClockInv, WaveIsRepaired, WaveIsOn
<1> QED
  BY <1>1, ClockInit, ClockNext, PTL DEF Spec

\* Until a transfer of the clock fails or is cut off, the pin is off or at
\* 1 Hz, and the oscillator runs on battery, wherever the board restarts.
THEOREM NeverAnotherRate == Spec => []WaveIsSane
<1>1. ClockInv => WaveIsSane
  BY DEF ClockInv, WaveIsSane
<1> QED
  BY <1>1, ClockInit, ClockNext, PTL DEF Spec

\* What is stored of the network's time stays as long as the oscillator runs on
\* battery, whatever other transfers failed; app_main takes it for UTC, because TZ
\* is set later, and no time of the network arrives before it is done with the
\* clock's.
TimeInv ==
  /\ synced => rtc = "right" /\ "EOSC" \notin control
  /\ boot \notin {"createTask", "done"} => ~tz
  /\ sure /\ boot \in {"giveClock", "setTime"} => got = "right"
  /\ TimeIsKept

LEMMA TimeNext == BusInv /\ TimeInv /\ [Next]_vars => TimeInv'
<1> SUFFICES ASSUME BusInv, TimeInv, [Next]_vars PROVE TimeInv'
  OBVIOUS
<1> USE DEF TimeInv, TimeIsKept, app, clock, time, semaphores, sensor, data, readers,
            history
<1>1. CASE UNCHANGED <<app, clock, time, failed, synced, sure>>
  BY <1>1
<1>2. CASE AppMain
  <2> USE Steps
  <2>1. CASE HookIsr
    BY <2>1 DEF HookIsr
  <2>2. CASE ReadControl
    <3>1. CASE UNCHANGED history
      BY <2>2, <3>1 DEF ReadControl
    <3>2. CASE WaveFails
      BY <2>2, <3>2 DEF ReadControl, WaveFails
    <3> QED
      BY <2>2, <3>1, <3>2 DEF ReadControl
  <2>3. CASE WriteControl
    <3>1. CASE synced' = (synced /\ "EOSC" \notin control') /\ UNCHANGED sure
      BY <2>3, <3>1 DEF WriteControl
    <3>2. CASE WaveFails
      BY <2>3, <3>2 DEF WriteControl, WaveFails
    <3> QED
      BY <2>3, <3>1, <3>2 DEF WriteControl
  <2>4. CASE CreateTickSemaphore
    BY <2>4 DEF CreateTickSemaphore
  <2>5. CASE CreateBusSemaphore
    BY <2>5 DEF CreateBusSemaphore
  <2>6. CASE TakeClock
    BY <2>6 DEF TakeClock
  <2>7. CASE ReadClock
    BY <2>7 DEF ReadClock
  <2>8. CASE GiveClock
    BY <2>8 DEF GiveClock
  <2>9. CASE SetTime
    BY <2>9 DEF SetTime
  <2>10. CASE StartSntp
    BY <2>10 DEF StartSntp
  <2>11. CASE SetZone
    BY <2>11 DEF SetZone
  <2>12. CASE CreateTask
    BY <2>12 DEF CreateTask
  <2> QED
    BY <1>2, <2>1, <2>2, <2>3, <2>4, <2>5, <2>6, <2>7, <2>8, <2>9, <2>10, <2>11, <2>12
    DEF AppMain
<1>3. CASE SyncArrives
  <2>1. boot \notin {"giveClock", "setTime"}
    BY <1>3 DEF SyncArrives, BusInv
  <2> QED
    BY <1>3, <2>1 DEF SyncArrives
<1>4. CASE SyncTakesBus
  BY <1>1, <1>4 DEF SyncTakesBus
<1>5. CASE WriteTime
  <2>1. synced' => rtc' = "right" /\ "EOSC" \notin control'
    BY <1>5 DEF WriteTime
  <2>2. UNCHANGED <<app, time, sure>>
    BY <1>5 DEF WriteTime
  <2> QED
    BY <2>1, <2>2
<1>6. CASE Reset(TRUE)
  BY <1>6 DEF Reset
<1>7. CASE Restart
  BY <1>6, <1>7 DEF Restart
<1>8. CASE PowerLoss
  BY <1>8 DEF PowerLoss, Reset
<1>9. CASE Second
  BY <1>1, <1>6, <1>9 DEF Second
<1>10. CASE UNCHANGED vars
  BY <1>1, <1>10 DEF vars
<1> QED
  BY <1>1, <1>2, <1>3, <1>4, <1>5, <1>7, <1>8, <1>9, <1>10, Elsewhere DEF Next, Sync

\* The time of the network survives restarts and losses of power in the
\* DS3231, and nothing overwrites it with an older one; a whole write makes good
\* what failed before it.
THEOREM NetworkTimeIsKept == Spec => []TimeIsKept
<1>1. Init => BusInv /\ TimeInv
  BY DEF Init, Fresh, BusInv, TaskHolds, TaskTransfers, TimeInv, TimeIsKept
<1>2. TimeInv => TimeIsKept
  BY DEF TimeInv
<1> QED
  BY <1>1, <1>2, BusNext, TimeNext, PTL DEF Spec

-----------------------------------------------------------------------------
(* Measurements *)

BeforeSetup == {"off", "takeSetup", "init"}

\* Who stores or copies a measurement holds bmeSemaphore, so that the values
\* and the time stamp that others find belong together.
WholeInv ==
  /\ bme_data_present => task \notin BeforeSetup
  /\ task \notin BeforeSetup => bmeSemaphore # "null"
  /\ task \in {"values", "timestamp", "giveData"} => bmeSemaphore = "task"
  /\ task = "timestamp" => current_data.values = tmp_data
  /\ task # "timestamp" => current_data.values.id = current_data.timestamp
  /\ \A r \in Readers :
       /\ read[r] # "idle" => bme_data_present
       /\ read[r] \in {"values", "timestamp", "give"} => bmeSemaphore = r
       /\ read[r] = "timestamp" => copy[r].values = current_data.values
       /\ read[r] = "give" => copy[r].values.id = copy[r].timestamp

\* While no transfer fails the sensor is set up before it is measured.
GoodInv ==
  ~bmeFailed =>
    /\ task = "compensation" => ~busy
    /\ task = "sampling" => calibrated
    /\ task \in {"giveSetup", "wait", "takeUpdate", "measure", "takeData", "values",
                 "timestamp", "giveData", "present", "giveUpdate"}
         => calibrated /\ sampling
    /\ task \in {"takeData", "values"} => tmp_data.good
    /\ task \in {"timestamp", "giveData", "present"} \/ bme_data_present
         => current_data.values.good
    /\ \A r \in Readers : read[r] \in {"timestamp", "give"} => copy[r].values.good

\* Neither app_main nor SNTP touch the sensor and its data.
LEMMA OffTheData ==
  ASSUME AppMain \/ SyncArrives \/ Sync
  PROVE  /\ UNCHANGED <<sensor, data, readers, bmeSemaphore, bmeFailed>>
         /\ task' = task \/ (boot = "createTask" /\ task' = "takeSetup")
<1> USE DEF app, clock, time, semaphores, sensor, data, readers, history
<1>1. CASE SyncArrives \/ Sync
  BY <1>1 DEF SyncArrives, Sync, SyncTakesBus, WriteTime
<1>2. CASE HookIsr \/ ReadControl \/ WriteControl \/ CreateTickSemaphore
  BY <1>2 DEF HookIsr, ReadControl, WriteControl, CreateTickSemaphore, WaveFails
<1>3. CASE CreateBusSemaphore \/ TakeClock \/ ReadClock \/ GiveClock
  BY <1>3 DEF CreateBusSemaphore, TakeClock, ReadClock, GiveClock
<1>4. CASE SetTime \/ StartSntp \/ SetZone \/ CreateTask
  BY <1>4 DEF SetTime, StartSntp, SetZone, CreateTask
<1> QED
  BY <1>1, <1>2, <1>3, <1>4 DEF AppMain

LEMMA WholeReset == ASSUME NEW kept, Reset(kept) PROVE WholeInv' /\ GoodInv'
BY DEF Reset, WholeInv, GoodInv, BeforeSetup, NoData, NoMeasurement

LEMMA WholeSetup ==
  ASSUME TypeOK, WholeInv, Setup
  PROVE  WholeInv'
<1> USE DEF app, clock, time, semaphores, sensor, data, readers, history, WholeInv,
            BeforeSetup
<1>1. CASE BmeInit
  BY <1>1 DEF BmeInit, NoData, NoMeasurement
<1>2. CASE TakeSetup \/ ChipId \/ BmeReset
  BY <1>2 DEF TakeSetup, TaskTakesBus, ChipId, BmeReset
<1>3. CASE Poll \/ ReadCompensation \/ SetSampling \/ GiveSetup
  BY <1>3 DEF Poll, ReadCompensation, SetSampling, GiveSetup
<1> QED
  BY <1>1, <1>2, <1>3 DEF Setup

LEMMA GoodSetup ==
  ASSUME TypeOK, WholeInv, GoodInv, Setup
  PROVE  GoodInv'
<1> USE DEF app, clock, time, semaphores, sensor, data, readers, history, GoodInv,
            BmeFails
<1>1. CASE BmeInit
  BY <1>1 DEF BmeInit, NoData, NoMeasurement, WholeInv, BeforeSetup
<1>2. CASE TakeSetup \/ ChipId \/ BmeReset
  BY <1>2 DEF TakeSetup, TaskTakesBus, ChipId, BmeReset
<1>3. CASE Poll \/ GiveSetup
  BY <1>3 DEF Poll, GiveSetup
<1>4. CASE ReadCompensation
  BY <1>4 DEF ReadCompensation
<1>5. CASE SetSampling
  BY <1>5 DEF SetSampling
<1> QED
  BY <1>1, <1>2, <1>3, <1>4, <1>5 DEF Setup

LEMMA WholeUpdate ==
  ASSUME TypeOK, WholeInv, Update
  PROVE  WholeInv'
<1> USE ConstantsAssumption
        DEF app, clock, time, semaphores, sensor, data, readers, history, WholeInv,
            BeforeSetup
<1>1. CASE AwaitSecond \/ TakeUpdate \/ Measure
  BY <1>1 DEF AwaitSecond, TakeUpdate, TaskTakesBus, Measure
<1>2. CASE TakeData
  BY <1>2 DEF TakeData
<1>3. CASE StoreValues
  BY <1>3 DEF StoreValues, TypeOK, Data
<1>4. CASE StoreTimestamp
  BY <1>4 DEF StoreTimestamp, TypeOK, Data
<1>5. CASE GiveData
  BY <1>5 DEF GiveData
<1>6. CASE DataPresent \/ GiveUpdate
  BY <1>6 DEF DataPresent, GiveUpdate
<1> QED
  BY <1>1, <1>2, <1>3, <1>4, <1>5, <1>6 DEF Update

LEMMA GoodUpdate ==
  ASSUME TypeOK, WholeInv, GoodInv, Update
  PROVE  GoodInv'
<1> USE DEF app, clock, time, semaphores, sensor, data, readers, history, GoodInv,
            BmeFails
<1>1. CASE AwaitSecond \/ TakeUpdate \/ TakeData
  BY <1>1 DEF AwaitSecond, TakeUpdate, TaskTakesBus, TakeData
<1>2. CASE Measure
  <2>1. CASE bmeFailed'
    BY <2>1
  <2>2. CASE ~bmeFailed'
    <3>1. ~bmeFailed /\ calibrated = TRUE /\ sampling = TRUE
      BY <1>2, <2>2 DEF Measure, TypeOK
    <3>2. tmp_data' = [id |-> 1 - current_data.timestamp, good |-> calibrated /\ sampling]
      BY <1>2, <2>2, Zenon DEF Measure
    <3>3. tmp_data' = [id |-> 1 - current_data.timestamp, good |-> TRUE]
      BY <3>1, <3>2, Zenon
    <3>4. tmp_data'.good
      BY <3>3
    <3>5. /\ task' = "takeData"
          /\ UNCHANGED <<sensor, current_data, bme_data_present, readers>>
      BY <1>2 DEF Measure
    <3> QED
      BY <3>1, <3>4, <3>5
  <2> QED
    BY <2>1, <2>2
<1>3. CASE StoreValues
  BY <1>3 DEF StoreValues, TypeOK, Data
<1>4. CASE StoreTimestamp
  BY <1>4 DEF StoreTimestamp, TypeOK, Data
<1>5. CASE GiveData \/ DataPresent \/ GiveUpdate
  BY <1>5 DEF GiveData, DataPresent, GiveUpdate
<1> QED
  BY <1>1, <1>2, <1>3, <1>4, <1>5 DEF Update

LEMMA ReadersData ==
  ASSUME TypeOK, WholeInv, GoodInv, NEW r \in Readers, StartRead(r) \/ Read(r)
  PROVE  WholeInv' /\ GoodInv'
<1> USE ConstantsAssumption
        DEF app, clock, time, semaphores, sensor, data, readers, history
<1>1. CASE StartRead(r)
  <2>1. WholeInv'
    BY <1>1 DEF StartRead, TypeOK, WholeInv, BeforeSetup
  <2>2. GoodInv'
    BY <1>1 DEF StartRead, TypeOK, GoodInv
  <2> QED
    BY <2>1, <2>2
<1>2. CASE ReaderTakesData(r)
  <2>1. WholeInv'
    BY <1>2 DEF ReaderTakesData, TypeOK, WholeInv, BeforeSetup
  <2>2. GoodInv'
    BY <1>2 DEF ReaderTakesData, TypeOK, GoodInv
  <2> QED
    BY <2>1, <2>2
<1>3. CASE CopyValues(r)
  <2>1. WholeInv'
    BY <1>3 DEF CopyValues, TypeOK, Data, WholeInv, BeforeSetup
  <2>2. GoodInv'
    BY <1>3 DEF CopyValues, TypeOK, Data, GoodInv, WholeInv
  <2> QED
    BY <2>1, <2>2
<1>4. CASE CopyTimestamp(r)
  <2>1. WholeInv'
    BY <1>4 DEF CopyTimestamp, TypeOK, Data, WholeInv, BeforeSetup
  <2>2. GoodInv'
    BY <1>4 DEF CopyTimestamp, TypeOK, Data, GoodInv
  <2> QED
    BY <2>1, <2>2
<1>5. CASE ReaderGivesData(r)
  <2>1. WholeInv'
    BY <1>5 DEF ReaderGivesData, TypeOK, WholeInv, BeforeSetup
  <2>2. GoodInv'
    BY <1>5 DEF ReaderGivesData, TypeOK, GoodInv
  <2> QED
    BY <2>1, <2>2
<1> QED
  BY <1>1, <1>2, <1>3, <1>4, <1>5 DEF Read

LEMMA MeasureNext ==
  ASSUME TypeOK, BusInv, WholeInv, GoodInv, [Next]_vars
  PROVE  WholeInv' /\ GoodInv'
<1> USE DEF app, clock, time, semaphores, sensor, data, readers, history
<1>1. CASE AppMain \/ SyncArrives \/ Sync
  <2>1. /\ UNCHANGED <<sensor, data, readers, bmeSemaphore, bmeFailed>>
        /\ task' = task \/ (boot = "createTask" /\ task' = "takeSetup")
    BY <1>1, OffTheData
  <2> QED
    BY <2>1 DEF BusInv, WholeInv, GoodInv, BeforeSetup
<1>2. CASE Setup
  BY <1>2, WholeSetup, GoodSetup
<1>3. CASE Update
  BY <1>3, WholeUpdate, GoodUpdate
<1>4. CASE SensorReady
  BY <1>4 DEF SensorReady, WholeInv, GoodInv, BeforeSetup
<1>5. ASSUME NEW r \in Readers, StartRead(r) \/ Read(r) PROVE WholeInv' /\ GoodInv'
  BY <1>5, ReadersData
<1>6. CASE Restart \/ PowerLoss \/ Reset(TRUE)
  BY <1>6, WholeReset DEF Restart, PowerLoss
<1>7. CASE Second
  BY <1>6, <1>7 DEF Second, WholeInv, GoodInv, BeforeSetup
<1>8. CASE UNCHANGED vars
  BY <1>8 DEF vars, WholeInv, GoodInv, BeforeSetup
<1> QED
  BY <1>1, <1>2, <1>3, <1>4, <1>5, <1>6, <1>7, <1>8 DEF Next

\* What bme_get_data returns is one measurement, and when no transfer failed one
\* that was made with the coefficients of the sensor.
THEOREM ReadersGetMeasurements == Spec => []MeasurementsAreWhole
<1>1. Init => BusInv /\ WholeInv /\ GoodInv
  BY DEF Init, Fresh, BusInv, TaskHolds, TaskTransfers, WholeInv, GoodInv,
         BeforeSetup, NoData, NoMeasurement
<1>2. WholeInv /\ GoodInv => MeasurementsAreWhole
  BY DEF WholeInv, GoodInv, MeasurementsAreWhole
<1> QED
  BY <1>1, <1>2, TypeCorrect, BusNext, MeasureNext, PTL DEF Spec

-----------------------------------------------------------------------------
(* Who waits for whom *)

\* A semaphore is with somebody who is between taking and giving it, and waits
\* for nothing meanwhile, except that the task of the sensor, with the bus,
\* may wait for the data.  Nobody waits for a semaphore that does not exist.
\* So nobody waits in a circle, or for somebody who left with the semaphore.
NoCircularWait ==
  /\ i2cSemaphore = "boot" => boot \in {"readClock", "giveClock"}
  /\ i2cSemaphore = "task" => task \in TaskHolds
  /\ i2cSemaphore = "sntp" => sntp = "write"
  /\ bmeSemaphore = "task" => task \in {"values", "timestamp", "giveData"}
  /\ \A r \in Readers : bmeSemaphore = r => read[r] \in {"values", "timestamp", "give"}
  /\ boot = "takeClock" \/ task \in {"takeSetup", "takeUpdate"} \/ sntp = "take"
       => i2cSemaphore # "null"
  /\ task = "takeData" \/ (\E r \in Readers : read[r] = "take") => bmeSemaphore # "null"
  /\ task = "wait" => xSemaphore # "null"

BeforeTick ==
  {"hook", "getFreq", "readFreq", "writeFreq", "readWave", "writeWave", "tickSemaphore"}

\* app_main creates the semaphores before anybody takes them.
CreatedInv ==
  /\ xSemaphore = "null" => boot \in BeforeTick
  /\ i2cSemaphore = "null" <=> boot \in BeforeTick \cup {"busSemaphore"}
  /\ boot \in {"readClock", "giveClock"} => i2cSemaphore = "boot"

WaitInv == CreatedInv /\ NoCircularWait

LEMMA WaitReset == ASSUME NEW kept, Reset(kept) PROVE WaitInv'
BY ConstantsAssumption DEF Reset, WaitInv, CreatedInv, BeforeTick, NoCircularWait, TaskHolds, TaskTransfers

LEMMA WaitAppMain ==
  ASSUME TypeOK, BusInv, WholeInv, WaitInv, AppMain
  PROVE  WaitInv'
<1> USE Steps DEF app, clock, time, semaphores, sensor, data, readers, history, WaitInv,
                  CreatedInv, BeforeTick, NoCircularWait, BusInv, TaskHolds, TaskTransfers
<1>1. CASE HookIsr
  BY <1>1 DEF HookIsr
<1>2. CASE ReadControl
  BY <1>2 DEF ReadControl
<1>3. CASE WriteControl
  BY <1>3 DEF WriteControl
<1>4. CASE CreateTickSemaphore \/ CreateBusSemaphore
  BY <1>4 DEF CreateTickSemaphore, CreateBusSemaphore
<1>5. CASE TakeClock \/ ReadClock \/ GiveClock
  BY <1>5 DEF TakeClock, ReadClock, GiveClock
<1>6. CASE SetTime \/ StartSntp
  BY <1>6 DEF SetTime, StartSntp
<1>7. CASE SetZone \/ CreateTask
  BY <1>7 DEF SetZone, CreateTask
<1> QED
  BY <1>1, <1>2, <1>3, <1>4, <1>5, <1>6, <1>7 DEF AppMain

LEMMA WaitTask ==
  ASSUME TypeOK, BusInv, WholeInv, WaitInv, Setup \/ Update
  PROVE  WaitInv'
<1> USE ConstantsAssumption
        DEF app, clock, time, semaphores, sensor, data, readers, history, WaitInv,
            CreatedInv, BeforeTick, NoCircularWait, BusInv, TaskHolds, TaskTransfers
<1>1. CASE TakeSetup \/ TakeUpdate
  BY <1>1 DEF TakeSetup, TakeUpdate, TaskTakesBus
<1>2. CASE BmeInit
  BY <1>2 DEF BmeInit, WholeInv, BeforeSetup
<1>3. CASE ChipId \/ BmeReset \/ Poll \/ ReadCompensation \/ SetSampling
  BY <1>3 DEF ChipId, BmeReset, Poll, ReadCompensation, SetSampling
<1>4. CASE GiveSetup \/ GiveUpdate
  BY <1>4 DEF GiveSetup, GiveUpdate
<1>5. CASE AwaitSecond
  BY <1>5 DEF AwaitSecond
<1>6. CASE Measure
  BY <1>6 DEF Measure, WholeInv, BeforeSetup
<1>7. CASE TakeData
  BY <1>7 DEF TakeData
<1>8. CASE StoreValues \/ StoreTimestamp
  BY <1>8 DEF StoreValues, StoreTimestamp
<1>9. CASE GiveData \/ DataPresent
  BY <1>9 DEF GiveData, DataPresent
<1> QED
  BY <1>1, <1>2, <1>3, <1>4, <1>5, <1>6, <1>7, <1>8, <1>9 DEF Setup, Update

LEMMA WaitReaders ==
  ASSUME TypeOK, WholeInv, WaitInv, NEW r \in Readers, StartRead(r) \/ Read(r)
  PROVE  WaitInv'
<1> USE ConstantsAssumption
        DEF app, clock, time, semaphores, sensor, data, readers, history, WaitInv,
            CreatedInv, BeforeTick, NoCircularWait, TypeOK
<1>1. CASE StartRead(r)
  BY <1>1 DEF StartRead, WholeInv
<1>2. CASE ReaderTakesData(r)
  BY <1>2 DEF ReaderTakesData
<1>3. CASE CopyValues(r) \/ CopyTimestamp(r)
  BY <1>3 DEF CopyValues, CopyTimestamp
<1>4. CASE ReaderGivesData(r)
  BY <1>4 DEF ReaderGivesData
<1> QED
  BY <1>1, <1>2, <1>3, <1>4 DEF Read

LEMMA WaitNext == TypeOK /\ BusInv /\ WholeInv /\ WaitInv /\ [Next]_vars => WaitInv'
<1> SUFFICES ASSUME TypeOK, BusInv, WholeInv, WaitInv, [Next]_vars PROVE WaitInv'
  OBVIOUS
<1> USE DEF app, clock, time, semaphores, sensor, data, readers, history
<1>1. CASE AppMain
  BY <1>1, WaitAppMain
<1>2. CASE Setup \/ Update
  BY <1>2, WaitTask
<1>3. CASE SensorReady \/ SyncArrives \/ Sync
  <2> USE DEF WaitInv, CreatedInv, BeforeTick, NoCircularWait, BusInv
  <2>1. CASE SensorReady
    BY <2>1 DEF SensorReady
  <2>2. CASE SyncArrives
    BY <2>2 DEF SyncArrives
  <2>3. CASE Sync
    BY <2>3 DEF Sync, SyncTakesBus, WriteTime
  <2> QED
    BY <1>3, <2>1, <2>2, <2>3
<1>4. ASSUME NEW r \in Readers, StartRead(r) \/ Read(r) PROVE WaitInv'
  BY <1>4, WaitReaders
<1>5. CASE Restart \/ PowerLoss \/ Reset(TRUE)
  BY <1>5, WaitReset DEF Restart, PowerLoss
<1>6. CASE Second
  BY <1>5, <1>6 DEF Second, WaitInv, CreatedInv, BeforeTick, NoCircularWait
<1>7. CASE UNCHANGED vars
  BY <1>7 DEF vars, WaitInv, CreatedInv, BeforeTick, NoCircularWait
<1> QED
  BY <1>1, <1>2, <1>3, <1>4, <1>5, <1>6, <1>7 DEF Next

\* The bus and the data of the sensor are taken one within the other, by three
\* tasks and the readers; they never wait for each other in a circle.
THEOREM NobodyWaitsInACircle == Spec => []NoCircularWait
<1>1. Init => BusInv /\ WholeInv /\ GoodInv /\ WaitInv
  BY ConstantsAssumption
  DEF Init, Fresh, BusInv, TaskHolds, TaskTransfers, WholeInv, GoodInv, BeforeSetup,
      NoData, NoMeasurement, WaitInv, CreatedInv, BeforeTick, NoCircularWait
<1>2. WaitInv => NoCircularWait
  BY DEF WaitInv
<1> QED
  BY <1>1, <1>2, TypeCorrect, BusNext, MeasureNext, WaitNext, PTL DEF Spec

-----------------------------------------------------------------------------
(* The registers of the time *)

\* Two digits fit into a byte, and are read back; the digit of the tens is in
\* the upper half.
LEMMA TwoDigits ==
  ASSUME NEW n \in 0 .. 99
  PROVE  /\ decToBcd(n) = (n \div 10) * 16 + (n % 10)
         /\ bcdToDec(decToBcd(n)) = n
         /\ n < 40 => decToBcd(n) < 64
         /\ n < 20 => decToBcd(n) < 32
         /\ decToBcd(n) \in 0 .. 255
<1> DEFINE d == n \div 10
           u == n % 10
<1>1. d \in 0 .. 9 /\ u \in 0 .. 9 /\ n = 10 * d + u
  OBVIOUS
<1>2. d * 16 + u \in 0 .. 255
  BY <1>1
<1>3. decToBcd(n) = d * 16 + u
  BY <1>2 DEF decToBcd, Byte
<1> HIDE DEF d, u
<1>4. (d * 16 + u) \div 16 = d /\ (d * 16 + u) % 16 = u
  BY <1>1
<1>5. bcdToDec(decToBcd(n)) = n
  BY <1>1, <1>3, <1>4 DEF bcdToDec, Byte
<1>6. (n < 40 => d < 4) /\ (n < 20 => d < 2)
  BY <1>1
<1>7. (n < 40 => d * 16 + u < 64) /\ (n < 20 => d * 16 + u < 32)
  BY <1>1, <1>6
<1> QED
  BY <1>2, <1>3, <1>5, <1>7 DEF d, u

\* A time that was sent to the clock is read back as it was, for every second
\* of the years 2000 to 2099: this is why one value "right" may stand for all.
THEOREM TimeIsReadBack ==
  ASSUME NEW t \in Tm
  PROVE  ds3231_getTime(ds3231_setTime(t)) = t
<1> DEFINE regs == ds3231_setTime(t)
<1>1. /\ t.tm_sec \in 0 .. 99 /\ t.tm_min \in 0 .. 99 /\ t.tm_mday \in 0 .. 99
      /\ t.tm_hour \in 0 .. 23 /\ t.tm_wday \in 0 .. 6
      /\ t.tm_mon \in 0 .. 11 /\ t.tm_year \in 100 .. 199
  BY DEF Tm
<1>2. regs[3] \in 0 .. 63 /\ Hour(regs[3]) = t.tm_hour
  <2>1. regs[3] = decToBcd(t.tm_hour)
    BY DEF ds3231_setTime
  <2>2. t.tm_hour \in 0 .. 99 /\ t.tm_hour < 40
    BY <1>1
  <2>3. regs[3] \in 0 .. 63 /\ bcdToDec(regs[3]) = t.tm_hour
    BY <2>1, <2>2, TwoDigits
  <2>4. (regs[3] \div 64) % 2 = 0
    BY <2>3
  <2> QED
    BY <2>3, <2>4 DEF Hour
<1>3. bcdToDec(regs[6] % 32) - 1 = t.tm_mon
  <2>1. regs[6] = decToBcd(t.tm_mon + 1)
    BY DEF ds3231_setTime
  <2>2. t.tm_mon + 1 \in 0 .. 99 /\ t.tm_mon + 1 < 20
    BY <1>1
  <2>3. regs[6] \in 0 .. 31 /\ bcdToDec(regs[6]) = t.tm_mon + 1
    BY <2>1, <2>2, TwoDigits
  <2>4. regs[6] % 32 = regs[6]
    BY <2>3
  <2> QED
    BY <1>1, <2>3, <2>4
<1>4. bcdToDec(regs[4]) - 1 = t.tm_wday
  <2>1. t.tm_wday + 1 \in 0 .. 99
    BY <1>1
  <2> QED
    BY <1>1, <2>1, TwoDigits DEF ds3231_setTime
<1>5. bcdToDec(regs[7]) + 100 = t.tm_year
  <2>1. t.tm_year - 100 \in 0 .. 99
    BY <1>1
  <2> QED
    BY <1>1, <2>1, TwoDigits DEF ds3231_setTime
<1>6. /\ bcdToDec(regs[1]) = t.tm_sec /\ bcdToDec(regs[2]) = t.tm_min
      /\ bcdToDec(regs[5]) = t.tm_mday
  BY <1>1, TwoDigits DEF ds3231_setTime
<1> QED
  BY <1>2, <1>3, <1>4, <1>5, <1>6 DEF ds3231_getTime, Tm
=============================================================================
