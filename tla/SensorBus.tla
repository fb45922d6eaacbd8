------------------------------ MODULE SensorBus ------------------------------
(***************************************************************************)
(* The I2C bus: app_main sets up the DS3231 clock and reads its time, the  *)
(* task i2c_task_example sets up and reads the BME280, sntp_sync_time_func *)
(* stores the time of the network; the square wave of the clock interrupts *)
(* once a second; Readers ask for the last measurement (bme_get_data).     *)
(*                                                                         *)
(* Every transfer may fail.  The control register of the clock is the set  *)
(* of its bits that are 1.  Time is "right" when it is UTC as the network  *)
(* has it.                                                                 *)
(*                                                                         *)
(* failed, waveFailed, bmeFailed, synced and sure are history variables;   *)
(* no guard looks at them.                                                 *)
(***************************************************************************)
EXTENDS Naturals

CONSTANTS
  Readers,   \* httpd and the MQTT timer, in constructDataJSON
  Period     \* bound: seconds between measurements (20 in the code)

ASSUME ConstantsAssumption ==
  /\ Readers \cap {"boot", "task", "sntp", "null", "free"} = {}
  /\ Period \in Nat \ {0}

\* EOSC stops the oscillator on battery, INTCN turns the square wave off, RS
\* stands for the two rate bits: none is 1 Hz.  The other bits are not told
\* apart.
Bits == {"EOSC", "INTCN", "RS"}
PowerOnBits == {"INTCN", "RS"}

Times == {"right", "wrong"}

VARIABLES
  boot,      \* where app_main is
  flag,      \* control register as ds3231_getFlag or ds3231_setFlag read it
  got,       \* current_time of app_main
  control, rtc,                 \* the DS3231: its control register, its time
  sys, tz,                      \* the system time; TZ is set
  hooked, xSemaphore, i2cSemaphore, bmeSemaphore,
  sntp,      \* sntp_sync_time_func in the tcpip thread; "off" before sntp_init
  task,      \* i2c_task_example
  elapsed,   \* seconds since bme_timer
  busy,      \* the BME280 copies its calibration after a reset
  calibrated, sampling,         \* coefficients and mode are as they should be
  tmp_data, current_data, bme_data_present,
  read, copy,                   \* bme_get_data of each reader, and its result
  failed,      \* a transfer of the DS3231 failed, or was cut off, at some time
  waveFailed,  \* one of this boot's transfers of the control register failed
  bmeFailed,   \* a transfer of the BME280 failed since it was booted
  synced,      \* the DS3231 was given a time of the network, whole, and was
               \* not told since to stop without power
  sure         \* the system time comes from the network, maybe by way of
               \* the DS3231

clock == <<control, rtc>>
time == <<sys, tz>>
semaphores == <<xSemaphore, i2cSemaphore, bmeSemaphore>>
sensor == <<busy, calibrated, sampling>>
data == <<tmp_data, current_data, bme_data_present>>
readers == <<read, copy>>
app == <<boot, flag, got>>
history == <<failed, waveFailed, bmeFailed, synced, sure>>
vars == <<app, clock, time, hooked, semaphores, sntp, task, elapsed, sensor,
          data, readers, history>>

\* A measurement, and bme_data_t: measurements are told apart by their parity.
Measurement == [id : {0, 1}, good : BOOLEAN]
Data == [values : Measurement, timestamp : {0, 1}]
NoMeasurement == [id |-> 0, good |-> FALSE]
NoData == [values |-> NoMeasurement, timestamp |-> 0]

\* RAM after a reset.
Fresh ==
  /\ boot = "hook" /\ flag = {} /\ got = "none"
  /\ sys = "wrong" /\ tz = FALSE
  /\ hooked = FALSE
  /\ xSemaphore = "null" /\ i2cSemaphore = "null" /\ bmeSemaphore = "null"
  /\ sntp = "off" /\ task = "off"
  /\ elapsed = 0
  /\ calibrated = FALSE /\ sampling = FALSE
  /\ tmp_data = NoMeasurement /\ current_data = NoData /\ bme_data_present = FALSE
  /\ read = [r \in Readers |-> "idle"]
  /\ copy = [r \in Readers |-> NoData]
  /\ waveFailed = FALSE /\ bmeFailed = FALSE /\ sure = FALSE

Init ==
  /\ Fresh
  /\ control = PowerOnBits /\ rtc = "wrong"
  /\ busy = FALSE
  /\ failed = FALSE /\ synced = FALSE

-----------------------------------------------------------------------------
(* app_main *)

\* The order of what app_main does.
InOrder(label) ==
  CASE label = "hook" -> "getFreq"
    [] label = "getFreq" -> "readFreq"
    [] label = "readFreq" -> "writeFreq"
    [] label = "writeFreq" -> "readWave"
    [] label = "readWave" -> "writeWave"
    [] label = "writeWave" -> "tickSemaphore"
    [] label = "tickSemaphore" -> "busSemaphore"
    [] label = "busSemaphore" -> "takeClock"
    [] label = "takeClock" -> "readClock"
    [] label = "readClock" -> "giveClock"
    [] label = "giveClock" -> "setTime"
    [] label = "setTime" -> "startSntp"
    [] label = "startSntp" -> "setZone"
    [] label = "setZone" -> "createTask"
    [] OTHER -> "done"

\* Faulty variant: the square wave is turned on before its rate is set.
FollowingWaveFirst(label) ==
  CASE label = "hook" -> "readWave"
    [] label = "writeWave" -> "getFreq"
    [] label = "writeFreq" -> "tickSemaphore"
    [] OTHER -> InOrder(label)

\* Faulty variant: the time zone is set before the time of the clock is taken.
FollowingZoneFirst(label) ==
  CASE label = "busSemaphore" -> "setZone"
    [] label = "setZone" -> "takeClock"
    [] label = "startSntp" -> "createTask"
    [] OTHER -> InOrder(label)

Following(label) == InOrder(label)

\* gpio_isr_handler_add of the square wave's pin
HookIsr ==
  /\ boot = "hook"
  /\ hooked' = TRUE
  /\ boot' = Following(boot)
  /\ UNCHANGED <<flag, got, clock, time, semaphores, sntp, task, elapsed, sensor,
                 data, readers, history>>

WaveFails ==
  /\ failed' = TRUE /\ waveFailed' = TRUE
  /\ UNCHANGED <<bmeFailed, synced, sure>>

\* ds3231_send of the register's address, then ds3231_recv.  When the first
\* fails, which its caller is not told, the second reads the register that the
\* clock happens to point to; when the second fails the caller gives up.
ReadControl ==
  /\ boot \in {"getFreq", "readFreq", "readWave"}
  /\ \/ flag' = (IF boot = "readFreq" THEN flag ELSE control)
        /\ boot' = Following(boot)
        /\ UNCHANGED history
     \/ flag' \in (IF boot = "readFreq" THEN {flag} ELSE SUBSET Bits)
        /\ boot' = Following(boot)
        /\ WaveFails
     \/ flag' = flag
        /\ boot' = Following(IF boot = "readWave" THEN "writeWave" ELSE "writeFreq")
        /\ WaveFails
  /\ UNCHANGED <<got, clock, time, hooked, semaphores, sntp, task, elapsed, sensor,
                 data, readers>>

\* Faulty variant: the new rate is or-ed to the old one.
NewControlBothRates == IF boot = "writeFreq" THEN flag ELSE flag \ {"INTCN"}

\* What ds3231_setSquarewaveFreq makes of the register (DS3231_REPLACE, with
\* the 1 Hz rate), and ds3231_enableSquarewave (DS3231_CLEAR).
NewControl ==
  IF boot = "writeFreq" THEN flag \ {"RS"} ELSE flag \ {"INTCN"}

\* ds3231_send of the address and the new value; its result is always true.
WriteControl ==
  /\ boot \in {"writeFreq", "writeWave"}
  /\ \/ /\ control' = NewControl
        /\ synced' = (synced /\ "EOSC" \notin control')
        /\ UNCHANGED <<failed, waveFailed, bmeFailed, sure>>
     \/ control' = control /\ WaveFails
  /\ flag' = IF boot = "writeWave" THEN {} ELSE flag
  /\ boot' = Following(boot)
  /\ UNCHANGED <<got, rtc, time, hooked, semaphores, sntp, task, elapsed,
                 sensor, data, readers>>

CreateTickSemaphore ==
  /\ boot = "tickSemaphore"
  /\ xSemaphore' = "empty"
  /\ waveFailed' = FALSE
  /\ boot' = Following(boot)
  /\ UNCHANGED <<flag, got, clock, time, hooked, i2cSemaphore, bmeSemaphore, sntp,
                 task, elapsed, sensor, data, readers, failed, bmeFailed, synced,
                 sure>>

CreateBusSemaphore ==
  /\ boot = "busSemaphore"
  /\ i2cSemaphore' = "free"
  /\ boot' = Following(boot)
  /\ UNCHANGED <<flag, got, clock, time, hooked, xSemaphore, bmeSemaphore, sntp,
                 task, elapsed, sensor, data, readers, history>>

TakeClock ==
  /\ boot = "takeClock"
  /\ i2cSemaphore = "free"
  /\ i2cSemaphore' = "boot"
  /\ boot' = Following(boot)
  /\ UNCHANGED <<flag, got, clock, time, hooked, xSemaphore, bmeSemaphore, sntp,
                 task, elapsed, sensor, data, readers, history>>

\* ds3231_getTime: like a register, the time may be read from somewhere else.
ReadClock ==
  /\ boot = "readClock"
  /\ \/ got' = rtc
        /\ sure' = synced
        /\ UNCHANGED failed
     \/ got' \in {"none", "wrong"}
        /\ sure' = FALSE
        /\ failed' = TRUE
  /\ boot' = Following(boot)
  /\ UNCHANGED <<flag, clock, time, hooked, semaphores, sntp, task, elapsed, sensor,
                 data, readers, waveFailed, bmeFailed, synced>>

GiveClock ==
  /\ boot = "giveClock"
  /\ i2cSemaphore' = "free"
  /\ boot' = Following(boot)
  /\ UNCHANGED <<flag, got, clock, time, hooked, xSemaphore, bmeSemaphore, sntp,
                 task, elapsed, sensor, data, readers, history>>

\* settimeofday(mktime(...)): mktime takes the fields for local time.
SetTime ==
  /\ boot = "setTime"
  /\ sys' = CASE got = "none" -> sys
              [] got # "none" /\ tz -> "wrong"
              [] OTHER -> got
  /\ got' = "none"
  /\ boot' = Following(boot)
  /\ UNCHANGED <<flag, clock, tz, hooked, semaphores, sntp, task, elapsed,
                 sensor, data, readers, history>>

StartSntp ==
  /\ boot = "startSntp"
  /\ sntp' = "idle"
  /\ boot' = Following(boot)
  /\ UNCHANGED <<flag, got, clock, time, hooked, semaphores, task, elapsed, sensor,
                 data, readers, history>>

SetZone ==
  /\ boot = "setZone"
  /\ tz' = TRUE
  /\ boot' = Following(boot)
  /\ UNCHANGED <<flag, got, clock, sys, hooked, semaphores, sntp, task, elapsed,
                 sensor, data, readers, history>>

CreateTask ==
  /\ boot = "createTask"
  /\ task' = "takeSetup"
  /\ boot' = Following(boot)
  /\ UNCHANGED <<flag, got, clock, time, hooked, semaphores, sntp, elapsed, sensor,
                 data, readers, history>>

-----------------------------------------------------------------------------
(* Seconds, restarts, loss of power *)

\* Everything in RAM is lost; the clock keeps its register and its time.
Reset(timeKept) ==
  /\ boot' = "hook" /\ flag' = {} /\ got' = "none"
  /\ sys' = "wrong" /\ tz' = FALSE
  /\ hooked' = FALSE
  /\ xSemaphore' = "null" /\ i2cSemaphore' = "null" /\ bmeSemaphore' = "null"
  /\ sntp' = "off" /\ task' = "off"
  /\ elapsed' = 0
  /\ calibrated' = FALSE /\ sampling' = FALSE
  /\ tmp_data' = NoMeasurement /\ current_data' = NoData /\ bme_data_present' = FALSE
  /\ read' = [r \in Readers |-> "idle"]
  /\ copy' = [r \in Readers |-> NoData]
  /\ waveFailed' = FALSE /\ bmeFailed' = FALSE /\ sure' = FALSE
  /\ \/ rtc' = (IF timeKept THEN rtc ELSE "wrong") /\ UNCHANGED <<failed, synced>>
     \/ \* among the seven registers of the time
        sntp = "write" /\ rtc' = "wrong" /\ failed' = TRUE /\ synced' = FALSE
  /\ UNCHANGED <<control, busy>>

\* esp_restart, by request or after an abort.
Restart == Reset(TRUE)

\* The battery keeps the clock running unless the register says otherwise.
PowerLoss == Reset("EOSC" \notin control)

\* The pin falls once a second when the register says so.
WaveIsOn == control \cap {"INTCN", "RS"} = {}

\* A second passes, and gpio_isr_rtc_handler gives xSemaphore; one that does
\* not exist is an assertion of FreeRTOS, and the board restarts.
Second ==
  IF hooked /\ WaveIsOn /\ xSemaphore = "null"
    THEN Reset(TRUE)
    ELSE /\ elapsed' = IF elapsed > Period THEN elapsed ELSE elapsed + 1
         /\ xSemaphore' = IF hooked /\ WaveIsOn THEN "full" ELSE xSemaphore
         /\ UNCHANGED <<app, clock, time, hooked, i2cSemaphore, bmeSemaphore, sntp,
                        task, sensor, data, readers, history>>

-----------------------------------------------------------------------------
(* i2c_task_example and the BME280 *)

TaskTakesBus(from, to) ==
  /\ task = from
  /\ i2cSemaphore = "free"
  /\ i2cSemaphore' = "task"
  /\ task' = to
  /\ UNCHANGED <<app, clock, time, hooked, xSemaphore, bmeSemaphore, sntp, elapsed,
                 sensor, data, readers, history>>

TakeSetup == TaskTakesBus("takeSetup", "init")

\* bme_init
BmeInit ==
  /\ task = "init"
  /\ calibrated' = FALSE
  /\ bme_data_present' = FALSE
  /\ current_data' = NoData
  /\ bmeSemaphore' = "free"
  /\ task' = "chipId"
  /\ UNCHANGED <<app, clock, time, hooked, xSemaphore, i2cSemaphore, sntp, elapsed,
                 busy, sampling, tmp_data, readers, history>>

BmeFails ==
  /\ bmeFailed' = TRUE
  /\ UNCHANGED <<failed, waveFailed, synced, sure>>

\* bme_setup: a sensor that does not answer leaves everything as it is, and
\* nobody looks at what it returns.
ChipId ==
  /\ task = "chipId"
  /\ \/ task' = "reset" /\ UNCHANGED history
     \/ task' = "giveSetup" /\ BmeFails
  /\ UNCHANGED <<app, clock, time, hooked, semaphores, sntp, elapsed, sensor, data,
                 readers>>

BmeReset ==
  /\ task = "reset"
  /\ \/ busy' = TRUE /\ sampling' = FALSE /\ UNCHANGED history
     \/ UNCHANGED <<busy, sampling>> /\ BmeFails
  /\ task' = "poll"
  /\ UNCHANGED <<app, clock, time, hooked, semaphores, sntp, elapsed, calibrated,
                 data, readers>>

\* Faulty variant: the coefficients are read without waiting for the sensor.
PollOnce ==
  /\ task = "poll"
  /\ \/ UNCHANGED history
     \/ BmeFails
  /\ task' = "compensation"
  /\ UNCHANGED <<app, clock, time, hooked, semaphores, sntp, elapsed, sensor, data,
                 readers>>

\* The loop on the status register: bme_read_data returns 0 when the bus
\* fails, which looks like a sensor that is ready.
Poll ==
  /\ task = "poll"
  /\ \/ ~busy /\ UNCHANGED history
     \/ BmeFails
  /\ task' = "compensation"
  /\ UNCHANGED <<app, clock, time, hooked, semaphores, sntp, elapsed, sensor, data,
                 readers>>

\* bme_read_compensation_data
ReadCompensation ==
  /\ task = "compensation"
  /\ \/ calibrated' = ~busy /\ UNCHANGED history
     \/ calibrated' = FALSE /\ BmeFails
  /\ task' = "sampling"
  /\ UNCHANGED <<app, clock, time, hooked, semaphores, sntp, elapsed, busy, sampling,
                 data, readers>>

\* bme_set_sampling
SetSampling ==
  /\ task = "sampling"
  /\ \/ sampling' = TRUE /\ UNCHANGED history
     \/ UNCHANGED sampling /\ BmeFails
  /\ task' = "giveSetup"
  /\ UNCHANGED <<app, clock, time, hooked, semaphores, sntp, elapsed, busy,
                 calibrated, data, readers>>

GiveSetup ==
  /\ task = "giveSetup"
  /\ i2cSemaphore' = "free"
  /\ task' = "wait"
  /\ UNCHANGED <<app, clock, time, hooked, xSemaphore, bmeSemaphore, sntp, elapsed,
                 sensor, data, readers, history>>

\* xSemaphoreTake(xSemaphore): seconds that pass meanwhile are one.
AwaitSecond ==
  /\ task = "wait" /\ xSemaphore = "full"
  /\ xSemaphore' = "empty"
  /\ task' = IF elapsed > Period THEN "takeUpdate" ELSE "wait"
  /\ UNCHANGED <<app, clock, time, hooked, i2cSemaphore, bmeSemaphore, sntp, elapsed,
                 sensor, data, readers, history>>

TakeUpdate == TaskTakesBus("takeUpdate", "measure")

\* bme_update_data: bme_read_temp_press_and_hum and the compensation formulas.
Measure ==
  /\ task = "measure"
  /\ \/ tmp_data' = [id |-> 1 - current_data.timestamp,
                     good |-> calibrated /\ sampling]
        /\ UNCHANGED history
     \/ tmp_data' = [id |-> 1 - current_data.timestamp, good |-> FALSE]
        /\ BmeFails
  /\ task' = "takeData"
  /\ UNCHANGED <<app, clock, time, hooked, semaphores, sntp, elapsed, sensor,
                 current_data, bme_data_present, readers>>

TakeData ==
  /\ task = "takeData"
  /\ bmeSemaphore = "free"
  /\ bmeSemaphore' = "task"
  /\ task' = "values"
  /\ UNCHANGED <<app, clock, time, hooked, xSemaphore, i2cSemaphore, sntp, elapsed,
                 sensor, data, readers, history>>

\* current_data = tmp_data, which is not atomic.
StoreValues ==
  /\ task = "values"
  /\ current_data' = [current_data EXCEPT !.values = tmp_data]
  /\ task' = "timestamp"
  /\ UNCHANGED <<app, clock, time, hooked, semaphores, sntp, elapsed, sensor,
                 tmp_data, bme_data_present, readers, history>>

StoreTimestamp ==
  /\ task = "timestamp"
  /\ current_data' = [current_data EXCEPT !.timestamp = tmp_data.id]
  /\ tmp_data' = NoMeasurement
  /\ task' = "giveData"
  /\ UNCHANGED <<app, clock, time, hooked, semaphores, sntp, elapsed, sensor,
                 bme_data_present, readers, history>>

GiveData ==
  /\ task = "giveData"
  /\ bmeSemaphore' = "free"
  /\ task' = "present"
  /\ UNCHANGED <<app, clock, time, hooked, xSemaphore, i2cSemaphore, sntp, elapsed,
                 sensor, data, readers, history>>

DataPresent ==
  /\ task = "present"
  /\ bme_data_present' = TRUE
  /\ task' = "giveUpdate"
  /\ UNCHANGED <<app, clock, time, hooked, semaphores, sntp, elapsed, sensor,
                 tmp_data, current_data, readers, history>>

\* Faulty variant: the bus is not given back.
GiveUpdateNot ==
  /\ task = "giveUpdate"
  /\ elapsed' = 0
  /\ task' = "wait"
  /\ UNCHANGED <<app, clock, time, hooked, semaphores, sntp, sensor, data, readers,
                 history>>

GiveUpdate ==
  /\ task = "giveUpdate"
  /\ i2cSemaphore' = "free"
  /\ elapsed' = 0
  /\ task' = "wait"
  /\ UNCHANGED <<app, clock, time, hooked, xSemaphore, bmeSemaphore, sntp, sensor,
                 data, readers, history>>

\* The sensor has copied its calibration.
SensorReady ==
  /\ busy
  /\ busy' = FALSE
  /\ UNCHANGED <<app, clock, time, hooked, semaphores, sntp, task, elapsed, calibrated,
                 sampling, data, readers, history>>

-----------------------------------------------------------------------------
(* sntp_sync_time_func *)

\* lwIP sets the system time and calls back.
SyncArrives ==
  /\ sntp = "idle"
  /\ sys' = "right"
  /\ sure' = TRUE
  /\ sntp' = "take"
  /\ UNCHANGED <<app, clock, tz, hooked, semaphores, task, elapsed, sensor, data,
                 readers, failed, waveFailed, bmeFailed, synced>>

\* Faulty variant: the callback does not wait for the bus.
SyncTakesBusAnyway ==
  /\ sntp = "take"
  /\ i2cSemaphore' = "sntp"
  /\ sntp' = "write"
  /\ UNCHANGED <<app, clock, time, hooked, xSemaphore, bmeSemaphore, task, elapsed,
                 sensor, data, readers, history>>

SyncTakesBus ==
  /\ sntp = "take"
  /\ i2cSemaphore = "free"
  /\ i2cSemaphore' = "sntp"
  /\ sntp' = "write"
  /\ UNCHANGED <<app, clock, time, hooked, xSemaphore, bmeSemaphore, task, elapsed,
                 sensor, data, readers, history>>

\* ds3231_setTime, with what gmtime_r made of the time: the transfer may fail
\* before or among the seven registers.
WriteTime ==
  /\ sntp = "write"
  /\ \/ rtc' = "right" /\ synced' = ("EOSC" \notin control) /\ UNCHANGED failed
     \/ rtc' \in {rtc, "wrong"} /\ synced' = (synced /\ rtc' = rtc) /\ failed' = TRUE
  /\ i2cSemaphore' = "free"
  /\ sntp' = "idle"
  /\ UNCHANGED <<app, control, time, hooked, xSemaphore, bmeSemaphore, task, elapsed,
                 sensor, data, readers, waveFailed, bmeFailed, sure>>

-----------------------------------------------------------------------------
(* bme_get_data *)

StartRead(r) ==
  /\ read[r] = "idle" /\ bme_data_present
  /\ read' = [read EXCEPT ![r] = "take"]
  /\ UNCHANGED <<app, clock, time, hooked, semaphores, sntp, task, elapsed, sensor,
                 data, copy, history>>

ReaderTakesData(r) ==
  /\ read[r] = "take"
  /\ bmeSemaphore = "free"
  /\ bmeSemaphore' = r
  /\ read' = [read EXCEPT ![r] = "values"]
  /\ UNCHANGED <<app, clock, time, hooked, xSemaphore, i2cSemaphore, sntp, task,
                 elapsed, sensor, data, copy, history>>

CopyValues(r) ==
  /\ read[r] = "values"
  /\ copy' = [copy EXCEPT ![r].values = current_data.values]
  /\ read' = [read EXCEPT ![r] = "timestamp"]
  /\ UNCHANGED <<app, clock, time, hooked, semaphores, sntp, task, elapsed, sensor,
                 data, history>>

CopyTimestamp(r) ==
  /\ read[r] = "timestamp"
  /\ copy' = [copy EXCEPT ![r].timestamp = current_data.timestamp]
  /\ read' = [read EXCEPT ![r] = "give"]
  /\ UNCHANGED <<app, clock, time, hooked, semaphores, sntp, task, elapsed, sensor,
                 data, history>>

ReaderGivesData(r) ==
  /\ read[r] = "give"
  /\ bmeSemaphore' = "free"
  /\ copy' = [copy EXCEPT ![r] = NoData]
  /\ read' = [read EXCEPT ![r] = "idle"]
  /\ UNCHANGED <<app, clock, time, hooked, xSemaphore, i2cSemaphore, sntp, task,
                 elapsed, sensor, data, history>>

-----------------------------------------------------------------------------
AppMain ==
  \/ HookIsr \/ ReadControl \/ WriteControl
  \/ CreateTickSemaphore \/ CreateBusSemaphore
  \/ TakeClock \/ ReadClock \/ GiveClock \/ SetTime
  \/ StartSntp \/ SetZone \/ CreateTask

Setup ==
  \/ TakeSetup \/ BmeInit \/ ChipId \/ BmeReset \/ Poll
  \/ ReadCompensation \/ SetSampling \/ GiveSetup

Update ==
  \/ AwaitSecond \/ TakeUpdate \/ Measure
  \/ TakeData \/ StoreValues \/ StoreTimestamp \/ GiveData
  \/ DataPresent \/ GiveUpdate

Sync == SyncTakesBus \/ WriteTime

Read(r) == ReaderTakesData(r) \/ CopyValues(r) \/ CopyTimestamp(r) \/ ReaderGivesData(r)

Next ==
  \/ AppMain \/ Setup \/ Update \/ SensorReady
  \/ SyncArrives \/ Sync
  \/ \E r \in Readers : StartRead(r) \/ Read(r)
  \/ Second \/ Restart \/ PowerLoss

Spec == Init /\ [][Next]_vars

\* FreeRTOS runs the tasks that are ready and hands a semaphore to those that
\* wait for it in turn; time passes; the sensor ends what a reset began (once
\* per boot, like app_main).
Fairness ==
  /\ WF_vars(AppMain \/ SensorReady)
  /\ SF_vars(Setup \/ Update)
  /\ SF_vars(Sync)
  /\ \A r \in Readers : WF_vars(Read(r))
  /\ WF_vars(Second)

FairSpec == Spec /\ Fairness

-----------------------------------------------------------------------------
(* Properties *)

BootLabels ==
  {"hook", "getFreq", "readFreq", "writeFreq", "readWave", "writeWave",
   "tickSemaphore", "busSemaphore", "takeClock", "readClock", "giveClock",
   "setTime", "startSntp", "setZone", "createTask", "done"}

TaskLabels ==
  {"off", "takeSetup", "init", "chipId", "reset", "poll", "compensation",
   "sampling", "giveSetup", "wait", "takeUpdate", "measure", "takeData",
   "values", "timestamp", "giveData", "present", "giveUpdate"}

\* The variables keep their types.
TypeOK ==
  /\ boot \in BootLabels
  /\ flag \in SUBSET Bits /\ control \in SUBSET Bits
  /\ got \in Times \cup {"none"} /\ rtc \in Times /\ sys \in Times
  /\ tz \in BOOLEAN /\ hooked \in BOOLEAN
  /\ xSemaphore \in {"null", "empty", "full"}
  /\ i2cSemaphore \in {"null", "free", "boot", "task", "sntp"}
  /\ bmeSemaphore \in {"null", "free", "task"} \cup Readers
  /\ sntp \in {"off", "idle", "take", "write"}
  /\ task \in TaskLabels
  /\ elapsed \in 0 .. Period + 1
  /\ busy \in BOOLEAN /\ calibrated \in BOOLEAN /\ sampling \in BOOLEAN
  /\ tmp_data \in Measurement /\ current_data \in Data
  /\ bme_data_present \in BOOLEAN
  /\ read \in [Readers -> {"idle", "take", "values", "timestamp", "give"}]
  /\ copy \in [Readers -> Data]
  /\ failed \in BOOLEAN /\ waveFailed \in BOOLEAN /\ bmeFailed \in BOOLEAN
  /\ synced \in BOOLEAN /\ sure \in BOOLEAN

BootTransfers ==
  {"getFreq", "readFreq", "writeFreq", "readWave", "writeWave", "readClock"}
TaskTransfers ==
  {"chipId", "reset", "poll", "compensation", "sampling", "measure"}

\* Two tasks never have a transfer on the bus at a time, although app_main
\* begins before i2cSemaphore exists and ds3231.c takes it nowhere.
BusIsExclusive ==
  /\ ~(boot \in BootTransfers /\ task \in TaskTransfers)
  /\ ~(boot \in BootTransfers /\ sntp = "write")
  /\ ~(task \in TaskTransfers /\ sntp = "write")

\* Whatever failed transfers or a restart in the middle left in the register,
\* a boot whose own transfers succeed gets the clock to tick once a second.
WaveIsRepaired == (boot = "tickSemaphore" /\ ~waveFailed) => WaveIsOn

\* As long as no transfer fails, no restart between two of them, or a tick
\* that comes too early, leaves the pin at another rate, which would make the
\* uptime run fast, or the oscillator without battery.
WaveIsSane ==
  ~failed => /\ "EOSC" \notin control
             /\ "INTCN" \notin control => "RS" \notin control

\* The time of the network survives restarts and losses of power in the
\* DS3231, which keeps UTC, and nothing overwrites it with an older one.  One
\* whole write makes good whatever transfers failed or were cut off before,
\* unless one of them made app_main write EOSC, which nothing takes back.
TimeIsKept == (sure /\ boot \notin {"giveClock", "setTime"}) => sys = "right"

\* What bme_get_data returns is one measurement, and when the sensor answered
\* since the boot one made with its coefficients; the semaphore it takes exists.
MeasurementsAreWhole ==
  \A r \in Readers :
    /\ read[r] # "idle" => bmeSemaphore # "null"
    /\ read[r] = "give" => /\ copy[r].values.id = copy[r].timestamp
                           /\ ~bmeFailed => copy[r].values.good

\* A time of the network reaches the DS3231, although the task of the sensor
\* keeps the bus while the sensor is busy.
SyncEnds == sntp = "take" ~> sntp # "take"

\* While the clock ticks a measurement that is due is made, whatever transfers
\* fail.
MeasuringGoesOn ==
  (boot = "done" /\ WaveIsOn /\ elapsed > Period) ~> elapsed = 0
=============================================================================
