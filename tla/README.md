# A verification development for WiFiGeiger

WiFiGeiger is the firmware of a radiation counter on an ESP8266: a Geiger tube
counted by interrupts, an RTC that gives the seconds, a BME280, a web interface,
and an MQTT log. It runs a handful of FreeRTOS tasks over a few shared globals,
most of them without a lock. This directory models the parts of it where the
order of things matters, checks them with TLC and proves about them with TLAPS.

## 1. Inventory

| Part | Source (`src/code/main/`) | State | Operations | Talks to |
|---|---|---|---|---|
| Pulse counter | `geiger.c`, `main.c` (RTC interrupt) | `pulses`, ring of 60 seconds, index, `uptime` | pulse interrupt, second interrupt, `geiger_init`, `geiger_get_cpm` | read by httpd and the timer task through `constructDataJSON` |
| Configuration store | `config.c` | `config` in RAM, the blob in NVS, `configSemaphore` | load, defaults, get, set, save, apply | everybody |
| Configuration requests | `http_server.c` | `configToken`, `apply_timer`, `reset_timer` | `config.cgi`, `pass.cgi`, `reset.cgi`, token, `settings.json` | configuration store, pages |
| Access point scan | `wificgi.c` | `ap_info`, `ap_count`, `scanInProgress`, `scan_timer` | `wifiscan.cgi`, timer, `SCAN_DONE` event | WiFi driver |
| WiFi link | `wifi.c` | `sta_reconnect`, `s_retry_num`, `conTryStatus` | event handler, `wifi_connect_to_ap`, `wifi_init_softap` | driver, web server, MQTT through events |
| WiFi requests | `wificgi.c` | `new_ssid`, `new_password`, `connect_timer` | `connect.cgi`, `connstatus.cgi`, `setmode.cgi` | WiFi link |
| Web server lifecycle | `http_server.c` | `server` | `http_server_init`, connect and disconnect handlers | events of the link |
| MQTT log | `mqtt_log.c` | client, `mqtt_uri`, `mqtt_topic`, `mqtt_timer`, `mqtt_connected` | connect and disconnect handlers, client callback, timer | link, configuration, counter |
| Button | `main.c` | `button_timer`, `soft_ap_restore_timer` | interrupt, timer | uptime, WiFi link |
| Clock | `ds3231.c`, `main.c` | control register and time in the DS3231, `xSemaphore`, the system time | set-up and reading by `app_main`, square wave, `ds3231_setTime` | bus, counter |
| Bus and sensor | `bme280.c`, `i2c_master.c`, `main.c` | `i2cSemaphore`, `bmeSemaphore`, coefficients, `current_data` | set-up, measurement, `bme_get_data` | clock, httpd |
| Time synchronisation | `common.c`, `main.c` | system time, TZ | `sntp_sync_time_func` | clock, over the bus |
| Validation, JSON | `common.c` | none | pure functions | requests |
| Pages | `html/ui/` | inputs and token, in the browser | polling and forms | requests |

Five contexts run them: the GPIO interrupts (one service routine, so the two
handlers exclude each other), the event task (all event handlers, in order of
the queue), the timer task (all `os_timer` callbacks), httpd (all requests, one
at a time) and the client task of MQTT; besides, `app_main`, a sensor task, and
the TCP/IP thread, in which SNTP calls back.

What is hard: a reader and an interrupt on one array; a configuration that is
copied, edited and written back while others use it; saves that fail and power
that goes; a list on the heap that one task frees, another fills and a third
reads; a driver that is stopped on purpose while its events are still queued; a
server that is started and stopped by those events; a log in which each message
is sent because the one before was acknowledged; registers of a clock that
outlive the program that writes them; a bus whose failures nobody is told of; a
form that several pages fill in at once. `PROJECT.json` lists the
hazards line by line, each with the properties meant to catch it.

What makes each part correct:

* counter: no pulse is lost or moved to another second; a rate is the rate of
  one window, and of a window that was really counted;
* store: copies are whole; requests add up; flash follows RAM unless a save
  failed; the interface follows the configuration; nobody waits for ever;
* scan: no block is freed twice or lost; a list that is shown is there; scans end;
* link: retries go on until success or the limit; the status shown is current;
  a server is there for whoever reaches the board; the button opens an access
  point;
* log: it goes on by itself while the client is connected; the client runs only
  while the link does;
* clock and bus: one transfer at a time; the clock ticks once a second after a
  boot that could talk to it; the time of the network is not lost or overwritten
  by an older one; a measurement is whole;
* button: a hold restores the access point, anything shorter does not;
* forms: what was typed is stored or refused; what one page saves does not undo
  what another one saved; nothing that arrives makes the board unusable.

## 2. Modules

| Module | What it is |
|---|---|
| `SlidingWindow` | abstract: the pulses of the last whole seconds |
| `GeigerCounter` | `geiger.c` and the RTC interrupt; implements `SlidingWindow` |
| `GeigerCounter_proofs` | its theorems |
| `DurableConfig` | abstract: a configuration that requests edit at once, and that flash follows by whole blobs |
| `ConfigStore` | `config.c`, the three requests that change it, the timers they arm; implements `DurableConfig` |
| `ConfigStore_proofs` | its theorems |
| `WifiScan` | the scan half of `wificgi.c` |
| `WifiScan_proofs` | its theorems |
| `WifiLink` | `wifi.c`, the connect half of `wificgi.c`, the lifecycle half of `http_server.c` |
| `WifiLink_proofs` | its theorems, and those of `LinkedLog` and `LastForm` |
| `MqttLog` | `mqtt_log.c` |
| `MqttLog_proofs` | its theorems |
| `LogClient` | abstract: a client that follows the station's events; `MqttLog` implements it |
| `LinkedLog` | `WifiLink` with `LogClient` on it, over the events they share |
| `LastForm` | `LinkedLog` with a history variable for the last form of `connect.cgi` |
| `SensorBus` | the I2C bus and who uses it: `app_main`, the sensor task, SNTP, readers |
| `Ds3231Time` | the conversions of the time in `ds3231.c` |
| `SensorBus_proofs` | the theorems about both |
| `Button` | the button's interrupt and its timer |
| `Button_proofs` | its theorems |
| `IpAddress` | addresses as text: validated, read, shown |
| `ConfigForm` | the pages that change the configuration; the fields of their forms; uses `IpAddress` |
| `ConfigForm_proofs` | its theorems |
| `MC...` | the constants TLC uses |

Definitions named "Faulty variant" in a module are not part of the
specification. Each is the definition after it with a plausible bug; putting it
in place makes one property fail, which shows that the property depends on the
code. History variables are named in the modules; no guard reads one.

### GeigerCounter

`pulses`, `geiger_pulses`, `geiger_pulses_index` and `uptime` are the globals.
`Pulse` and `Tick` are the two interrupt handlers, whole. A reader may be
interrupted between two elements of the array, so `geiger_get_cpm` is
`ReadStart`, one `ReadSlot` per element and `ReadEnd`; the guard `Reportable` is
the `uptime > 59` of `constructDataJSON`. `GeigerInit` is separate from `Init`
because `app_main` hooks the RTC interrupt (`main.c:158`) before it clears the
ring (`main.c:176`): ticks in that window count for the gate and not for the
ring, and `ReportsFilledWindow` says by how much.

### ConfigStore

A struct assignment is a `TakeSem`, one `CopyField` per field in any order, and
a `GiveSem`. `ram`, `flash`, `staged` (set and not committed) and `iface` are
the four places a setting lives in. httpd serves one request at a time: `Request`
takes the copy, `AcceptConfig`/`AcceptPass`/`Reject` stand for the whole parsing
and validation of the form, then come `config_set_new` and the four steps of
`config_save_settings_to_flash`, each of which may fail (`NvsError`), and
`Reply`, which arms the timer. The timer task applies the configuration without
the semaphore, first `use_dhcp`, then the address. `Boot` includes the erased
partition and the blob that is not read; `PowerLoss` comes at any point, and a
blob that was set and not committed is in flash afterwards or not.
`check_authentication` and `is_password_valid` take copies of their own, which
change nothing and are left out. "ip" stands for the three addresses and for the
names stored beside them.

`DurableConfig` is what the rest of the firmware may take it for: a value that
config.cgi, pass.cgi and reset.cgi edit in one step each, of which flash is handed
whole copies. The edit happens when the semaphore is given back (`stored`): while
fields are copied, the value is still the old one. What a loss of power leaves is
the blob, or the one that was handed over and not committed.

### WifiScan

Each statement of the three callbacks that touches `scanInProgress`, `ap_count`
or `ap_info` is an action, and the three tasks interleave anywhere. The heap is a
set of live blocks, each with room for some records. The history variable
`overlapped` says whether, since the timer callback last began, it or the event
handler was interrupted by another of the three, or an event waited while a timer
was served; their priorities and their lengths make that unlikely. It starts anew
with every scan, so that `NoLeak`, `ListWhenQuiet` and `ScanEnds`, which except an
interrupted scan, speak of every other one, also of those that find what an
interrupted scan left behind. `refused` and `nomem` say that the last scan was
refused by the radio, and that the last `malloc` returned NULL. `NoDoubleFree`
holds whatever happens. `ScanAbort` is `ESP_ERROR_CHECK` of the two calls that fetch
the result, and the write through a pointer that was taken away.

### WifiLink

The driver is external and kept small: `Drive(on, m)` brings the interfaces of
mode `m` up or down and posts an event per change; a station connects, fails or
is lost at any time. Everything else is code: the event task takes one event at
a time through `event_handler` and then the handler of `http_server.c`; the
timer task runs `wifi_connect_to_ap` and `wifi_init_softap` statement by
statement; httpd copies the name and the password of a form one after the other;
`app_main` registers handlers, starts the server and stores its handle in
separate steps. `setmode.cgi` asks while the board is reached and sets when the
driver may be stopped already (`AskMode`, `SetMode`). `ESP_ERROR_CHECK` on a mode
that changed underneath is `Abort`.
The three registrations of `http_server_init` are one step: an event between two
of them has the effects of one that comes before or after. `httpd_start` is
refused only when an instance already holds the port.

### MqttLog

`mqtt_event_handler_cb` runs in the client's own task; each of its cases is the
action that raises it and the ones that carry it out. The event task starts and
stops the client; `esp_mqtt_client_stop` waits for the callback and raises no
event (`mqtt_client_deinit`, `mqtt_log.c:145-150`, clears the flag itself after
it). A publication may get lost, because `constructDataJSON` returned NULL or the
client took no message; the history variable `lost` says whether one was since the
client connected.

### LogClient, LinkedLog and LastForm

`MqttLog` takes the events of the link in any order; `WifiLink` has the events and
no log. `LinkedLog` puts them together: an event leaves the driver's queue in one
step with what both hear of it (`Hears`), the handlers of `wifi.c` and
`http_server.c` go first, as they were registered first, and those of `mqtt_log.c`
last (`LogHandler`); no event is taken before they are through. As far as the link
is concerned the log is three variables, which is `LogClient`; that `MqttLog`
implements it is checked and proved, so that the composition can do without
brokers and messages. Whether a handler of the log is registered is looked at when
the event is taken: nobody registers one while an event is served. A broker, or a
callback that `esp_mqtt_client_stop` waits for, is in `MqttLog`.

`LastForm` watches the forms of `connect.cgi` on top of that. `last` is the form whose
name and password httpd has copied and armed the timer for, until another one begins,
`wifi_connect_to_ap` refuses it, or the board restarts. The timer of an earlier form
may take the name of one and the password of another while httpd copies;
`LastFormWins` says that a form that is whole gets to the driver all the same.

### SensorBus and Ds3231Time

`app_main` is one action per statement that touches what others share, in the
order `InOrder`. `i2cSemaphore` does not exist while it sets up the clock, and
`ds3231.c` takes it nowhere: that nobody is on the bus by then depends on that
order. Every transfer may fail. `ds3231_send` then says that it succeeded, so the
`ds3231_recv` after it reads the register the clock happens to point to
(`ReadControl` chooses any value), which is what gets written back. The control
register is the set of its bits that are 1; EOSC, INTCN and the rate are told
apart. It survives `Reset`, as does the time; only `PowerLoss` with EOSC set stops
the clock. `Second` is the whole interrupt handler: giving a semaphore that does
not exist is an assertion of FreeRTOS, hence a `Reset`.

The sensor is `busy` after a reset until it has copied its calibration; `Poll` goes
on when it is ready or when the bus fails, because `bme_read_data` returns 0 then.
Measurements are told apart by their parity and by whether they were made with
the coefficients. `time` is right or wrong; `SetTime` is `mktime`, wrong once TZ is
set. That "right" may stand for every time is the theorem `TimeIsReadBack` about
`Ds3231Time`, which has the registers digit by digit, the 12-hour form included.

### Button

An edge makes an interrupt pending; the handler runs once for the edges since its
last call and reads the level the pin has by then. Contacts bounce (`Press` and
`Release` in any number), interrupts wait up to `MaxWait` ticks, the uptime wraps,
the board restarts with the button held.

### ConfigForm and IpAddress

`devname` stands for the four names that must not be empty, `ip` for the five
addresses, `mqtt_port` for itself, `mqtt_password` for the text that
`settings.json` leaves out. A page asks for its token and its settings at once and
gets them in either order; a person types over one input and posts, as often as
they like. What the handler receives is the form or a beginning of it (`Bodies`),
since `httpd_req_recv` is called once. Each field is one disjunct of `Valid` and
`Value`; the first that is not valid ends the handler before anything is stored.
Addresses are digits between dots: `is_valid_ip_address` takes dots in a row as
one, and `strncpy` leaves the end of a text of fifteen characters open, so that
what follows it (`behind`) decides; lwIP reads groups that begin with 0 as octal.
Requests are atomic here: `ConfigStore` has what happens within one.

## 3. Runs

Bounds are named in the modules and given in the `.cfg` files.

| Run | Bounds | Shows |
|---|---|---|
| `geiger` | ring of 3, counters modulo 3 and 5, one early tick, one reader | the properties of the counter and the refinement of `SlidingWindow` |
| `config` | one address, two passwords; httpd and the timer task copy | `CopyIsWhole`, `RequestsAddUp`, `FlashIsCurrent`, `InterfaceFollowsConfig`, the refinement of `DurableConfig`; nobody waits for ever, and what was stored is applied in the end (`RequestsFinish`, `ChangesAreApplied`) |
| `scan` | two blocks, up to two records | `NoDoubleFree`, `NoLeak`, `ListWhenQuiet`, `ScanEnds` |
| `linked` | `LastForm`: two networks, one retry, two queued events, one mode asked for | `HandleIsKept`, `LastFormWins`, `RunsOnLink` |
| `link_live` | one network, one retry, two queued events, no mode asked for | `StationKeepsTrying`, `ServedOnceConnected`, `AttemptIsDecided`, `ButtonOpensAp` |
| `mqtt` | two brokers or none, two messages in the outbox | `ChainIsAlive`, `LogGoesOn` and the refinement of `LogClient` |
| `bus` | one reader, a measurement when two seconds passed | who is on the bus, the square wave, the time, measurements; `SyncEnds`, `MeasuringGoesOn` |
| `button` | uptime modulo 16, holds up to 8 ticks, interrupts one tick late | `ArmsAfterHold`, `HoldRestores` |
| `form` | two pages, three tokens, two changes, longs of six bits, corner cases of every field | `NoLostUpdate`, `WholeFormIsTaken`, `UntouchedSaveKeeps`, `BoardStaysUsable` |

`TypeOK` of each module is a theorem, and repeated by a run only for `ConfigForm`.

Why these bounds are enough. A ring of three has a first, a middle and a last
slot, wraps, and lets a tick fall before, at and behind the reader; a counter
modulo three wraps within one second. Readers of the ring do not see each other,
so one is enough. The requests write two disjoint fields or all of them; two
passwords and `use_dhcp` tell every mixture of old and new apart, and more
addresses only add values (the safety properties are theorems for any number). Two blocks are one more than a program
that frees what it drops needs. One retry gives the first, the last and the one
too many; the code's 100 adds length only. The driver posts up to two events at
once, so two places are the least there can be, and they make the sender wait,
which the 32 places of the board do too, only later. The mode asked for is STA: it
starts a station on a board that had none, and takes the access point away, also
under the timer task, which then aborts; that is in `linked`, as with it the
liveness run would take too long. All four modes are initial ones. The two
networks of `linked` are interchangeable, and two are enough for a name and a
password of different forms. `conTryStatus` is written and only shown: the view of
`linked` leaves it out, as none of its three properties looks at it; those that do
are in the runs of `WifiLink`. Two brokers tell a change of the server
from none; the topic is never compared.

One reader of measurements is enough, as readers change nothing; a reader and the
task are two for one semaphore. The clock's register has all its eight values. The
uptime of the button wraps within a hold; a hold of 8 is longer than the threshold
and the delay, one of 4 is not. Two pages are one that saves and one that is
behind; a third token is one nobody holds; two changes are one of each page, or
one and a restart. The addresses typed are of fifteen characters, with a leading
zero, with two dots in a row, and with a byte too large; the port may be negative,
which is no `long` of six bits, or the name hold a space or an `&`.

### Disagreements between the code and its pages

These runs end in a counterexample, which `findings` in `PROJECT.json` explains.

| Run | Property | What happens |
|---|---|---|
| `scan_list` | `ListedRecordsExist` | the list is freed after the flag was seen down, before it is sent |
| `link_fail` | `FailureIsShown` | a failed attempt stops the server that should say so |
| `form_taken` | `OkMeansTaken` | `1..2.3.4` is answered "ok" and stored as 255.255.255.255 |

More follows from the code directly, and is listed with the hazards instead of a
run: a save that fails is answered "ok" all the same (`http_server.c:377`); a
refused scan is reported as running for ever (`wificgi.c:314`); "connected"
stays on the pages after the driver (`wifi.c:65`) or the MQTT client
(`mqtt_log.c:181`) was stopped on purpose; a new MQTT server is used with the old
topic (`mqtt_log.c:197`); saving the settings without typing the MQTT password
again deletes it (`UntouchedSaveKeeps` says so); an address with a leading zero is
read as octal; with nothing in flash no password can be set but by a hard reset.

### Fairness

* Tasks: FreeRTOS runs every task that is ready and no task of the program spins,
  so steps of a task are weakly fair. The environment owes nothing: no user, no
  pulse and no reset is forced to come.
* Semaphores are queues: taking one is strongly fair.
* The timer task serves timers in the order they fall due, and posts to the event
  queue are served in order: strongly fair. httpd looks at its control socket
  before it accepts a request, so `httpd_stop` is not starved.
* The radio ends a scan it started and an attempt to connect it made; a broker
  that stays connected acknowledges. These are assumptions on the outside.
* `mqtt`: a timer that is armed falls due. It would not if errors kept re-arming
  it more often than every thirty seconds.
* `bus`: the sensor ends what a reset began, once per boot; seconds pass. Steps of
  the sensor task and of SNTP are strongly fair because they wait for semaphores
  that are handed over in turn.
* `button`: an interrupt is served and a timer falls due; nobody has to press.
* `form`: no fairness; it has safety properties only.

## 4. Proofs

The theorems hold for every value of the constants that satisfies the named
assumptions: any length of the ring and any modulus; any set of readers, addresses
and passwords; any heap; any networks, retries and lengths of queues; any pages,
tokens and texts. Every invariant and every refinement that a passing run checks,
and its action properties, are theorems; a run shows them on a small instance.

*Counter.* `TypeOK` is not enough to show that a read is atomic. The invariant
`IInv` adds, per reader, where the slots that were overwritten since the call
lie: with `ticks[r]` ticks, a slot still equals its value at the call unless it
is among the `ticks[r]` slots behind the index. With at most one tick the loop
has passed the overwritten slot or not, which gives one ring or the other
(`ReadAtomic`); with fewer than a turn, each slot is from one of two rings
(`ReadMixes`). A second part relates `uptime`, `early` and the age of the filled
slots (`GateIsSufficient`). `Refinement` shows that `Tick` is `EndSecond` under
the mapping from slots to ages, `Pulse` is `Count`, and the rest stutters.
`RateIsOfOneWindow` is about the sum. `SumInv` says that `result` is what the slots
seen so far add up to, modulo the width; with `ReadAtomic` this makes it the total
of one ring. `WindowTotal` shows that the ring adds up to the same in the order of
its slots and in the order of their ages, wherever the index is: going round from
the index splits it into two runs of slots, and each of them is a sum of its own.

*Store.* `IInv` says what each label of a task means for its copy: at "set" the
copy of httpd is what the requests ask for, at "store" and "commit" it is what
RAM holds; only the holder of the semaphore has fields left to copy; and a pending
change of the interface is always paired with an armed timer or a handler that
will arm one. Each action has a lemma.

`StoreIsDurable` is the refinement. Nothing is seen of a request until `GiveSem`
ends `config_set_new`, and what is stored by then must differ from the value only in
the fields of that request: `EditInv` says so of the copy httpd is about to write
back, from the step that accepts the form to the one that gives the semaphore back.
It rests on `CopyInForce`: whoever waits for a body holds a copy of the
configuration in force, since httpd is the only task that stores. The blob that is
handed over and committed is the value, for the same reason (`SavesInForce`).
`HolderNeverWaits` is the part of `RequestsFinish` that is a matter of safety:
nobody has the semaphore while waiting for anything.

*Scan.* `NoDoubleFree` needs no more than `PointerInv`: the pointer leads to a list
except between `free` and the assignment after it, and the handler that runs in
between puts a fresh list there. `NoLeak` and `ListWhenQuiet` speak of a scan whose
callbacks were not interrupted (`CalmInv`): `TurnInv` says that only one of the two
then is at work, `HeapInv` that the pointer is cleared before a scan starts,
`FlagInv` that the flag is up whenever a list is about to be replaced. Nothing of this
is asked of the scans before: `BeginsAnew` shows that it holds when the timer callback
begins, from `PointerInv` alone.

*Link.* `HandleInv` says that the handle is that of an instance that runs, and that of
`app_main` and the event task one at most has made an instance that it has not stored
yet; which of the two stores last then does not matter to `HandleIsKept`. `FormInv`
follows the last form from the two globals through the copy of the timer task into
the driver: while httpd copies there is no last form, and from then on the timer can
only find that one, whoever armed it. `PairInv` says the same of names that are not
empty. The type invariant rests on it (the driver is never given the empty name) and on
`QueueInv` (a mode that was asked for finds the queue within its bound).

*Log.* `ChainIsAlive` is nearly inductive: what it lacks is that a connection is not
made before the loss of the one before was told (`LossInv`). `StartInv` says the
handler for the loss is registered before the client starts. `LogIsAFollower`
needs that nobody starts or watches a client before it was made (`BootInv`).

*Log and link.* `LinkIsUnchanged` carries the theorems about the link over. `RunInv`
says that a client that runs is watched, and that its station has its address or
the loss waits in the queue. It holds after an address was heard because of
`Stands`: behind every address that waits there is the loss of it, unless the
station still has it. `DriveTells` and `RadioTells` say that the driver keeps that
up whatever it does, `HearingTells` that taking the first event does.

*Bus.* `BusInv` says that the task and SNTP start only after `app_main` has used the
bus for the last time, and hold `i2cSemaphore` from then on whenever they do.
`ClockInv` follows the register from a read to the write after it: as long as this
boot's transfers succeed each step finds what the one before left, and as long as
none ever failed nobody has seen a stopped oscillator, or turned on a wave of
another rate. `TimeInv` says that a time that was stored in the DS3231 whole is
still there as long as the oscillator runs on battery, whatever other transfers
failed, and that TZ is not set before `SetTime`. `WholeInv` says who holds
`bmeSemaphore`, so that values and time stamps belong together, and `GoodInv` that
the sensor is set up before it is measured. `NobodyWaitsInACircle` is the part of
`SyncEnds` and `MeasuringGoesOn` that is a matter of safety: whoever holds a
semaphore is between taking and giving it, only the task of the sensor waits for
one (the data) with another (the bus), and all three exist before anybody takes
them (`CreatedInv`). `TimeIsReadBack` is arithmetic:
`TwoDigits` shows that two decimal digits survive in the two halves of a byte, and
that they do not set the flags of the hour and of the month.

*Button.* `HoldInv` bounds the ticks since `button_timer`, counted modulo the width of
the uptime, by those the button was held and those the interrupt has waited; the
assumptions on the bounds say that a hold is short against that width.

*Forms.* `TokenInv`: no two pages have the same token, and of a page that got its
token first and shows settings that are not true any more the token is void. A
change needs the token that is valid, and only one page has it.
`BoardStaysUsable` follows from what `Valid` demands of the fields that arrive
(`AcceptedKeeps`), for every form and every beginning of one.

`TypeCorrect` needs `Cut` and `Port` to be right for any text: what a body cut
short holds is still a text, what `strtol` clamps is still 32 bits, and whatever
text `is_valid_ip_address` lets pass, lwIP makes four bytes of it
(`AddressIsFourBytes`). `AddressRoundTrip` is the other direction, that each of the
2^32 addresses is read back from the text it is shown as; `UsualAddress` that four
numbers which are not octal are the address they look like. `WholeFormsAreTaken`
and `UntouchedSavesKeep` follow field by field.

*Recursion.* Sums and readings of digits are recursive functions. `SetInduction`
derives induction from the least element of a set (`WFMin` of the library), so that
it takes a set and not an operator; facts like `TotalsEquation` and
`ReadingIs` give their equations, and everything else is arithmetic on them.

Some theorems state what no run checks: `NobodyWaitsInACircle`, `HolderNeverWaits`,
`ClientsAreWatched`, `LinkIsUnchanged`, and those about addresses and times. Left to TLC are the liveness properties, which need fairness and
ENABLED: `RequestsFinish`, `ChangesAreApplied`, `ScanEnds`, `LogGoesOn`,
`HoldRestores`, `StationKeepsTrying`, `ServedOnceConnected`, `AttemptIsDecided`,
`ButtonOpensAp`, `SyncEnds` and `MeasuringGoesOn`.

## 5. Not modelled

* `wifi_init_sta`, `wifi_init_apsta`, `wifi_connect_sta`, `wifi_disconnect_sta`,
  `mqtt_client_stop`, `mqtt_client_deinit`, `http_server_deinit`, and of
  `ds3231.c` the alarms, the flags, the aging offset and the temperature are not
  called by the program.
* Formatting (`constructDataJSON`, `sysinfo.json`, `wifiinfo.json`), static files
  and SPIFFS: no state. `check_authentication` compares a header with the password
  and changes nothing.
* The compensation formulas of the BME280: floating point and 64-bit arithmetic on
  coefficients of the individual chip; a measurement is good or not.
* The servers SNTP asks. `sntp_setservername` keeps pointers, at boot into a block
  of `app_main` that is left (`main.c:204`): what is read there later is up to the
  compiler, and the source says nothing to check it against.
* Memory that runs out, but for the list of the scan: buffers that are not freed on
  errors (`http_server.c:186`) and handles of NVS (`config.c:77`) cost what the
  platform has, which is not in the source.
* `dhcp`, `timezone`, `dls` and the MQTT texts of the form other than the password:
  they are validated like the fields that stand for them, or are a choice of two.

## 6. Plan

Done: the counter, the store, the scan, the link, the log, the bus with its clock
and sensor, the button, the forms, the log on the link. What could follow:

* One module for `app_main`. Its parts are in `SensorBus`, `GeigerCounter`,
  `WifiLink` and `MqttLog`, each against the callbacks it races with.
* Abstract specifications of the scan and of the button, as the store, the counter
  and the log have one.
