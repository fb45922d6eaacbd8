-------------------------- MODULE WifiLink_proofs --------------------------
(***************************************************************************)
(* Proofs about WifiLink, about LinkedLog, which is WifiLink with the log, *)
(* and about LastForm, which remembers the last form: for any networks,    *)
(* any number of retries and a queue of any length.                        *)
(***************************************************************************)
EXTENDS LastForm, SequenceTheorems, TLAPS

\* A form in progress, what it left behind, and the copy the timer task takes.
PairInv ==
  /\ picked \in [ssid : Networks \cup {NoNetwork}, password : Networks \cup {NoNetwork}]
  /\ httpd \in {"passwd", "arm"} => new_ssid = form
  /\ httpd = "arm" => new_password = form
  /\ (connectArmed \/ httpd \in {"passwd", "arm"}) => new_ssid \in Networks
  /\ timer \in {"password", "conStop", "conConfig"} => picked.ssid \in Networks

WantedInv ==
  /\ new_ssid \in Networks \cup {NoNetwork}
  /\ new_password \in Networks \cup {NoNetwork}
  /\ form \in Networks \cup {NoNetwork}

LEMMA ModesAreNoLabels ==
  ASSUME NEW m \in SetModes
  PROVE  m \notin {"idle", "passwd", "arm"}
BY ConstantsAssumption

-----------------------------------------------------------------------------
(* The server and its handle *)

\* The handle is that of an instance that runs.  Of the two that may store it,
\* app_main and the event task, one at most has made an instance, and there is no
\* other then.
HandleInv ==
  /\ server => running
  /\ event = "created" => running /\ ~server /\ main # "created"
  /\ main = "created" => running /\ ~server /\ event # "created"

\* Both facts are kept by every step, the second once http_server_init is over.
LEMMA HandleNext ==
  ASSUME HandleInv, [Next]_vars
  PROVE  HandleInv' /\ (main = "run" /\ HandleTells => HandleTells')
<1> DEFINE Goal == HandleInv' /\ (main = "run" /\ HandleTells => HandleTells')
<1>1. ASSUME UNCHANGED <<server, running, main>>,
             \/ event' = event
             \/ {event, event'} \cap {"created", "failed"} = {}
      PROVE  Goal
  BY <1>1 DEF HandleInv, HandleTells
<1> USE DEF web
<1>2. CASE Radio \/ LinkLost \/ UNCHANGED vars
  BY <1>1, <1>2 DEF Radio, LinkLost, Associate, AttemptFails, RadioStep, vars
<1>3. CASE Main
  <2>1. CASE BootWifi
    BY <2>1 DEF BootWifi, HandleInv, HandleTells
  <2>2. CASE BootRegister
    BY <2>2 DEF BootRegister, BootStep, HandleInv, HandleTells
  <2>3. CASE BootStart
    BY <2>3 DEF BootStart, BootStep, HandleInv, HandleTells
  <2>4. CASE BootStore
    <3>1. CASE main = "created"
      <4>1. server' = TRUE /\ main' = "run" /\ UNCHANGED <<running, event>>
        BY <2>4, <3>1 DEF BootStore, BootStep
      <4> QED
        BY <3>1, <4>1 DEF HandleInv, HandleTells
    <3>2. CASE main = "failed"
      <4>1. server' = FALSE /\ main' = "run" /\ UNCHANGED <<running, event>>
        BY <2>4, <3>2 DEF BootStore, BootStep
      <4> QED
        BY <3>2, <4>1 DEF HandleInv, HandleTells
    <3> QED
      BY <2>4, <3>1, <3>2 DEF BootStore, BootStep
  <2> QED
    BY <1>3, <2>1, <2>2, <2>3, <2>4 DEF Main
<1>4. CASE OnStaStart \/ OnStaDisconnected \/ OnGotIp \/ OnApStart
  <2>1. UNCHANGED <<server, running, main>> /\ event = "idle"
        /\ event' \in {"connect", "retry", "stop", "serve", "idle"}
    BY <1>4
    DEF OnStaStart, OnStaDisconnected, OnGotIp, OnApStart, Take, EventStep,
        ThenStop, ThenServe
  <2> QED
    BY <1>1, <2>1
<1>5. CASE FirstConnect \/ StaStarted \/ Retry \/ GiveUp
  <2>1. UNCHANGED <<server, running, main>> /\ event \in {"connect", "flag", "retry"}
        /\ event' \in {"flag", "stop", "idle"}
    BY <1>5 DEF FirstConnect, StaStarted, Retry, GiveUp, EventStep, ThenStop
  <2> QED
    BY <1>1, <2>1
<1>6. CASE StopServer
  BY <1>6 DEF StopServer, EventStep, HandleInv, HandleTells
<1>7. CASE StartServer
  BY <1>7 DEF StartServer, EventStep, HandleInv, HandleTells
<1>8. CASE StoreServer
  <2>1. CASE event = "created"
    <3>1. server' = TRUE /\ event' = "idle" /\ UNCHANGED <<running, main>>
      BY <1>8, <2>1 DEF StoreServer, EventStep
    <3> QED
      BY <2>1, <3>1 DEF HandleInv, HandleTells
  <2>2. CASE event = "failed"
    <3>1. server' = FALSE /\ event' = "idle" /\ UNCHANGED <<running, main>>
      BY <1>8, <2>2 DEF StoreServer, EventStep
    <3> QED
      BY <2>2, <3>1 DEF HandleInv, HandleTells
  <2> QED
    BY <1>8, <2>1, <2>2 DEF StoreServer, EventStep
<1>9. CASE PowerCycle \/ \E m \in SetModes : Abort(m)
  <2>1. Reset
    BY <1>9 DEF Abort, PowerCycle
  <2> QED
    BY <2>1 DEF Reset, HandleInv, HandleTells
<1>10. CASE Timer
  <2>1. UNCHANGED <<server, running, main, event>>
    <3>1. CASE ConnectRefused \/ ConnectName \/ ConnectPassword \/ Restore
      BY <3>1 DEF ConnectRefused, ConnectName, ConnectPassword, Restore, TimerStep
    <3>2. CASE StopDriver
      BY <3>2 DEF StopDriver, TimerStep
    <3>3. CASE ApMode \/ StartDriver
      BY <3>3 DEF ApMode, StartDriver, TimerStep
    <3>4. CASE SetStaConfig \/ SetApConfig
      BY <3>4 DEF SetStaConfig, SetApConfig, TimerStep
    <3> QED
      BY <1>10, <3>1, <3>2, <3>3, <3>4 DEF Timer
  <2> QED
    BY <1>1, <2>1
<1>11. CASE Httpd
  BY <1>1, <1>11 DEF Httpd, PostPassword, PostNoPassword, PostArm, HttpdStep
<1>12. ASSUME NEW n \in Networks, PostName(n) PROVE Goal
  BY <1>1, <1>12 DEF PostName, HttpdStep
<1>13. ASSUME NEW m \in SetModes, AskMode(m) \/ SetMode(m) PROVE Goal
  BY <1>1, <1>13 DEF AskMode, SetMode, HttpdStep
<1>14. CASE ButtonHeld
  BY <1>1, <1>14 DEF ButtonHeld
<1> QED
  BY <1>2, <1>3, <1>4, <1>5, <1>6, <1>7, <1>8, <1>9, <1>10, <1>11, <1>12, <1>13, <1>14
  DEF Next, Event

\* No handle is left of an instance that was stopped, in whatever order app_main
\* and the event task start, store and stop; and once http_server_init is over,
\* no event takes the handle and the server apart.
THEOREM HandleKept == Spec => HandleIsKept
<1>1. Init => HandleInv
  BY DEF Init, HandleInv
<1>2. HandleInv /\ [Next]_vars => HandleInv'
  BY HandleNext
<1>3. HandleInv /\ [Next]_vars =>
        [(server' => running') /\ (main = "run" /\ HandleTells => HandleTells')]_vars
  BY HandleNext DEF HandleInv
<1> QED
  BY <1>1, <1>2, <1>3, PTL DEF Spec, HandleIsKept

-----------------------------------------------------------------------------
(* The name and the password *)

LEMMA WantedNext == WantedInv /\ [Next]_vars => WantedInv'
<1> SUFFICES ASSUME WantedInv, [Next]_vars PROVE WantedInv'
  OBVIOUS
<1> USE DEF WantedInv
<1>1. CASE UNCHANGED vars \/ Radio \/ LinkLost \/ Main \/ ButtonHeld
  BY <1>1
  DEF vars, wanted, Radio, LinkLost, Associate, AttemptFails, RadioStep,
      Main, BootWifi, BootRegister, BootStart, BootStore, BootStep, ButtonHeld
<1>2. CASE Event
  BY <1>2
  DEF Event, OnStaStart, OnStaDisconnected, OnGotIp, OnApStart, Take, FirstConnect,
      StaStarted, Retry, GiveUp, StopServer, StartServer, StoreServer, EventStep, wanted
<1>3. CASE PowerCycle \/ \E m \in SetModes : Abort(m)
  BY <1>3 DEF Abort, PowerCycle, Reset
<1>4. CASE \/ ConnectRefused \/ ConnectName \/ ConnectPassword \/ Restore
           \/ StopDriver \/ ApMode \/ SetStaConfig \/ SetApConfig \/ StartDriver
  BY <1>4
  DEF ConnectRefused, ConnectName, ConnectPassword, Restore, StopDriver, ApMode,
      SetStaConfig, SetApConfig, StartDriver, TimerStep, wanted
<1>5. CASE Httpd
  BY <1>5 DEF Httpd, PostPassword, PostNoPassword, PostArm, wanted
<1>6. ASSUME NEW n \in Networks, PostName(n) PROVE WantedInv'
  BY <1>6 DEF PostName
<1>7. ASSUME NEW m \in SetModes, AskMode(m) \/ SetMode(m) PROVE WantedInv'
  BY <1>7 DEF AskMode, SetMode, wanted
<1> QED
  BY <1>1, <1>2, <1>3, <1>4, <1>5, <1>6, <1>7 DEF Next, Timer

\* The steps that leave names, passwords and their timer alone.
LEMMA PairUnchanged ==
  ASSUME PairInv,
         UNCHANGED <<staConfig, wanted, connectArmed, timer, httpd, form, picked>>
  PROVE  PairInv'
BY DEF PairInv, wanted

LEMMA PairNext == WantedInv /\ PairInv /\ [Next]_vars => PairInv'
<1> SUFFICES ASSUME WantedInv, PairInv, [Next]_vars PROVE PairInv'
  OBVIOUS
<1>1. CASE UNCHANGED vars \/ Radio \/ LinkLost \/ Main \/ ButtonHeld
  BY <1>1, PairUnchanged
  DEF vars, wanted, flashed, armed, Radio, LinkLost, Associate, AttemptFails, RadioStep,
      Main, BootWifi, BootRegister, BootStart, BootStore, BootStep, ButtonHeld
<1>2. CASE Event
  BY <1>2, PairUnchanged
  DEF Event, OnStaStart, OnStaDisconnected, OnGotIp, OnApStart, Take, FirstConnect,
      StaStarted, Retry, GiveUp, StopServer, StartServer, StoreServer, EventStep,
      wanted, flashed, armed
<1>3. CASE PowerCycle \/ \E m \in SetModes : Abort(m)
  BY <1>3 DEF PairInv, Abort, PowerCycle, Reset, Pair, flashed
<1>4. CASE ConnectRefused
  BY <1>4 DEF PairInv, ConnectRefused, TimerStep, flashed, wanted
<1>5. CASE ConnectName
  BY <1>5 DEF PairInv, WantedInv, ConnectName, TimerStep, Pair, flashed, wanted
<1>6. CASE ConnectPassword
  BY <1>6 DEF PairInv, WantedInv, ConnectPassword, TimerStep, flashed, wanted, armed
<1>7. CASE Restore
  BY <1>7 DEF PairInv, Restore, TimerStep, flashed, wanted
<1>8. CASE StopDriver \/ ApMode \/ SetApConfig
  <2>1. /\ UNCHANGED <<staConfig, wanted, connectArmed, httpd, form, picked>>
        /\ \/ timer = "conStop" /\ timer' = "conConfig"
           \/ timer' \in {"apMode", "apConfig", "start"}
    <3>1. CASE StopDriver
      BY <3>1 DEF StopDriver, TimerStep, armed
    <3>2. CASE ApMode
      BY <3>2 DEF ApMode, TimerStep, armed
    <3>3. CASE SetApConfig
      BY <3>3 DEF SetApConfig, TimerStep, flashed, armed
    <3> QED
      BY <1>8, <3>1, <3>2, <3>3
  <2> QED
    BY <2>1 DEF PairInv, wanted
<1>9. CASE SetStaConfig
  BY <1>9 DEF PairInv, SetStaConfig, TimerStep, wanted, armed
<1>10. CASE StartDriver
  BY <1>10 DEF PairInv, StartDriver, TimerStep, Pair, wanted, armed
<1>11. CASE PostPassword
  BY <1>11 DEF PairInv, PostPassword, HttpdStep
<1>12. CASE PostNoPassword
  BY <1>12 DEF PairInv, PostNoPassword, HttpdStep, wanted
<1>13. CASE PostArm
  BY <1>13 DEF PairInv, PostArm, HttpdStep, wanted
<1>14. ASSUME NEW n \in Networks, PostName(n) PROVE PairInv'
  BY <1>14 DEF PairInv, PostName, HttpdStep
<1>15. ASSUME NEW m \in SetModes, AskMode(m) \/ SetMode(m) PROVE PairInv'
  BY <1>15, ModesAreNoLabels DEF PairInv, AskMode, SetMode, HttpdStep, wanted
<1> QED
  BY <1>1, <1>2, <1>3, <1>4, <1>5, <1>6, <1>7, <1>8, <1>9, <1>10, <1>11, <1>12,
     <1>13, <1>14, <1>15 DEF Next, Timer, Httpd

-----------------------------------------------------------------------------
(* Types, and the length of the queue *)

\* A mode that was asked for still finds the queue within its bound.
QueueInv == httpd \in SetModes => Len(queue) <= QueueMax

Told == Seq(Kinds)

\* What the driver does keeps the types, and posts at most two events.
LEMMA DriveTypes ==
  ASSUME NEW on \in BOOLEAN, NEW m \in Modes, TypeOK, Drive(on, m)
  PROVE  /\ started' \in BOOLEAN /\ mode' \in Modes /\ ap' \in BOOLEAN
         /\ sta' \in {"off", "idle", "connecting", "connected"}
         /\ queue' \in Told /\ Len(queue') <= Len(queue) + 2
<1> DEFINE toSta == on /\ HasSta(m)
           toAp == on /\ HasAp(m)
<1>1. PICK telling \in {{"connected"}, {"connected", "connecting"}} :
        queue' = queue
                 \o (IF ~toSta /\ sta \in telling THEN <<"STA_DISCONNECTED">> ELSE <<>>)
                 \o (IF toSta /\ sta = "off" THEN <<"STA_START">> ELSE <<>>)
                 \o (IF toAp /\ ~ap THEN <<"AP_START">> ELSE <<>>)
  BY DEF Drive
<1> DEFINE lost == IF ~toSta /\ sta \in telling THEN <<"STA_DISCONNECTED">> ELSE <<>>
           up == IF toSta /\ sta = "off" THEN <<"STA_START">> ELSE <<>>
           apUp == IF toAp /\ ~ap THEN <<"AP_START">> ELSE <<>>
<1>2. lost \in Told /\ up \in Told /\ apUp \in Told
  <2>1. <<>> \in Told
    BY DEF Told
  <2>2. \A kind \in Kinds : <<kind>> \in Told
    BY DEF Told
  <2>3. {"STA_DISCONNECTED", "STA_START", "AP_START"} \subseteq Kinds
    BY DEF Kinds
  <2>4. /\ <<"STA_DISCONNECTED">> \in Told /\ <<"STA_START">> \in Told
        /\ <<"AP_START">> \in Told
    BY <2>2, <2>3
  <2> QED
    BY <2>1, <2>4
<1>3. Len(lost) + Len(up) <= 1 /\ Len(apUp) <= 1
  <2>1. CASE toSta
    <3>1. lost = <<>> /\ Len(lost) = 0
      BY <2>1
    <3>2. Len(up) <= 1 /\ Len(apUp) <= 1
      OBVIOUS
    <3> QED
      BY <3>1, <3>2, <1>2, LenProperties DEF Told
  <2>2. CASE ~toSta
    <3>1. up = <<>> /\ Len(up) = 0
      BY <2>2
    <3>2. Len(lost) <= 1 /\ Len(apUp) <= 1
      OBVIOUS
    <3> QED
      BY <3>1, <3>2, <1>2, LenProperties DEF Told
  <2> QED
    BY <2>1, <2>2
<1>4. queue \in Told
  BY DEF TypeOK, Told
<1>5. queue' \in Told /\ Len(queue') = Len(queue) + Len(lost) + Len(up) + Len(apUp)
  <2> HIDE DEF lost, up, apUp
  <2>1. queue' = ((queue \o lost) \o up) \o apUp
    BY <1>1 DEF lost, up, apUp
  <2>2. queue \o lost \in Told /\ Len(queue \o lost) = Len(queue) + Len(lost)
    BY <1>2, <1>4, ConcatProperties DEF Told
  <2>3. /\ (queue \o lost) \o up \in Told
        /\ Len((queue \o lost) \o up) = Len(queue \o lost) + Len(up)
    BY <1>2, <2>2, ConcatProperties DEF Told
  <2>4. /\ ((queue \o lost) \o up) \o apUp \in Told
        /\ Len(((queue \o lost) \o up) \o apUp) = Len((queue \o lost) \o up) + Len(apUp)
    BY <1>2, <2>3, ConcatProperties DEF Told
  <2> QED
    BY <2>1, <2>2, <2>3, <2>4
<1>6. Len(queue') <= Len(queue) + 2
  <2> HIDE DEF lost, up, apUp
  <2>1. /\ Len(queue) \in Nat /\ Len(lost) \in Nat
        /\ Len(up) \in Nat /\ Len(apUp) \in Nat
    BY <1>2, <1>4, LenProperties DEF Told
  <2> QED
    BY <1>3, <1>5, <2>1
<1>7. /\ started' \in BOOLEAN /\ mode' \in Modes /\ ap' \in BOOLEAN
      /\ sta' \in {"off", "idle", "connecting", "connected"}
  BY DEF Drive, TypeOK, HasAp, HasSta
<1> QED
  BY <1>5, <1>6, <1>7

QueueType == queue \in Told /\ Len(queue) <= QueueMax + 2

LEMMA QueueNat == ASSUME TypeOK PROVE queue \in Told /\ Len(queue) \in Nat
<1>1. queue \in Told
  BY DEF TypeOK, Told
<1> QED
  BY <1>1, LenProperties DEF Told

\* Events come in at the end of the queue and go out at its front.
LEMMA PostTypes ==
  ASSUME TypeOK, NEW kind \in Kinds, Post(kind)
  PROVE  QueueType' /\ Len(queue') <= QueueMax
<1>1. queue' \in Told /\ Len(queue') = Len(queue) + 1
  BY QueueNat, AppendProperties DEF Told, Post
<1> QED
  BY <1>1, QueueNat, ConstantsAssumption DEF QueueType, Post

LEMMA TakeTypes ==
  ASSUME TypeOK, queue # <<>>, queue' = Tail(queue)
  PROVE  QueueType' /\ Len(queue') <= Len(queue)
<1>1. queue' \in Told /\ Len(queue') = Len(queue) - 1
  BY QueueNat, HeadTailProperties DEF Told
<1>2. Len(queue) <= QueueMax + 2
  BY DEF TypeOK
<1> QED
  BY <1>1, <1>2, QueueNat, ConstantsAssumption DEF QueueType

\* The part of TypeOK that is not about the driver.
StatusType ==
  /\ sta_reconnect \in {0, 1}
  /\ s_retry_num \in 0 .. MaxRetry
  /\ conTryStatus \in {"idle", "working", "success", "fail"}

ProgramType ==
  /\ staConfig \in [ssid : Networks, password : Networks \cup {NoNetwork}]
  /\ connectArmed \in BOOLEAN /\ restoreArmed \in BOOLEAN
  /\ server \in BOOLEAN /\ running \in BOOLEAN
  /\ main \in {"wifi", "register", "start", "created", "failed", "run"}
  /\ event \in {"idle", "connect", "flag", "retry", "stop", "serve", "created", "failed"}
  /\ timer \in {"idle", "password", "conStop", "conConfig", "apStop", "apMode",
                "apConfig", "start"}
  /\ httpd \in {"idle", "passwd", "arm"} \cup SetModes
  /\ picked \in [ssid : Networks \cup {NoNetwork}, password : Networks \cup {NoNetwork}]

DriverType ==
  /\ mode \in Modes /\ started \in BOOLEAN /\ ap \in BOOLEAN
  /\ sta \in {"off", "idle", "connecting", "connected"}

LEMMA TypeParts ==
  TypeOK <=> StatusType /\ ProgramType /\ DriverType /\ WantedInv /\ QueueType
BY DEF TypeOK, StatusType, ProgramType, DriverType, WantedInv, QueueType, Told

-----------------------------------------------------------------------------
LEMMA StatusNext == StatusType /\ [Next]_vars => StatusType'
<1> SUFFICES ASSUME StatusType, [Next]_vars PROVE StatusType'
  OBVIOUS
<1> USE DEF StatusType
<1>1. CASE UNCHANGED vars \/ Radio \/ LinkLost \/ Main \/ ButtonHeld
  BY <1>1
  DEF vars, status, Radio, LinkLost, Associate, AttemptFails, RadioStep,
      Main, BootWifi, BootRegister, BootStart, BootStore, BootStep, ButtonHeld
<1>2. CASE OnStaStart \/ OnStaDisconnected \/ OnApStart \/ FirstConnect
             \/ StopServer \/ StartServer \/ StoreServer
  BY <1>2
  DEF OnStaStart, OnStaDisconnected, OnApStart, FirstConnect, StopServer, StartServer,
      StoreServer, status
<1>3. CASE OnGotIp \/ StaStarted \/ GiveUp
  BY <1>3, ConstantsAssumption DEF OnGotIp, StaStarted, GiveUp
<1>4. CASE Retry
  <2>1. s_retry_num' \in 0 .. MaxRetry
    BY <1>4, ConstantsAssumption DEF Retry
  <2> QED
    BY <1>4, <2>1 DEF Retry
<1>5. CASE PowerCycle \/ \E m \in SetModes : Abort(m)
  BY <1>5, ConstantsAssumption DEF Abort, PowerCycle, Reset
<1>6. CASE ConnectRefused \/ ConnectName \/ SetStaConfig \/ SetApConfig
             \/ StopDriver \/ ApMode \/ StartDriver
  <2>1. UNCHANGED status
    <3>1. CASE ConnectRefused \/ ConnectName
      BY <3>1 DEF ConnectRefused, ConnectName, TimerStep, status
    <3>2. CASE SetStaConfig \/ SetApConfig
      BY <3>2 DEF SetStaConfig, SetApConfig, TimerStep, status
    <3>3. CASE StopDriver
      BY <3>3 DEF StopDriver, TimerStep, status
    <3>4. CASE ApMode \/ StartDriver
      BY <3>4 DEF ApMode, StartDriver, TimerStep, status
    <3> QED
      BY <1>6, <3>1, <3>2, <3>3, <3>4
  <2> QED
    BY <2>1 DEF status
<1>7. CASE ConnectPassword \/ Restore
  BY <1>7 DEF ConnectPassword, Restore, TimerStep
<1>8. CASE Httpd
  BY <1>8 DEF Httpd, PostPassword, PostNoPassword, PostArm, HttpdStep, status
<1>9. ASSUME NEW n \in Networks, PostName(n) PROVE StatusType'
  BY <1>9 DEF PostName, HttpdStep, status
<1>10. ASSUME NEW m \in SetModes, AskMode(m) \/ SetMode(m) PROVE StatusType'
  BY <1>10 DEF AskMode, SetMode, HttpdStep, status
<1> QED
  BY <1>1, <1>2, <1>3, <1>4, <1>5, <1>6, <1>7, <1>8, <1>9, <1>10 DEF Next, Event, Timer

LEMMA ProgramNext == WantedInv /\ PairInv /\ ProgramType /\ [Next]_vars => ProgramType'
<1> SUFFICES ASSUME WantedInv, PairInv, ProgramType, [Next]_vars PROVE ProgramType'
  OBVIOUS
<1> USE DEF ProgramType
<1>1. CASE UNCHANGED vars \/ Radio \/ LinkLost
  BY <1>1
  DEF vars, flashed, armed, web, Radio, LinkLost, Associate, AttemptFails, RadioStep
<1>2. CASE Main
  <2>1. CASE BootWifi
    BY <2>1 DEF BootWifi, armed, web
  <2>2. CASE BootRegister \/ BootStart \/ BootStore
    <3>1. main' \in {"wifi", "register", "start", "created", "failed", "run"}
      BY <2>2 DEF BootRegister, BootStart, BootStore, BootStep
    <3>2. server' \in BOOLEAN /\ running' \in BOOLEAN
      BY <2>2 DEF BootRegister, BootStart, BootStore, web
    <3>3. UNCHANGED <<staConfig, connectArmed, restoreArmed, event, timer, httpd, picked>>
      BY <2>2 DEF BootRegister, BootStart, BootStore, BootStep, flashed, armed
    <3> QED
      BY <3>1, <3>2, <3>3
  <2> QED
    BY <1>2, <2>1, <2>2 DEF Main
<1>3. CASE OnStaStart \/ OnStaDisconnected \/ OnGotIp \/ OnApStart
  BY <1>3
  DEF OnStaStart, OnStaDisconnected, OnGotIp, OnApStart, Take, EventStep, ThenStop,
      ThenServe, flashed, armed, web
<1>4. CASE FirstConnect \/ StaStarted \/ Retry \/ GiveUp
  BY <1>4
  DEF FirstConnect, StaStarted, Retry, GiveUp, EventStep, ThenStop, flashed, armed, web
<1>5. CASE StopServer
  <2>1. server' \in BOOLEAN /\ running' \in BOOLEAN
    BY <1>5 DEF StopServer, web
  <2> QED
    BY <1>5, <2>1 DEF StopServer, EventStep, flashed, armed
<1>6. CASE StartServer
  <2>1. running' \in BOOLEAN
    BY <1>6 DEF StartServer
  <2> QED
    BY <1>6, <2>1 DEF StartServer, EventStep, flashed, armed
<1>7. CASE StoreServer
  <2>1. server' \in BOOLEAN
    BY <1>7 DEF StoreServer
  <2> QED
    BY <1>7, <2>1 DEF StoreServer, EventStep, flashed, armed
<1>8. CASE PowerCycle \/ \E m \in SetModes : Abort(m)
  <2>1. Reset
    BY <1>8 DEF Abort, PowerCycle
  <2>2. /\ connectArmed' \in BOOLEAN /\ restoreArmed' \in BOOLEAN
        /\ server' \in BOOLEAN /\ running' \in BOOLEAN
    BY <2>1 DEF Reset
  <2>3. /\ main' = "wifi" /\ event' = "idle" /\ timer' = "idle" /\ httpd' = "idle"
        /\ picked' = Pair(NoNetwork, NoNetwork)
        /\ UNCHANGED staConfig
    BY <2>1 DEF Reset, flashed
  <2> QED
    BY <2>2, <2>3 DEF Pair
<1>9. CASE ConnectRefused
  <2>1. connectArmed' \in BOOLEAN
    BY <1>9 DEF ConnectRefused
  <2>2. timer' = "idle" /\ UNCHANGED <<staConfig, restoreArmed, server, running, main, event,
                                      httpd, picked>>
    BY <1>9 DEF ConnectRefused, TimerStep, flashed, web
  <2> QED
    BY <2>1, <2>2
<1>10. CASE ConnectName
  <2>1. picked' \in [ssid : Networks \cup {NoNetwork}, password : Networks \cup {NoNetwork}]
    BY <1>10 DEF ConnectName, Pair, WantedInv
  <2> QED
    BY <1>10, <2>1 DEF ConnectName, TimerStep, flashed, web
<1>11. CASE ConnectPassword
  BY <1>11 DEF ConnectPassword, TimerStep, WantedInv, flashed, armed, web
<1>12. CASE Restore
  <2>1. restoreArmed' \in BOOLEAN
    BY <1>12 DEF Restore
  <2>2. timer' = "apStop" /\ UNCHANGED <<staConfig, connectArmed, server, running, main, event,
                                        httpd, picked>>
    BY <1>12 DEF Restore, TimerStep, flashed, web
  <2> QED
    BY <2>1, <2>2
<1>13. CASE StopDriver
  BY <1>13 DEF StopDriver, TimerStep, armed, web
<1>14. CASE ApMode
  BY <1>14 DEF ApMode, TimerStep, armed, web
<1>15. CASE SetApConfig
  BY <1>15 DEF SetApConfig, TimerStep, flashed, armed, web
<1>16. CASE SetStaConfig
  <2>1. staConfig' \in [ssid : Networks, password : Networks \cup {NoNetwork}]
    BY <1>16 DEF SetStaConfig, TimerStep, PairInv
  <2> QED
    BY <1>16, <2>1 DEF SetStaConfig, TimerStep, armed, web
<1>17. CASE StartDriver
  BY <1>17 DEF StartDriver, TimerStep, Pair, armed, web
<1>18. CASE PostPassword
  BY <1>18 DEF PostPassword, HttpdStep, web
<1>19. CASE PostNoPassword
  BY <1>19 DEF PostNoPassword, HttpdStep, web
<1>20. CASE PostArm
  BY <1>20 DEF PostArm, HttpdStep, web
<1>21. ASSUME NEW n \in Networks, PostName(n) PROVE ProgramType'
  BY <1>21 DEF PostName, HttpdStep, web
<1>22. ASSUME NEW m \in SetModes, AskMode(m) \/ SetMode(m) PROVE ProgramType'
  BY <1>22 DEF AskMode, SetMode, HttpdStep, web
<1>23. CASE ButtonHeld
  BY <1>23 DEF ButtonHeld, flashed, web
<1> QED
  BY <1>1, <1>2, <1>3, <1>4, <1>5, <1>6, <1>7, <1>8, <1>9, <1>10, <1>11, <1>12, <1>13,
     <1>14, <1>15, <1>16, <1>17, <1>18, <1>19, <1>20, <1>21, <1>22, <1>23
  DEF Next, Event, Timer, Httpd

\* The actions that do without the driver and without its queue.
NoDriver ==
  \/ BootRegister \/ BootStart \/ BootStore
  \/ StaStarted \/ GiveUp \/ StopServer \/ StartServer \/ StoreServer
  \/ ConnectRefused \/ ConnectName \/ ConnectPassword \/ Restore
  \/ SetStaConfig \/ SetApConfig
  \/ Httpd \/ ButtonHeld \/ UNCHANGED vars
  \/ \E n \in Networks : PostName(n)

LEMMA NoDriverUnchanged ==
  ASSUME NoDriver
  PROVE  /\ UNCHANGED <<mode, started, sta, ap, queue>>
         /\ httpd' = httpd \/ httpd' \in {"idle", "passwd", "arm"}
<1> USE DEF flashed, interfaces
<1>1. CASE BootRegister \/ BootStart \/ BootStore
  BY <1>1 DEF BootRegister, BootStart, BootStore, BootStep
<1>2. CASE StaStarted \/ GiveUp \/ StopServer \/ StartServer \/ StoreServer
  BY <1>2 DEF StaStarted, GiveUp, StopServer, StartServer, StoreServer, EventStep
<1>3. CASE ConnectRefused \/ ConnectName \/ ConnectPassword \/ Restore
  BY <1>3 DEF ConnectRefused, ConnectName, ConnectPassword, Restore, TimerStep
<1>4. CASE SetStaConfig \/ SetApConfig
  BY <1>4 DEF SetStaConfig, SetApConfig, TimerStep
<1>5. CASE Httpd
  BY <1>5 DEF Httpd, PostPassword, PostNoPassword, PostArm, HttpdStep
<1>6. CASE ButtonHeld
  BY <1>6 DEF ButtonHeld
<1>7. CASE UNCHANGED vars
  BY <1>7 DEF vars
<1>8. ASSUME NEW n \in Networks, PostName(n)
      PROVE  /\ UNCHANGED <<mode, started, sta, ap, queue>>
             /\ httpd' \in {"idle", "passwd", "arm"}
  BY <1>8 DEF PostName, HttpdStep
<1> QED
  BY <1>1, <1>2, <1>3, <1>4, <1>5, <1>6, <1>7, <1>8 DEF NoDriver

LEMMA QueueNext ==
  TypeOK /\ QueueInv /\ [Next]_vars => DriverType' /\ QueueType' /\ QueueInv'
<1> SUFFICES ASSUME TypeOK, QueueInv, [Next]_vars
             PROVE  DriverType' /\ QueueType' /\ QueueInv'
  OBVIOUS
<1>0. /\ DriverType /\ QueueType
      /\ \A m \in SetModes : m \in Modes /\ m \notin {"idle", "passwd", "arm"}
  BY TypeParts, ConstantsAssumption DEF Modes
\* Whoever posts within the bound leaves the queue within it.
<1>1. ASSUME NEW on \in BOOLEAN, NEW m \in Modes, Drive(on, m), Room
      PROVE  DriverType' /\ QueueType' /\ QueueInv'
  <2>1. DriverType' /\ queue' \in Told
    BY <1>1, DriveTypes DEF DriverType
  <2>2. Len(queue') \in Nat
    BY <2>1, LenProperties DEF Told
  <2> QED
    BY <1>1, <2>1, <2>2, ConstantsAssumption DEF Room, QueueType, QueueInv
<1>2. CASE NoDriver
  <2>1. DriverType' /\ QueueType'
    BY <1>0, <1>2, NoDriverUnchanged DEF DriverType, QueueType
  <2>2. QueueInv'
    BY <1>0, <1>2, NoDriverUnchanged DEF QueueInv
  <2> QED
    BY <2>1, <2>2
<1>3. CASE Radio \/ LinkLost
  <2>1. PICK kind \in Kinds : Post(kind)
    BY <1>3 DEF Radio, LinkLost, Associate, AttemptFails, RadioStep, Kinds
  <2>2. DriverType'
    BY <1>0, <1>3
    DEF Radio, LinkLost, Associate, AttemptFails, RadioStep, DriverType, flashed
  <2> QED
    BY <2>1, <2>2, PostTypes DEF QueueInv
<1>4. CASE OnStaStart \/ OnStaDisconnected \/ OnGotIp \/ OnApStart
  <2>1. /\ queue # <<>> /\ queue' = Tail(queue)
        /\ UNCHANGED <<mode, started, sta, ap, httpd>>
    BY <1>4 DEF OnStaStart, OnStaDisconnected, OnGotIp, OnApStart, Take, EventStep, flashed
  <2>2. DriverType'
    BY <1>0, <2>1 DEF DriverType
  <2>3. QueueType' /\ Len(queue') <= Len(queue)
    BY <2>1, TakeTypes
  <2>4. Len(queue') \in Nat /\ Len(queue) \in Nat
    BY <2>3, QueueNat, LenProperties DEF QueueType, Told
  <2>5. QueueInv'
    BY <2>1, <2>3, <2>4, ConstantsAssumption DEF QueueInv
  <2> QED
    BY <2>2, <2>3, <2>5
<1>5. CASE FirstConnect \/ Retry
  BY <1>0, <1>5
  DEF FirstConnect, Retry, Connect, EventStep, DriverType, QueueType, QueueInv, flashed
<1>6. CASE BootWifi
  BY <1>0, <1>1, <1>6 DEF BootWifi, DriverType
<1>7. CASE StopDriver
  BY <1>0, <1>1, <1>7 DEF StopDriver, DriverType
<1>8. CASE ApMode
  BY <1>0, <1>1, <1>8 DEF ApMode, DriverType, Modes
<1>9. CASE StartDriver
  BY <1>0, <1>1, <1>9 DEF StartDriver, DriverType
<1>10. CASE PowerCycle \/ \E m \in SetModes : Abort(m)
  <2>1. /\ mode' = mode /\ started' = FALSE /\ sta' = "off" /\ ap' = FALSE
        /\ queue' = <<>>
    BY <1>10 DEF Abort, PowerCycle, Reset, flashed
  <2>2. queue' \in Told /\ Len(queue') = 0
    BY <2>1, EmptySeq DEF Told
  <2>3. DriverType'
    BY <1>0, <2>1 DEF DriverType
  <2> QED
    BY <2>2, <2>3, ConstantsAssumption DEF QueueType, QueueInv
<1>11. ASSUME NEW m \in SetModes, AskMode(m)
       PROVE  DriverType' /\ QueueType' /\ QueueInv'
  BY <1>0, <1>11 DEF AskMode, DriverType, QueueType, QueueInv, interfaces
\* httpd may find the queue full, and adds two events at most.
<1>12. ASSUME NEW m \in SetModes, SetMode(m)
       PROVE  DriverType' /\ QueueType' /\ QueueInv'
  <2>1. Len(queue) <= QueueMax /\ httpd' = "idle" /\ Drive(started, m)
    BY <1>12 DEF SetMode, HttpdStep, QueueInv
  <2>2. DriverType' /\ queue' \in Told /\ Len(queue') <= Len(queue) + 2
    BY <1>0, <2>1, DriveTypes DEF DriverType
  <2>3. Len(queue') \in Nat /\ Len(queue) \in Nat
    BY <2>2, QueueNat, LenProperties DEF Told
  <2>4. QueueType'
    BY <2>1, <2>2, <2>3, ConstantsAssumption DEF QueueType
  <2>5. QueueInv'
    BY <1>0, <2>1 DEF QueueInv
  <2> QED
    BY <2>2, <2>4, <2>5
<1> QED
  BY <1>2, <1>3, <1>4, <1>5, <1>6, <1>7, <1>8, <1>9, <1>10, <1>11, <1>12
  DEF Next, Main, Event, Timer, NoDriver

\* The variables of the link keep their types; retries stop at the limit.
THEOREM TypeCorrect == Spec => []TypeOK
<1> DEFINE IInv == TypeOK /\ PairInv /\ QueueInv
<1>1. Init => IInv
  <2> SUFFICES ASSUME Init PROVE IInv
    OBVIOUS
  <2>1. queue \in Told /\ Len(queue) = 0
    BY EmptySeq DEF Init, Told
  <2>2. QueueType /\ QueueInv
    BY <2>1, ConstantsAssumption DEF QueueType, QueueInv
  <2>3. StatusType /\ DriverType
    <3>1. 0 \in 0 .. MaxRetry
      BY ConstantsAssumption
    <3>2. StatusType
      BY <3>1 DEF Init, StatusType
    <3>3. DriverType
      BY DEF Init, DriverType
    <3> QED
      BY <3>2, <3>3
  <2>4. PICK n \in Networks : staConfig = Pair(n, n)
    BY DEF Init
  <2>5. ProgramType /\ WantedInv
    BY <2>4 DEF Init, ProgramType, WantedInv, Pair
  <2>6. PairInv
    BY <2>4 DEF Init, PairInv, Pair
  <2> QED
    BY <2>2, <2>3, <2>5, <2>6, TypeParts
<1>2. IInv /\ [Next]_vars => IInv'
  <2> SUFFICES ASSUME IInv, [Next]_vars PROVE IInv'
    OBVIOUS
  <2>1. /\ StatusType' /\ ProgramType' /\ WantedInv' /\ PairInv'
        /\ DriverType' /\ QueueType' /\ QueueInv'
    BY TypeParts, StatusNext, ProgramNext, WantedNext, PairNext, QueueNext
  <2>2. TypeOK'
    BY <2>1, TypeParts, PTL
  <2> QED
    BY <2>1, <2>2
<1>3. IInv => TypeOK
  OBVIOUS
<1> QED
  BY <1>1, <1>2, <1>3, PTL DEF Spec
-----------------------------------------------------------------------------
(* The log on the link *)

\* With the station s and the events q that wait: its loss is told yet, or it
\* has its address.
Reaches(s, q) == s = "connected" \/ \E i \in DOMAIN q : q[i] = "STA_DISCONNECTED"

\* An address that waits to be told is still there, or its loss waits behind it.
Stands(s, q) ==
  \A i \in DOMAIN q : q[i] = "STA_GOT_IP" =>
    \/ s = "connected"
    \/ \E j \in DOMAIN q : j > i /\ q[j] = "STA_DISCONNECTED"

\* Whoever runs, or is about to, is watched and will be told.
RunInv ==
  (step # "stop" /\ (client = "running" \/ step = "start")) =>
    watching /\ Reaches(sta, queue)

LogType == step \in {"idle", "start", "stop"} /\ client \in {"none", "stopped", "running"}

RunsInv == Stands(sta, queue) /\ RunInv /\ LogType

\* What comes in at the end of the queue tells of the loss of the station, if
\* it is lost.
LEMMA MoreEvents ==
  ASSUME NEW q \in Seq(Kinds), NEW more \in Seq(Kinds), NEW s, NEW t,
         s = "connected" => \/ t = "connected"
                           \/ \E k \in DOMAIN more : more[k] = "STA_DISCONNECTED",
         (\E k \in DOMAIN more : more[k] = "STA_GOT_IP") => t = "connected",
         Stands(s, q)
  PROVE  /\ Stands(t, q \o more)
         /\ Reaches(s, q) => Reaches(t, q \o more)
<1> DEFINE all == q \o more
<1>1. /\ Len(q) \in Nat /\ Len(more) \in Nat
      /\ DOMAIN q = 1 .. Len(q) /\ DOMAIN more = 1 .. Len(more)
      /\ all \in Seq(Kinds) /\ DOMAIN all = 1 .. (Len(q) + Len(more))
  BY LenProperties, ConcatProperties
<1>2. /\ \A i \in 1 .. Len(q) : all[i] = q[i]
      /\ \A k \in 1 .. Len(more) : all[Len(q) + k] = more[k]
  BY <1>1, ConcatProperties
<1> HIDE DEF all
<1>3. ASSUME NEW k \in DOMAIN more, more[k] = "STA_DISCONNECTED"
      PROVE  /\ Len(q) + k \in DOMAIN all
             /\ all[Len(q) + k] = "STA_DISCONNECTED"
             /\ \A i \in DOMAIN q : Len(q) + k > i
  BY <1>1, <1>2, <1>3
<1>4. Reaches(s, q) => Reaches(t, all)
  <2>1. ASSUME NEW i \in DOMAIN q, q[i] = "STA_DISCONNECTED" PROVE Reaches(t, all)
    BY <1>1, <1>2, <2>1 DEF Reaches
  <2>2. CASE s = "connected"
    BY <1>3, <2>2 DEF Reaches
  <2> QED
    BY <2>1, <2>2 DEF Reaches
<1>5. ASSUME NEW i \in DOMAIN all, all[i] = "STA_GOT_IP", t # "connected"
      PROVE  \E j \in DOMAIN all : j > i /\ all[j] = "STA_DISCONNECTED"
  <2>1. i \in DOMAIN q
    <3>1. CASE i > Len(q)
      <4>1. i - Len(q) \in DOMAIN more /\ i = Len(q) + (i - Len(q))
        BY <1>1, <3>1
      <4>2. more[i - Len(q)] = "STA_GOT_IP"
        BY <1>1, <1>2, <1>5, <4>1
      <4> QED
        BY <1>5, <4>1, <4>2
    <3> QED
      BY <1>1, <3>1
  <2>2. q[i] = "STA_GOT_IP"
    BY <1>1, <1>2, <1>5, <2>1
  <2>3. CASE s = "connected"
    BY <1>3, <1>5, <2>1, <2>3
  <2>4. CASE s # "connected"
    <3>1. PICK j \in DOMAIN q : j > i /\ q[j] = "STA_DISCONNECTED"
      BY <2>1, <2>2, <2>4 DEF Stands
    <3> QED
      BY <1>1, <1>2, <3>1
  <2> QED
    BY <2>3, <2>4
<1>6. Stands(t, all)
  BY <1>5 DEF Stands
<1> QED
  BY <1>4, <1>6 DEF all

\* What the driver does to the station it tells, in that order.
LEMMA DriveTells ==
  ASSUME NEW on \in BOOLEAN, NEW m \in Modes, TypeOK, Drive(on, m), Stands(sta, queue)
  PROVE  /\ Stands(sta', queue')
         /\ Reaches(sta, queue) => Reaches(sta', queue')
<1> DEFINE toSta == on /\ HasSta(m)
           toAp == on /\ HasAp(m)
<1>1. PICK telling \in {{"connected"}, {"connected", "connecting"}} :
        queue' = queue
                 \o (IF ~toSta /\ sta \in telling THEN <<"STA_DISCONNECTED">> ELSE <<>>)
                 \o (IF toSta /\ sta = "off" THEN <<"STA_START">> ELSE <<>>)
                 \o (IF toAp /\ ~ap THEN <<"AP_START">> ELSE <<>>)
  BY DEF Drive
<1> DEFINE lost == IF ~toSta /\ sta \in telling THEN <<"STA_DISCONNECTED">> ELSE <<>>
           up == IF toSta /\ sta = "off" THEN <<"STA_START">> ELSE <<>>
           apUp == IF toAp /\ ~ap THEN <<"AP_START">> ELSE <<>>
<1>2. /\ lost \in {<<>>, <<"STA_DISCONNECTED">>}
      /\ up \in {<<>>, <<"STA_START">>} /\ apUp \in {<<>>, <<"AP_START">>}
  OBVIOUS
<1>3. sta = "connected" => sta' = "connected" \/ lost = <<"STA_DISCONNECTED">>
  BY DEF Drive
<1>4. queue' = ((queue \o lost) \o up) \o apUp
  BY <1>1
<1> HIDE DEF lost, up, apUp
<1>5. lost \in Seq(Kinds) /\ up \in Seq(Kinds) /\ apUp \in Seq(Kinds)
  <2>1. \A kind \in Kinds : <<kind>> \in Seq(Kinds)
    OBVIOUS
  <2>2. <<>> \in Seq(Kinds)
    OBVIOUS
  <2>3. /\ <<"STA_DISCONNECTED">> \in Seq(Kinds)
        /\ <<"STA_START">> \in Seq(Kinds) /\ <<"AP_START">> \in Seq(Kinds)
    BY <2>1 DEF Kinds
  <2> QED
    BY <1>2, <2>2, <2>3
<1>6. /\ \A k \in DOMAIN lost : lost[k] # "STA_GOT_IP"
      /\ \A k \in DOMAIN up : up[k] # "STA_GOT_IP"
      /\ \A k \in DOMAIN apUp : apUp[k] # "STA_GOT_IP"
  BY <1>2
<1>7. sta = "connected" => \/ sta' = "connected"
                           \/ \E k \in DOMAIN lost : lost[k] = "STA_DISCONNECTED"
  BY <1>3
<1>8. queue \in Seq(Kinds)
  BY DEF TypeOK
<1>9. /\ Stands(sta', queue \o lost)
      /\ Reaches(sta, queue) => Reaches(sta', queue \o lost)
  BY <1>5, <1>6, <1>7, <1>8, MoreEvents
<1>10. queue \o lost \in Seq(Kinds) /\ (queue \o lost) \o up \in Seq(Kinds)
  BY <1>5, <1>8, ConcatProperties
<1>11. /\ Stands(sta', (queue \o lost) \o up)
       /\ Reaches(sta', queue \o lost) => Reaches(sta', (queue \o lost) \o up)
  BY <1>5, <1>6, <1>9, <1>10, MoreEvents
<1>12. /\ Stands(sta', queue')
       /\ Reaches(sta', (queue \o lost) \o up) => Reaches(sta', queue')
  BY <1>4, <1>5, <1>6, <1>10, <1>11, MoreEvents
<1> QED
  BY <1>9, <1>11, <1>12

\* What the radio does it tells as well.
LEMMA RadioTells ==
  ASSUME TypeOK, Radio \/ LinkLost, Stands(sta, queue)
  PROVE  /\ Stands(sta', queue')
         /\ Reaches(sta, queue) => Reaches(sta', queue')
<1>1. PICK kind \in Kinds :
        /\ queue' = Append(queue, kind)
        /\ sta' = "connected" \/ kind = "STA_DISCONNECTED"
  BY DEF Radio, LinkLost, Associate, AttemptFails, RadioStep, Post, Kinds
<1>2. queue \in Seq(Kinds) /\ <<kind>> \in Seq(Kinds) /\ queue' = queue \o <<kind>>
  BY <1>1, AppendIsConcat DEF TypeOK
<1>3. /\ DOMAIN <<kind>> = {1} /\ <<kind>>[1] = kind
  OBVIOUS
<1>4. /\ Stands(sta', queue \o <<kind>>)
      /\ Reaches(sta, queue) => Reaches(sta', queue \o <<kind>>)
  BY <1>1, <1>2, <1>3, MoreEvents
<1> QED
  BY <1>2, <1>4

\* The event task takes them in order: what is behind an address is told later.
LEMMA HearingTells ==
  ASSUME TypeOK, queue # <<>>, queue' = Tail(queue), UNCHANGED sta, Stands(sta, queue)
  PROVE  /\ Stands(sta', queue')
         /\ Head(queue) = "STA_GOT_IP" => Reaches(sta', queue')
         /\ Head(queue) # "STA_DISCONNECTED" /\ Reaches(sta, queue) => Reaches(sta', queue')
<1>1. /\ queue \in Seq(Kinds) /\ Len(queue) \in Nat \ {0}
      /\ DOMAIN queue = 1 .. Len(queue) /\ Head(queue) = queue[1]
  BY EmptySeq, LenProperties, HeadTailProperties DEF TypeOK
<1>2. /\ DOMAIN queue' = 1 .. (Len(queue) - 1)
      /\ \A i \in 1 .. (Len(queue) - 1) : queue'[i] = queue[i + 1]
  BY <1>1, HeadTailProperties, LenProperties
<1>3. ASSUME NEW j \in DOMAIN queue, j > 1
      PROVE  j - 1 \in DOMAIN queue' /\ queue'[j - 1] = queue[j]
  BY <1>1, <1>2, <1>3
<1>4. Stands(sta', queue')
  <2>1. ASSUME NEW i \in DOMAIN queue', queue'[i] = "STA_GOT_IP", sta # "connected"
        PROVE  \E j \in DOMAIN queue' : j > i /\ queue'[j] = "STA_DISCONNECTED"
    <3>1. i + 1 \in DOMAIN queue /\ queue[i + 1] = "STA_GOT_IP"
      BY <1>1, <1>2, <2>1
    <3>2. PICK j \in DOMAIN queue : j > i + 1 /\ queue[j] = "STA_DISCONNECTED"
      BY <2>1, <3>1 DEF Stands
    <3>3. j - 1 > i /\ j > 1
      BY <1>1, <1>2, <3>2
    <3> QED
      BY <1>3, <3>2, <3>3
  <2> QED
    BY <2>1 DEF Stands
<1>5. ASSUME Head(queue) = "STA_GOT_IP" PROVE Reaches(sta', queue')
  <2>1. 1 \in DOMAIN queue /\ queue[1] = "STA_GOT_IP"
    BY <1>1, <1>5
  <2> QED
    BY <1>3, <2>1 DEF Stands, Reaches
<1>6. ASSUME Head(queue) # "STA_DISCONNECTED", Reaches(sta, queue)
      PROVE  Reaches(sta', queue')
  <2>1. ASSUME NEW i \in DOMAIN queue, queue[i] = "STA_DISCONNECTED"
        PROVE  Reaches(sta', queue')
    <3>1. i > 1
      BY <1>1, <1>6, <2>1
    <3> QED
      BY <1>3, <2>1, <3>1 DEF Reaches
  <2> QED
    BY <1>6, <2>1 DEF Reaches
<1> QED
  BY <1>4, <1>5, <1>6

\* A step of the link that leaves the log alone.
LEMMA LinkTells ==
  ASSUME TypeOK, Stands(sta, queue),
         \/ Radio \/ LinkLost \/ Main \/ Handlers \/ TimerTask \/ Requests \/ ButtonHeld
         \/ UNCHANGED vars
  PROVE  /\ Stands(sta', queue')
         /\ Reaches(sta, queue) => Reaches(sta', queue')
<1>1. CASE Radio \/ LinkLost
  BY <1>1, RadioTells
<1>2. ASSUME UNCHANGED queue, sta' = sta \/ Connect
      PROVE  /\ Stands(sta', queue')
             /\ Reaches(sta, queue) => Reaches(sta', queue')
  BY <1>2 DEF Connect, Stands, Reaches
<1>3. CASE Main
  <2>1. CASE BootWifi
    BY <2>1, DriveTells DEF BootWifi, TypeOK
  <2>2. CASE BootRegister \/ BootStart \/ BootStore
    BY <1>2, <2>2 DEF BootRegister, BootStart, BootStore, BootStep, interfaces
  <2> QED
    BY <1>3, <2>1, <2>2 DEF Main
<1>4. CASE Handlers
  BY <1>2, <1>4
  DEF Handlers, FirstConnect, StaStarted, Retry, GiveUp, StopServer, StartServer, StoreServer
<1>5. CASE TimerTask
  <2>1. CASE StopDriver
    BY <2>1, DriveTells DEF StopDriver, TypeOK
  <2>2. CASE ApMode
    BY <2>2, DriveTells DEF ApMode, TypeOK, Modes
  <2>3. CASE StartDriver
    BY <2>3, DriveTells DEF StartDriver, TypeOK
  <2>4. CASE ConnectRefused \/ ConnectName \/ ConnectPassword \/ Restore
             \/ SetStaConfig \/ SetApConfig
    BY <1>2, <2>4
    DEF ConnectRefused, ConnectName, ConnectPassword, Restore, SetStaConfig, SetApConfig,
        interfaces
  <2> QED
    BY <1>5, <2>1, <2>2, <2>3, <2>4 DEF TimerTask
<1>6. CASE Httpd
  BY <1>2, <1>6 DEF Httpd, PostPassword, PostNoPassword, PostArm, interfaces
<1>7. ASSUME NEW n \in Networks, PostName(n)
      PROVE  /\ Stands(sta', queue')
             /\ Reaches(sta, queue) => Reaches(sta', queue')
  BY <1>2, <1>7 DEF PostName, interfaces
<1>8. ASSUME NEW m \in SetModes, AskMode(m) \/ SetMode(m)
      PROVE  /\ Stands(sta', queue')
             /\ Reaches(sta, queue) => Reaches(sta', queue')
  <2>1. CASE AskMode(m)
    BY <1>2, <2>1 DEF AskMode, interfaces
  <2>2. CASE SetMode(m)
    <3>1. m \in Modes
      BY ConstantsAssumption DEF Modes
    <3> QED
      BY <2>2, <3>1, DriveTells DEF SetMode, TypeOK
  <2> QED
    BY <1>8, <2>1, <2>2
<1>9. CASE ButtonHeld \/ UNCHANGED vars
  BY <1>2, <1>9 DEF ButtonHeld, vars, interfaces
<1> QED
  BY <1>1, <1>3, <1>4, <1>5, <1>6, <1>7, <1>8, <1>9 DEF Requests

-----------------------------------------------------------------------------
LEMMA RunsNext == TypeOK /\ RunsInv /\ [LinkedNext]_linkedVars => RunsInv'
<1> SUFFICES ASSUME TypeOK, RunsInv, [LinkedNext]_linkedVars PROVE RunsInv'
  OBVIOUS
<1>1. CASE LinkAlone \/ UNCHANGED linkedVars
  <2>1. Stands(sta', queue') /\ (Reaches(sta, queue) => Reaches(sta', queue'))
    BY <1>1, LinkTells DEF RunsInv, LinkAlone, linkedVars
  <2>2. UNCHANGED log
    BY <1>1 DEF LinkAlone, linkedVars
  <2> QED
    BY <2>1, <2>2 DEF RunsInv, RunInv, LogType, log
<1>2. CASE Create
  <2>1. UNCHANGED <<sta, queue>>
    BY <1>2 DEF Create, vars, interfaces
  <2> QED
    BY <1>2, <2>1 DEF RunsInv, RunInv, LogType, Create, Log!Create
<1>3. CASE LogHandler
  <2>1. UNCHANGED <<sta, queue>>
    BY <1>3 DEF LogHandler, vars, interfaces
  <2> QED
    BY <1>3, <2>1 DEF RunsInv, RunInv, LogType, LogHandler, Log!Start, Log!Stop
<1>4. CASE Restart
  <2>1. queue' = <<>>
    BY <1>4 DEF Restart, Abort, PowerCycle, Reset
  <2>2. Stands(sta', queue')
    BY <2>1 DEF Stands
  <2> QED
    BY <1>4, <2>2 DEF RunsInv, RunInv, LogType, Restart, Log!Reset
<1>5. CASE Hears
  <2>1. /\ queue # <<>> /\ queue' = Tail(queue) /\ UNCHANGED sta
        /\ \/ Head(queue) = "STA_GOT_IP" /\ Log!Address
           \/ Head(queue) = "STA_DISCONNECTED" /\ Log!Loss
           \/ Head(queue) \in {"STA_START", "AP_START"} /\ UNCHANGED log
    BY <1>5 DEF Hears, OnGotIp, OnStaDisconnected, OnStaStart, OnApStart, Take
  <2>2. /\ Stands(sta', queue')
        /\ Head(queue) = "STA_GOT_IP" => Reaches(sta', queue')
        /\ Head(queue) # "STA_DISCONNECTED" /\ Reaches(sta, queue) => Reaches(sta', queue')
    BY <2>1, HearingTells DEF RunsInv
  <2>3. CASE Head(queue) = "STA_GOT_IP" /\ Log!Address
    BY <2>2, <2>3 DEF RunsInv, RunInv, LogType, Log!Address
  <2>4. CASE Head(queue) = "STA_DISCONNECTED" /\ Log!Loss
    BY <2>2, <2>4 DEF RunsInv, RunInv, LogType, Log!Loss
  <2>5. CASE Head(queue) \in {"STA_START", "AP_START"} /\ UNCHANGED log
    BY <2>2, <2>5 DEF RunsInv, RunInv, LogType, log
  <2> QED
    BY <2>1, <2>3, <2>4, <2>5
<1> QED
  BY <1>1, <1>2, <1>3, <1>4, <1>5 DEF LinkedNext

LEMMA LinkStep == [LinkedNext]_linkedVars => [Next]_vars
BY DEF LinkedNext, linkedVars, Create, Hears, LogHandler, LinkAlone, Restart, Handlers,
       TimerTask, Requests, Next, Event, Timer

\* The log changes nothing about the link: every behaviour of both is one of
\* WifiLink, whose theorems hold for it.
THEOREM LinkIsUnchanged == LinkedSpec => Spec
<1>1. LinkedInit => Init
  BY DEF LinkedInit
<1> QED
  BY <1>1, LinkStep, PTL DEF LinkedSpec, Spec

\* No client is left running on a station that is gone.
THEOREM NoClientIsLeft == LinkedSpec => []RunsOnLink
<1>1. LinkedInit => RunsInv
  BY DEF LinkedInit, Init, Log!Init, RunsInv, RunInv, LogType, Stands
<1>2. RunsInv => RunsOnLink
  BY DEF RunsInv, RunInv, Reaches, RunsOnLink
<1> QED
  BY <1>1, <1>2, RunsNext, LinkIsUnchanged, TypeCorrect, PTL DEF LinkedSpec

-----------------------------------------------------------------------------
(* The last form *)

\* Where the last form is on its way to the driver.  While httpd copies one there
\* is none; from then on the two globals hold it, and once the timer is not armed
\* any more the timer task has it, or the driver.
FormInv ==
  /\ httpd \in {"passwd", "arm"} => last = NoNetwork
  /\ last # NoNetwork => new_ssid = last /\ new_password = last
  /\ (last # NoNetwork /\ ~connectArmed) =>
       /\ timer = "password" => picked.ssid = last
       /\ timer \in {"conStop", "conConfig"} => picked = Pair(last, last)
       /\ timer \notin {"password", "conStop", "conConfig"} => staConfig = Pair(last, last)

LEMMA FormStep ==
  ASSUME PairInv, FormInv, [FormNext]_formVars
  PROVE  FormInv'
<1>1. [Next]_vars
  <2>1. [LinkedNext]_linkedVars
    BY DEF FormNext, formVars
  <2> QED
    BY <2>1, LinkStep
<1>2. CASE UNCHANGED formVars
  BY <1>2 DEF FormInv, formVars, linkedVars, vars, flashed, wanted, armed
<1>3. CASE last' = NoNetwork
  BY <1>3 DEF FormInv
<1> SUFFICES ASSUME FormNext, last' # NoNetwork PROVE FormInv'
  BY <1>2, <1>3
<1>4. \/ Armed /\ last' = form
      \/ ~Armed /\ ~Forgotten /\ last' = last
  BY DEF FormNext
\* The steps that leave the form alone.
<1>5. ASSUME UNCHANGED <<staConfig, wanted, connectArmed, timer, httpd, form, picked>>
      PROVE  FormInv'
  BY <1>4, <1>5 DEF FormInv, Armed, wanted
<1>6. CASE UNCHANGED vars \/ Radio \/ LinkLost \/ Main \/ ButtonHeld
  BY <1>5, <1>6
  DEF vars, wanted, flashed, armed, Radio, LinkLost, Associate, AttemptFails, RadioStep,
      Main, BootWifi, BootRegister, BootStart, BootStore, BootStep, ButtonHeld
<1>7. CASE Event
  BY <1>5, <1>7
  DEF Event, OnStaStart, OnStaDisconnected, OnGotIp, OnApStart, Take, FirstConnect,
      StaStarted, Retry, GiveUp, StopServer, StartServer, StoreServer, EventStep,
      wanted, flashed, armed
<1>8. CASE PowerCycle \/ \E m \in SetModes : Abort(m)
  <2>1. connectArmed' = FALSE /\ main' = "wifi"
    BY <1>8 DEF Abort, PowerCycle, Reset
  <2> QED
    BY <1>4, <2>1 DEF Armed, Forgotten
\* httpd arms the timer with a name and a password of one form.
<1>9. CASE PostArm
  BY <1>4, <1>9 DEF FormInv, PairInv, Armed, PostArm, HttpdStep, wanted
<1>10. CASE PostPassword \/ PostNoPassword
  BY <1>4, <1>10 DEF FormInv, Armed, PostPassword, PostNoPassword, HttpdStep
<1>11. ASSUME NEW n \in Networks, PostName(n) PROVE FormInv'
  BY <1>4, <1>11 DEF Armed, Forgotten, PostName, HttpdStep
<1>12. ASSUME NEW m \in SetModes, AskMode(m) \/ SetMode(m) PROVE FormInv'
  BY <1>4, <1>12, ModesAreNoLabels DEF FormInv, Armed, AskMode, SetMode, HttpdStep, wanted
\* The timer task takes the form over, copies it and gives it to the driver.
<1>13. CASE Timer
  <2>1. last' = last /\ ~Forgotten /\ UNCHANGED <<wanted, httpd>>
    <3>1. UNCHANGED <<wanted, httpd>>
      BY <1>13
      DEF Timer, ConnectRefused, ConnectName, ConnectPassword, Restore, StopDriver, ApMode,
          SetStaConfig, SetApConfig, StartDriver, TimerStep
    <3> QED
      BY <1>4, <3>1 DEF Armed
  <2>2. new_ssid = last /\ new_password = last
    BY <2>1 DEF FormInv
  <2>3. CASE ConnectRefused
    BY <2>1, <2>3 DEF Forgotten, ConnectRefused, TimerStep
  <2>4. CASE ConnectName
    BY <2>1, <2>2, <2>4 DEF FormInv, ConnectName, TimerStep, Pair, wanted
  <2>5. CASE ConnectPassword
    BY <2>1, <2>2, <2>5 DEF FormInv, PairInv, ConnectPassword, TimerStep, Pair, wanted, armed
  <2>6. CASE Restore
    BY <2>1, <2>6 DEF FormInv, Restore, TimerStep, flashed, wanted
  <2>7. CASE StopDriver
    BY <2>1, <2>7 DEF FormInv, StopDriver, TimerStep, wanted, armed
  <2>8. CASE ApMode \/ StartDriver
    BY <2>1, <2>8 DEF FormInv, ApMode, StartDriver, TimerStep, wanted, armed
  <2>9. CASE SetStaConfig
    BY <2>1, <2>9 DEF FormInv, SetStaConfig, TimerStep, wanted, armed
  <2>10. CASE SetApConfig
    BY <2>1, <2>10 DEF FormInv, SetApConfig, TimerStep, flashed, wanted, armed
  <2> QED
    BY <1>13, <2>3, <2>4, <2>5, <2>6, <2>7, <2>8, <2>9, <2>10 DEF Timer
<1> QED
  BY <1>1, <1>6, <1>7, <1>8, <1>9, <1>10, <1>11, <1>12, <1>13 DEF Next, Httpd

\* The last form wins: the driver ends with its name and its password, whatever
\* forms came before and whenever the timer looked.
THEOREM LastFormIsSet == FormSpec => []LastFormWins
<1> DEFINE IInv == WantedInv /\ PairInv /\ FormInv
<1>1. FormInit => IInv
  <2> SUFFICES ASSUME FormInit PROVE IInv
    OBVIOUS
  <2>1. WantedInv
    BY DEF FormInit, LinkedInit, Init, WantedInv
  <2>2. PairInv
    BY DEF FormInit, LinkedInit, Init, PairInv, Pair
  <2>3. FormInv
    BY DEF FormInit, FormInv
  <2> QED
    BY <2>1, <2>2, <2>3
<1>2. IInv /\ [FormNext]_formVars => IInv'
  <2> SUFFICES ASSUME IInv, [FormNext]_formVars PROVE IInv'
    OBVIOUS
  <2>1. [LinkedNext]_linkedVars
    BY DEF FormNext, formVars
  <2>2. [Next]_vars
    BY <2>1, LinkStep
  <2> QED
    BY <2>2, WantedNext, PairNext, FormStep
<1>3. IInv => LastFormWins
  BY DEF FormInv, LastFormWins
<1> QED
  BY <1>1, <1>2, <1>3, PTL DEF FormSpec
=============================================================================
