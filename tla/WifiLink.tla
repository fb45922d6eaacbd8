------------------------------ MODULE WifiLink ------------------------------
(***************************************************************************)
(* The WiFi link and the web server that lives on it: the event handler of *)
(* wifi.c with its retries, the two timers that restart the driver         *)
(* (connect_timer after connect.cgi, soft_ap_restore_timer after the       *)
(* button), and the handlers of http_server.c that start and stop httpd.   *)
(*                                                                         *)
(* Four tasks take turns at any point: app_main, the event task, the timer *)
(* task and httpd.  The driver is external: what it does to the interfaces *)
(* and which events it posts is modelled from how the code uses it.        *)
(*                                                                         *)
(* A network stands for its name and for its password.                     *)
(***************************************************************************)
EXTENDS Naturals, Sequences

CONSTANTS
  Networks, NoNetwork,
  SetModes,    \* modes asked of setmode.cgi; the pages offer "sta" and "apsta"
  MaxRetry,    \* EXAMPLE_ESP_MAXIMUM_RETRY: 100 in the code
  QueueMax     \* bound: events that wait at the same time, those of a mode
               \* that setmode.cgi sets not counted

ASSUME ConstantsAssumption ==
  /\ NoNetwork \notin Networks
  /\ SetModes \subseteq {"null", "sta", "ap", "apsta"}
  /\ MaxRetry \in Nat
  /\ QueueMax \in Nat /\ QueueMax >= 2

VARIABLES
  mode, staConfig,          \* driver: kept in flash
  started, sta, ap, queue,  \* driver: interfaces, and the events it posted
  sta_reconnect, s_retry_num, conTryStatus,
  new_ssid, new_password,   \* what the last connect.cgi asked for
  connectArmed, restoreArmed,
  server,                   \* the handle is not NULL
  running,                  \* an instance of httpd holds the port
  main, event, timer, httpd,  \* what each task is doing
  form,                     \* the form that httpd is parsing
  picked                    \* the name and password the timer task copied

flashed == <<mode, staConfig>>
interfaces == <<started, sta, ap, queue>>
status == <<sta_reconnect, s_retry_num, conTryStatus>>
wanted == <<new_ssid, new_password>>
armed == <<connectArmed, restoreArmed>>
web == <<server, running>>
vars == <<flashed, interfaces, status, wanted, armed, web,
          main, event, timer, httpd, form, picked>>

Modes == {"null", "sta", "ap", "apsta"}
HasSta(m) == m \in {"sta", "apsta"}
HasAp(m) == m \in {"ap", "apsta"}
Pair(name, password) == [ssid |-> name, password |-> password]

Init ==
  /\ mode \in Modes
  /\ staConfig \in {Pair(n, n) : n \in Networks}
  /\ started = FALSE /\ sta = "off" /\ ap = FALSE
  /\ queue = <<>>
  /\ sta_reconnect = 1 /\ s_retry_num = 0 /\ conTryStatus = "idle"
  /\ new_ssid = NoNetwork /\ new_password = NoNetwork
  /\ connectArmed = FALSE /\ restoreArmed = FALSE
  /\ server = FALSE /\ running = FALSE
  /\ main = "wifi" /\ event = "idle" /\ timer = "idle" /\ httpd = "idle"
  /\ form = NoNetwork
  /\ picked = Pair(NoNetwork, NoNetwork)

-----------------------------------------------------------------------------
(* The driver *)

\* What esp_wifi_start, esp_wifi_stop and esp_wifi_set_mode come to: the
\* interfaces that are to be up are up, the others are down, and an event
\* tells of each change.  A station that was connecting may report it too.
Drive(on, m) ==
  LET toSta == on /\ HasSta(m)
      toAp == on /\ HasAp(m)
  IN  /\ started' = on
      /\ mode' = m
      /\ sta' = IF ~toSta THEN "off" ELSE IF sta = "off" THEN "idle" ELSE sta
      /\ ap' = toAp
      /\ \E telling \in {{"connected"}, {"connected", "connecting"}} :
           queue' = queue
                    \o (IF ~toSta /\ sta \in telling THEN <<"STA_DISCONNECTED">> ELSE <<>>)
                    \o (IF toSta /\ sta = "off" THEN <<"STA_START">> ELSE <<>>)
                    \o (IF toAp /\ ~ap THEN <<"AP_START">> ELSE <<>>)

Room == Len(queue') <= QueueMax

\* esp_wifi_connect; a station that is down, connecting or connected refuses.
Connect ==
  sta' = IF sta = "idle" THEN "connecting" ELSE sta

Post(kind) ==
  /\ Len(queue) < QueueMax
  /\ queue' = Append(queue, kind)

RadioStep(from, to, kind) ==
  /\ sta = from
  /\ sta' = to
  /\ Post(kind)
  /\ UNCHANGED <<flashed, started, ap, status, wanted, armed, web,
                 main, event, timer, httpd, form, picked>>

\* The access point lets the station in, and it has an address.
Associate ==
  /\ staConfig.ssid = staConfig.password
  /\ RadioStep("connecting", "connected", "STA_GOT_IP")

\* No such network, wrong password, no address in time.
AttemptFails == RadioStep("connecting", "idle", "STA_DISCONNECTED")

LinkLost == RadioStep("connected", "idle", "STA_DISCONNECTED")

-----------------------------------------------------------------------------
(* app_main *)

\* wifi_init: the event handler is registered, and the driver starts in the
\* mode it was left in.
BootWifi ==
  /\ main = "wifi"
  /\ Drive(TRUE, mode) /\ Room
  /\ main' = "register"
  /\ UNCHANGED <<staConfig, status, wanted, armed, web, event, timer, httpd,
                 form, picked>>

BootStep(from, to) ==
  /\ main = from
  /\ main' = to
  /\ UNCHANGED <<flashed, interfaces, status, wanted, armed, event, timer,
                 httpd, form, picked>>

\* http_server_init: the handlers first.
BootRegister == BootStep("register", "start") /\ UNCHANGED web

\* Then start_webserver; httpd_start fails when an instance holds the port.
BootStart ==
  /\ BootStep("start", IF running THEN "failed" ELSE "created")
  /\ running' = TRUE
  /\ UNCHANGED server

\* What it returned goes to server, whatever is there by now.
BootStore ==
  \E made \in {"created", "failed"} :
    /\ BootStep(made, "run")
    /\ server' = (made = "created")
    /\ UNCHANGED running

Registered == main \notin {"wifi", "register"}

-----------------------------------------------------------------------------
(* The event task *)

ThenStop == IF Registered THEN "stop" ELSE "idle"
ThenServe == IF Registered THEN "serve" ELSE "idle"

EventStep(from, to) ==
  /\ event = from
  /\ event' = to
  /\ UNCHANGED <<flashed, started, ap, wanted, armed, main, timer, httpd,
                 form, picked>>

Take(kind, to) ==
  /\ queue # <<>> /\ Head(queue) = kind
  /\ queue' = Tail(queue)
  /\ EventStep("idle", to)
  /\ UNCHANGED <<sta, web>>

OnStaStart == Take("STA_START", "connect") /\ UNCHANGED status

OnStaDisconnected ==
  /\ Take("STA_DISCONNECTED", IF sta_reconnect = 1 THEN "retry" ELSE ThenStop)
  /\ UNCHANGED status

OnGotIp ==
  /\ Take("STA_GOT_IP", ThenServe)
  /\ conTryStatus' = "success"
  /\ s_retry_num' = 0
  /\ UNCHANGED sta_reconnect

OnApStart == Take("AP_START", ThenServe) /\ UNCHANGED status

FirstConnect ==
  /\ EventStep("connect", "flag")
  /\ Connect
  /\ UNCHANGED <<queue, status, web>>

\* Faulty variant: the flag that wifi_connect_to_ap took down stays down.
StaStartedFlagDown ==
  /\ EventStep("flag", "idle")
  /\ s_retry_num' = 0
  /\ UNCHANGED <<sta, queue, sta_reconnect, conTryStatus, web>>

StaStarted ==
  /\ EventStep("flag", "idle")
  /\ sta_reconnect' = 1
  /\ s_retry_num' = 0
  /\ UNCHANGED <<sta, queue, conTryStatus, web>>

\* Faulty variant: the attempt is announced and not made.
RetryNoConnect ==
  /\ s_retry_num < MaxRetry
  /\ EventStep("retry", ThenStop)
  /\ conTryStatus' = "working"
  /\ s_retry_num' = s_retry_num + 1
  /\ UNCHANGED <<sta, queue, sta_reconnect, web>>

Retry ==
  /\ s_retry_num < MaxRetry
  /\ EventStep("retry", ThenStop)
  /\ Connect
  /\ conTryStatus' = "working"
  /\ s_retry_num' = s_retry_num + 1
  /\ UNCHANGED <<queue, sta_reconnect, web>>

GiveUp ==
  /\ s_retry_num >= MaxRetry
  /\ EventStep("retry", ThenStop)
  /\ conTryStatus' = "fail"
  /\ UNCHANGED <<sta, queue, sta_reconnect, s_retry_num, web>>

\* Faulty variant: the handle of the server that was stopped is kept.
StopServerKeepHandle ==
  /\ EventStep("stop", "idle")
  /\ IF server
       THEN httpd = "idle" /\ running' = FALSE
       ELSE UNCHANGED running
  /\ UNCHANGED <<sta, queue, status, server>>

\* disconnect_handler; httpd_stop waits for the request that is being served.
StopServer ==
  /\ EventStep("stop", "idle")
  /\ IF server
       THEN httpd = "idle" /\ server' = FALSE /\ running' = FALSE
       ELSE UNCHANGED web
  /\ UNCHANGED <<sta, queue, status>>

\* connect_handler
StartServer ==
  /\ EventStep("serve", IF server THEN "idle" ELSE IF running THEN "failed" ELSE "created")
  /\ running' = (running \/ ~server)
  /\ UNCHANGED <<sta, queue, status, server>>

StoreServer ==
  \E made \in {"created", "failed"} :
    /\ EventStep(made, "idle")
    /\ server' = (made = "created")
    /\ UNCHANGED <<sta, queue, status, running>>

-----------------------------------------------------------------------------
(* The timer task *)

TimerStep(from, to) ==
  /\ timer = from
  /\ timer' = to
  /\ UNCHANGED <<s_retry_num, conTryStatus, wanted, web, main, event, httpd, form>>

\* connect_timer_func calls wifi_connect_to_ap, which returns at once in AP
\* mode, and for a name that is empty or a password that is too short.
ConnectRefused ==
  /\ connectArmed
  /\ TimerStep("idle", "idle")
  /\ connectArmed' = FALSE
  /\ UNCHANGED <<flashed, interfaces, sta_reconnect, restoreArmed, picked>>

ConnectName ==
  /\ connectArmed /\ mode # "ap"
  /\ TimerStep("idle", "password")
  /\ connectArmed' = FALSE
  /\ picked' = Pair(new_ssid, NoNetwork)
  /\ UNCHANGED <<flashed, interfaces, sta_reconnect, restoreArmed>>

ConnectPassword ==
  /\ TimerStep("password", "conStop")
  /\ picked' = [picked EXCEPT !.password = new_password]
  /\ sta_reconnect' = 0
  /\ UNCHANGED <<flashed, interfaces, armed>>

\* soft_ap_restore_timer_func calls wifi_init_softap.
Restore ==
  /\ restoreArmed
  /\ TimerStep("idle", "apStop")
  /\ restoreArmed' = FALSE
  /\ sta_reconnect' = 0
  /\ UNCHANGED <<flashed, interfaces, connectArmed, picked>>

StopDriver ==
  /\ TimerStep("conStop", "conConfig") \/ TimerStep("apStop", "apMode")
  /\ Drive(FALSE, mode) /\ Room
  /\ UNCHANGED <<staConfig, sta_reconnect, armed, picked>>

ApMode ==
  /\ TimerStep("apMode", "apConfig")
  /\ Drive(started, "ap") /\ Room
  /\ UNCHANGED <<staConfig, sta_reconnect, armed, picked>>

SetStaConfig ==
  /\ HasSta(mode)
  /\ TimerStep("conConfig", "start")
  /\ staConfig' = picked
  /\ UNCHANGED <<mode, interfaces, sta_reconnect, armed, picked>>

SetApConfig ==
  /\ HasAp(mode)
  /\ TimerStep("apConfig", "start")
  /\ UNCHANGED <<flashed, interfaces, sta_reconnect, armed, picked>>

StartDriver ==
  /\ TimerStep("start", "idle")
  /\ Drive(TRUE, mode) /\ Room
  /\ picked' = Pair(NoNetwork, NoNetwork)
  /\ UNCHANGED <<staConfig, sta_reconnect, armed>>

\* Everything but what the driver keeps in flash starts anew.
Reset ==
  /\ started' = FALSE /\ sta' = "off" /\ ap' = FALSE
  /\ queue' = <<>>
  /\ sta_reconnect' = 1 /\ s_retry_num' = 0 /\ conTryStatus' = "idle"
  /\ new_ssid' = NoNetwork /\ new_password' = NoNetwork
  /\ connectArmed' = FALSE /\ restoreArmed' = FALSE
  /\ server' = FALSE /\ running' = FALSE
  /\ main' = "wifi" /\ event' = "idle" /\ timer' = "idle" /\ httpd' = "idle"
  /\ form' = NoNetwork
  /\ picked' = Pair(NoNetwork, NoNetwork)
  /\ UNCHANGED flashed

\* ESP_ERROR_CHECK(esp_wifi_set_config(...)): setmode.cgi put in a mode, m, that
\* has no such interface.  (Without it there is one: wifi_connect_to_ap returned
\* in mode "ap", wifi_init_softap has set it, and in mode "null" nobody reaches
\* connect.cgi.)
Abort(m) ==
  /\ mode = m
  /\ \/ timer = "conConfig" /\ ~HasSta(m)
     \/ timer = "apConfig" /\ ~HasAp(m)
  /\ Reset

PowerCycle == main = "run" /\ Reset

-----------------------------------------------------------------------------
(* httpd and the button *)

HttpdStep(from, to) ==
  /\ httpd = from
  /\ httpd' = to
  /\ UNCHANGED <<staConfig, status, restoreArmed, web, main, event, timer, picked>>

\* A request that httpd starts to serve.
Served == running /\ (ap \/ sta = "connected")

\* connect_cgi_post_handler, up to the name
PostName(n) ==
  /\ Served
  /\ HttpdStep("idle", "passwd")
  /\ form' = n
  /\ new_ssid' = n
  /\ UNCHANGED <<mode, interfaces, new_password, connectArmed>>

\* Faulty variant: a password is only taken when there is none yet.
PostPasswordOnce ==
  /\ HttpdStep("passwd", "arm")
  /\ new_password' = IF new_password = NoNetwork THEN form ELSE new_password
  /\ UNCHANGED <<mode, interfaces, new_ssid, connectArmed, form>>

PostPassword ==
  /\ HttpdStep("passwd", "arm")
  /\ new_password' = form
  /\ UNCHANGED <<mode, interfaces, new_ssid, connectArmed, form>>

\* A form without a password: the name stays, the timer is as it was.
PostNoPassword ==
  /\ HttpdStep("passwd", "idle")
  /\ form' = NoNetwork
  /\ UNCHANGED <<mode, interfaces, wanted, connectArmed>>

PostArm ==
  /\ HttpdStep("arm", "idle")
  /\ connectArmed' = TRUE
  /\ form' = NoNetwork
  /\ UNCHANGED <<mode, interfaces, wanted>>

\* setmode_cgi_get_handler, up to the call; what httpd is doing is named by the
\* mode it was asked for.
AskMode(m) ==
  /\ Served
  /\ Len(queue) <= QueueMax
  /\ HttpdStep("idle", m)
  /\ UNCHANGED <<mode, interfaces, wanted, connectArmed, form>>

\* esp_wifi_set_mode, on a driver that the timer task may have stopped since
SetMode(m) ==
  /\ HttpdStep(m, "idle")
  /\ Drive(started, m)
  /\ UNCHANGED <<wanted, connectArmed, form>>

\* gpio_isr_button_handler, for a button that was held for more than four
\* seconds; the board has long been up by then.
ButtonHeld ==
  /\ main = "run"
  /\ restoreArmed' = TRUE
  /\ UNCHANGED <<flashed, interfaces, status, wanted, connectArmed, web,
                 main, event, timer, httpd, form, picked>>

-----------------------------------------------------------------------------
Radio == Associate \/ AttemptFails
Main == BootWifi \/ BootRegister \/ BootStart \/ BootStore
Event ==
  \/ OnStaStart \/ OnStaDisconnected \/ OnGotIp \/ OnApStart
  \/ FirstConnect \/ StaStarted \/ Retry \/ GiveUp
  \/ StopServer \/ StartServer \/ StoreServer
Timer ==
  \/ ConnectRefused \/ ConnectName \/ ConnectPassword \/ Restore
  \/ StopDriver \/ ApMode \/ SetStaConfig \/ SetApConfig \/ StartDriver
Httpd == PostPassword \/ PostNoPassword \/ PostArm

Next ==
  \/ Radio \/ LinkLost \/ Main \/ Event \/ Timer \/ Httpd \/ PowerCycle
  \/ \E n \in Networks : PostName(n)
  \/ \E m \in SetModes : AskMode(m) \/ SetMode(m) \/ Abort(m)
  \/ ButtonHeld

Spec == Init /\ [][Next]_vars

\* Every task that can go on does; httpd looks at the order to stop before it
\* takes the next request; the queue serves whoever waits for room in it; the
\* timer task serves each timer that is due; an attempt to connect ends one way
\* or the other.  Nobody has to send a request, press the button or cut the
\* power.
Fairness ==
  /\ WF_vars(Radio) /\ WF_vars(Main) /\ WF_vars(Httpd)
  /\ \A m \in SetModes : WF_vars(SetMode(m)) /\ SF_vars(Abort(m))
  /\ SF_vars(Event) /\ SF_vars(Timer) /\ SF_vars(Restore)

FairSpec == Spec /\ Fairness

-----------------------------------------------------------------------------
(* Properties *)

Kinds == {"STA_START", "STA_DISCONNECTED", "STA_GOT_IP", "AP_START"}

\* The variables keep their types; the queue and the retries their bounds.
TypeOK ==
  /\ mode \in Modes
  /\ staConfig \in [ssid : Networks, password : Networks \cup {NoNetwork}]
  /\ started \in BOOLEAN
  /\ sta \in {"off", "idle", "connecting", "connected"}
  /\ ap \in BOOLEAN
  /\ queue \in Seq(Kinds) /\ Len(queue) <= QueueMax + 2
  /\ sta_reconnect \in {0, 1}
  /\ s_retry_num \in 0 .. MaxRetry
  /\ conTryStatus \in {"idle", "working", "success", "fail"}
  /\ new_ssid \in Networks \cup {NoNetwork}
  /\ new_password \in Networks \cup {NoNetwork}
  /\ connectArmed \in BOOLEAN /\ restoreArmed \in BOOLEAN
  /\ server \in BOOLEAN /\ running \in BOOLEAN
  /\ main \in {"wifi", "register", "start", "created", "failed", "run"}
  /\ event \in {"idle", "connect", "flag", "retry", "stop", "serve", "created", "failed"}
  /\ timer \in {"idle", "password", "conStop", "conConfig", "apStop", "apMode",
                "apConfig", "start"}
  /\ httpd \in {"idle", "passwd", "arm"} \cup SetModes
  /\ form \in Networks \cup {NoNetwork}
  /\ picked \in [ssid : Networks \cup {NoNetwork}, password : Networks \cup {NoNetwork}]

\* The handle tells whether an instance of httpd runs, or is about to.
HandleTells ==
  /\ running = (server \/ event = "created" \/ main = "created")
  /\ event # "failed"

\* No handle of an instance that was stopped is ever kept, which httpd_stop would
\* be called with.  Nor is an instance lost, once http_server_init is over: a
\* start that overlaps with the one of http_server_init may lose it, as both
\* store what start_webserver returned, and one of them got NULL.
HandleIsKept ==
  [][(server' => running') /\ (main = "run" /\ HandleTells => HandleTells')]_vars

\* A station that is up is not left idle, but after it gave up: whatever takes
\* sta_reconnect down starts the driver again.
StationKeepsTrying == sta = "idle" ~> (sta # "idle" \/ conTryStatus = "fail")

\* "working" does not stay, as long as the station is up.
AttemptIsDecided == conTryStatus = "working" ~> (conTryStatus # "working" \/ sta = "off")

\* Whoever reaches the board through the access point it joined finds a server.
ServedOnceConnected == sta = "connected" ~> (running \/ sta # "connected")

\* Holding the button ends in an access point with a server on it, unless the
\* board restarts, or somebody asks for another mode just then (SetModes).
ButtonOpensAp == restoreArmed ~> (mode = "ap" /\ ap /\ running) \/ main # "run"

\* connecting.html has a text for "fail", which it asks connstatus.cgi for:
\* when an attempt made through the board's own access point fails, there
\* comes a server to say so.
FailureIsShown ==
  (conTryStatus = "fail" /\ ap) ~> (running \/ conTryStatus # "fail" \/ ~ap)
=============================================================================
