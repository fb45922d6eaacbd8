------------------------------ MODULE LinkedLog ------------------------------
(***************************************************************************)
(* The MQTT log on the WiFi link.  Both listen to the events of the        *)
(* station: the event task runs event_handler of wifi.c, then the handlers *)
(* of http_server.c, then those of mqtt_log.c, and takes the next event    *)
(* when the last of them returned.  The log is the abstract one of         *)
(* LogClient, which MqttLog implements.                                    *)
(***************************************************************************)
EXTENDS WifiLink

VARIABLES
  client, watching, step  \* see LogClient

Log == INSTANCE LogClient

log == <<client, watching, step>>
linkedVars == <<vars, log>>

LinkedInit == Init /\ Log!Init

\* mqtt_client_init comes after http_server_init, and long after WiFi was
\* started: an address may have been given by then.
Create ==
  /\ main = "run"
  /\ Log!Create
  /\ UNCHANGED vars

\* Faulty variant: nobody is told of a loss that is followed by a retry.
HearsQuiet ==
  /\ step = "idle"
  /\ \/ OnGotIp /\ Log!Address
     \/ OnStaDisconnected /\ sta_reconnect = 0 /\ Log!Loss
     \/ OnStaDisconnected /\ sta_reconnect = 1 /\ UNCHANGED log
     \/ (OnStaStart \/ OnApStart) /\ UNCHANGED log

\* The event task takes an event; what the handlers do about it follows.
Hears ==
  /\ step = "idle"
  /\ \/ OnGotIp /\ Log!Address
     \/ OnStaDisconnected /\ Log!Loss
     \/ (OnStaStart \/ OnApStart) /\ UNCHANGED log

\* The handlers of mqtt_log.c come last.
LogHandler ==
  /\ event = "idle"
  /\ Log!Start \/ Log!Stop
  /\ UNCHANGED vars

Handlers ==
  FirstConnect \/ StaStarted \/ Retry \/ GiveUp \/ StopServer \/ StartServer \/ StoreServer

TimerTask ==
  \/ ConnectRefused \/ ConnectName \/ ConnectPassword \/ Restore
  \/ StopDriver \/ ApMode \/ SetStaConfig \/ SetApConfig \/ StartDriver

Requests ==
  \/ Httpd
  \/ \E n \in Networks : PostName(n)
  \/ \E m \in SetModes : AskMode(m) \/ SetMode(m)

\* The log has no part in these.
LinkAlone ==
  /\ Radio \/ LinkLost \/ Main \/ Handlers \/ TimerTask \/ Requests \/ ButtonHeld
  /\ UNCHANGED log

Restart ==
  /\ PowerCycle \/ \E m \in SetModes : Abort(m)
  /\ Log!Reset

LinkedNext == Create \/ Hears \/ LogHandler \/ LinkAlone \/ Restart

LinkedSpec == LinkedInit /\ [][LinkedNext]_linkedVars

-----------------------------------------------------------------------------
(* Properties *)

\* A client that runs has a station with an address under it, or the event
\* that will stop it waits: no restart of the driver, by a form, the button or
\* setmode.cgi, leaves a client running on a station that is gone.
RunsOnLink ==
  (client = "running" /\ step = "idle")
    => sta = "connected" \/ \E i \in DOMAIN queue : queue[i] = "STA_DISCONNECTED"
=============================================================================
