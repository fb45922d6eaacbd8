------------------------------- MODULE MqttLog -------------------------------
(***************************************************************************)
(* The MQTT log (mqtt_log.c): every publication is started by the answer   *)
(* to the one before it, through mqtt_timer.  Three tasks take part: the   *)
(* event task starts and stops the client with the link, the client's own  *)
(* task calls mqtt_event_handler_cb, and the timer task publishes.         *)
(*                                                                         *)
(* The client library is external: what it does between its events is      *)
(* modelled from how the code uses it.  lost is a history variable; no     *)
(* guard looks at it.                                                      *)
(***************************************************************************)
EXTENDS Naturals

CONSTANTS
  Servers, NoServer,  \* broker addresses; the empty one
  Topics,
  MaxOutbox           \* bound: messages that wait for an acknowledgement

ASSUME ConstantsAssumption ==
  /\ NoServer \notin Servers
  /\ MaxOutbox \in Nat \ {0}

VARIABLES
  saved,           \* the configuration: mqtt_server and mqtt_topic
  booted,          \* app_main has called mqtt_client_init
  minute,          \* get_uptime() > 59
  link,            \* the station has an address, as the events tell it
  client,          \* "none", "stopped", "offline" (started) or "connected"
  outbox,          \* messages that were published and not acknowledged
  mqtt_uri, mqtt_topic,
  mqtt_connected,
  armed,           \* mqtt_timer
  watching,        \* disconnect_handler is registered
  event, cb, timer,\* what the event task, the client task and the timer task do
  lost             \* history: a publication got lost since the client connected

target == <<mqtt_uri, mqtt_topic>>
vars == <<saved, booted, minute, link, client, outbox, target, mqtt_connected,
          armed, watching, event, cb, timer, lost>>

Settings == [server : Servers \cup {NoServer}, topic : Topics]

Init ==
  /\ saved \in Settings
  /\ booted = FALSE
  /\ minute = FALSE
  /\ link = FALSE
  /\ client = "none"
  /\ outbox = 0
  /\ mqtt_uri = NoServer
  /\ mqtt_topic \in Topics
  /\ mqtt_connected = 0
  /\ armed = FALSE
  /\ watching = FALSE
  /\ event = "idle" /\ cb = "idle" /\ timer = "idle"
  /\ lost = FALSE

-----------------------------------------------------------------------------
(* The environment *)

\* An accepted config.cgi; nothing here is told.
SaveSettings(new) ==
  /\ saved' = new
  /\ UNCHANGED <<booted, minute, link, client, outbox, target, mqtt_connected,
                 armed, watching, event, cb, timer, lost>>

MinutePasses ==
  /\ minute' = TRUE
  /\ UNCHANGED <<saved, booted, link, client, outbox, target, mqtt_connected,
                 armed, watching, event, cb, timer, lost>>

-----------------------------------------------------------------------------
(* mqtt_client_init, called by app_main *)

\* Without a server there is no client, and there never will be; the topic is
\* not looked at again either.  The station may have its address by then.
ClientInit ==
  /\ ~booted
  /\ booted' = TRUE
  /\ IF saved.server # NoServer
       THEN /\ mqtt_uri' = saved.server
            /\ mqtt_topic' = saved.topic
            /\ client' = "stopped"
       ELSE UNCHANGED <<target, client>>
  /\ UNCHANGED <<saved, minute, link, outbox, mqtt_connected, armed,
                 watching, event, cb, timer, lost>>

-----------------------------------------------------------------------------
(* The event task *)

EventStep(from, to) ==
  /\ event = from
  /\ event' = to
  /\ UNCHANGED <<saved, booted, minute, outbox, mqtt_topic, mqtt_connected,
                 cb, timer, lost>>

\* Faulty variant: the handler for the loss of the link is only registered for
\* the first client.
GotIpWatchOnce ==
  /\ EventStep("idle", IF client # "none" /\ saved.server # NoServer THEN "start" ELSE "idle")
  /\ link' = TRUE
  /\ IF event' = "start"
       THEN watching' = (watching \/ mqtt_connected = 0) /\ mqtt_uri' = saved.server
       ELSE UNCHANGED <<watching, mqtt_uri>>
  /\ UNCHANGED <<client, armed>>

\* IP_EVENT_STA_GOT_IP: connect_handler, which is only registered with the
\* client.  An address may be given again while the link is up.
GotIp ==
  /\ EventStep("idle", IF client # "none" /\ saved.server # NoServer THEN "start" ELSE "idle")
  /\ link' = TRUE
  /\ IF event' = "start"
       THEN watching' = TRUE /\ mqtt_uri' = saved.server
       ELSE UNCHANGED <<watching, mqtt_uri>>
  /\ UNCHANGED <<client, armed>>

\* esp_mqtt_client_start; a client that runs refuses.
StartClient ==
  /\ EventStep("start", "idle")
  /\ client' = IF client = "stopped" THEN "offline" ELSE client
  /\ UNCHANGED <<link, armed, mqtt_uri, watching>>

\* WIFI_EVENT_STA_DISCONNECTED: disconnect_handler, once.
StaDisconnected ==
  /\ EventStep("idle", IF watching THEN "stop" ELSE "idle")
  /\ link' = FALSE
  /\ watching' = FALSE
  /\ armed' = (armed /\ ~watching)
  /\ UNCHANGED <<client, mqtt_uri>>

\* esp_mqtt_client_stop waits for the client's task, which then tells nobody.
StopClient ==
  /\ cb = "idle"
  /\ EventStep("stop", "idle")
  /\ client' = "stopped"
  /\ UNCHANGED <<link, armed, mqtt_uri, watching>>

-----------------------------------------------------------------------------
(* The client's task: mqtt_event_handler_cb *)

ClientStep(from, to) ==
  /\ cb = from
  /\ cb' = to
  /\ UNCHANGED <<saved, booted, minute, link, target, watching, event>>

\* constructDataJSON, which may return NULL, and esp_mqtt_client_publish, which
\* may have no memory or no connection.
Publish ==
  \/ /\ outbox' = IF outbox < MaxOutbox THEN outbox + 1 ELSE outbox
     /\ UNCHANGED lost
  \/ /\ lost' = TRUE
     /\ UNCHANGED outbox

ConnectBroker ==
  /\ client = "offline" /\ link
  /\ ClientStep("idle", "connected")
  /\ client' = "connected"
  /\ lost' = FALSE
  /\ UNCHANGED <<outbox, mqtt_connected, armed, timer>>

\* MQTT_EVENT_CONNECTED
OnConnected ==
  /\ ClientStep("connected", "first")
  /\ mqtt_connected' = 1
  /\ UNCHANGED <<client, outbox, armed, timer, lost>>

\* Faulty variant: in the first minute nothing is armed.
FirstOnlyPublish ==
  /\ ClientStep("first", "idle")
  /\ IF minute THEN Publish ELSE UNCHANGED <<outbox, lost>>
  /\ UNCHANGED <<client, mqtt_connected, armed, timer>>

First ==
  /\ ClientStep("first", "idle")
  /\ IF minute THEN Publish /\ UNCHANGED armed
               ELSE armed' = TRUE /\ UNCHANGED <<outbox, lost>>
  /\ UNCHANGED <<client, mqtt_connected, timer>>

\* The connection breaks: MQTT_EVENT_DISCONNECTED.
LoseBroker ==
  /\ client = "connected"
  /\ ClientStep("idle", "disconnected")
  /\ client' = "offline"
  /\ armed' = FALSE
  /\ UNCHANGED <<outbox, mqtt_connected, timer, lost>>

OnDisconnected ==
  /\ ClientStep("disconnected", "idle")
  /\ mqtt_connected' = 0
  /\ UNCHANGED <<client, outbox, armed, timer, lost>>

\* The broker acknowledges a message: MQTT_EVENT_PUBLISHED.
Acknowledge ==
  /\ client = "connected" /\ outbox > 0
  /\ ClientStep("idle", "published")
  /\ outbox' = outbox - 1
  /\ UNCHANGED <<client, mqtt_connected, armed, timer, lost>>

\* Faulty variant: the timer is set up and not armed.
OnPublishedNotArmed ==
  /\ ClientStep("published", "idle")
  /\ armed' = FALSE
  /\ UNCHANGED <<client, outbox, mqtt_connected, timer, lost>>

OnPublished ==
  /\ ClientStep("published", "idle")
  /\ armed' = TRUE
  /\ UNCHANGED <<client, outbox, mqtt_connected, timer, lost>>

\* MQTT_EVENT_ERROR, with a connection or without.
OnError ==
  /\ client \in {"offline", "connected"}
  /\ ClientStep("idle", "idle")
  /\ armed' = TRUE
  /\ UNCHANGED <<client, outbox, mqtt_connected, timer, lost>>

-----------------------------------------------------------------------------
(* The timer task: mqtt_timer_func *)

TimerStep(from, to) ==
  /\ timer = from
  /\ timer' = to
  /\ UNCHANGED <<saved, booted, minute, link, client, target, mqtt_connected,
                 watching, event, cb>>

TimerDue ==
  /\ armed
  /\ TimerStep("idle", "publish")
  /\ armed' = FALSE
  /\ UNCHANGED <<outbox, lost>>

TimerPublish ==
  /\ TimerStep("publish", "idle")
  /\ Publish
  /\ UNCHANGED armed

-----------------------------------------------------------------------------
EventTask == StartClient \/ StopClient
ClientTask == OnConnected \/ First \/ OnDisconnected \/ OnPublished

Next ==
  \/ \E new \in Settings : SaveSettings(new)
  \/ MinutePasses
  \/ ClientInit
  \/ GotIp \/ StaDisconnected \/ EventTask
  \/ ConnectBroker \/ LoseBroker \/ Acknowledge \/ OnError \/ ClientTask
  \/ TimerDue \/ TimerPublish

Spec == Init /\ [][Next]_vars

\* The tasks run when they can; a timer falls due (errors do not put it back
\* for ever); a broker that stays connected acknowledges what it was sent.
Fairness ==
  /\ WF_vars(EventTask) /\ WF_vars(ClientTask)
  /\ SF_vars(TimerDue) /\ WF_vars(TimerPublish)
  /\ SF_vars(Acknowledge)

FairSpec == Spec /\ Fairness

-----------------------------------------------------------------------------
(* Properties *)

\* The variables keep their types.
TypeOK ==
  /\ saved \in Settings
  /\ booted \in BOOLEAN /\ minute \in BOOLEAN
  /\ link \in BOOLEAN
  /\ client \in {"none", "stopped", "offline", "connected"}
  /\ outbox \in 0 .. MaxOutbox
  /\ mqtt_uri \in Servers \cup {NoServer}
  /\ mqtt_topic \in Topics
  /\ mqtt_connected \in {0, 1}
  /\ armed \in BOOLEAN
  /\ watching \in BOOLEAN
  /\ event \in {"idle", "start", "stop"}
  /\ cb \in {"idle", "connected", "first", "disconnected", "published"}
  /\ timer \in {"idle", "publish"}
  /\ lost \in BOOLEAN

\* While the client is connected and nobody is at work the log goes on by
\* itself: the timer is armed, or an acknowledgement that will arm it is due.
\* (A publication that got lost may end it until the next connection.)
ChainIsAlive ==
  (client = "connected" /\ ~lost /\ cb = "idle" /\ timer = "idle" /\ event # "stop")
    => (armed \/ outbox > 0)

\* A client that stays connected, and loses no publication, has messages
\* acknowledged again and again.
LogGoesOn == []<>(client # "connected" \/ lost \/ cb = "published")

\* A client that was started is stopped when the link is lost: whatever the
\* order of addresses and losses, disconnect_handler is registered then.
StartedIsWatched ==
  (client \in {"offline", "connected"} /\ event = "idle") => (watching /\ link)

\* The rest of the firmware sees a client that runs from an address to the next
\* loss: brokers, acknowledgements and the timer change nothing about that.
Follower == INSTANCE LogClient WITH
  client <- IF client \in {"offline", "connected"} THEN "running" ELSE client,
  step <- event
ImplementsLogClient == Follower!Spec
=============================================================================
