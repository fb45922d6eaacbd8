--------------------------- MODULE MqttLog_proofs ---------------------------
(***************************************************************************)
(* Proofs about MqttLog, for any brokers and topics and an outbox of any   *)
(* size.                                                                   *)
(***************************************************************************)
EXTENDS MqttLog, TLAPS

\* connect_handler watches the link before it starts the client.
StartInv == event = "start" => (watching /\ link)

\* The client's task tells of a lost connection before it makes another.
LossInv == cb = "disconnected" => client # "connected"

IInv ==
  /\ TypeOK
  /\ StartInv
  /\ LossInv
  /\ StartedIsWatched
  /\ ChainIsAlive

-----------------------------------------------------------------------------
\* What is published waits for its acknowledgement, or got lost.
LEMMA PublishWaits ==
  ASSUME TypeOK, Publish
  PROVE  /\ outbox' \in 0 .. MaxOutbox /\ lost' \in BOOLEAN
         /\ lost' \/ outbox' > 0
<1>1. outbox \in 0 .. MaxOutbox /\ lost \in BOOLEAN
  BY DEF TypeOK
<1>2. CASE lost' = TRUE /\ UNCHANGED outbox
  BY <1>1, <1>2
<1>3. CASE (outbox' = IF outbox < MaxOutbox THEN outbox + 1 ELSE outbox) /\ UNCHANGED lost
  <2>1. outbox' \in 0 .. MaxOutbox /\ outbox' > 0
    BY <1>1, <1>3, ConstantsAssumption
  <2> QED
    BY <1>1, <1>3, <2>1
<1> QED
  BY <1>2, <1>3 DEF Publish

LEMMA TypeOKNext == TypeOK /\ [Next]_vars => TypeOK'
<1> SUFFICES ASSUME TypeOK, [Next]_vars PROVE TypeOK'
  OBVIOUS
<1>1. ASSUME NEW new \in Settings, SaveSettings(new) PROVE TypeOK'
  BY <1>1 DEF TypeOK, SaveSettings, target, Settings
<1>2. CASE MinutePasses
  BY <1>2 DEF TypeOK, MinutePasses, target
<1>3. CASE ClientInit
  <2>1. saved.server \in Servers \cup {NoServer} /\ saved.topic \in Topics
    BY DEF TypeOK, Settings
  <2> QED
    BY <1>3, <2>1 DEF TypeOK, ClientInit, target
<1>4. CASE GotIp
  <2>1. saved.server \in Servers \cup {NoServer}
    BY DEF TypeOK, Settings
  <2> QED
    <3>1. event' \in {"idle", "start"}
      BY <1>4 DEF GotIp, EventStep
    <3>2. mqtt_uri' \in Servers \cup {NoServer} /\ watching' \in BOOLEAN /\ link' \in BOOLEAN
      BY <1>4, <2>1 DEF TypeOK, GotIp
    <3>3. UNCHANGED <<saved, booted, minute, client, outbox, mqtt_topic, mqtt_connected,
                      armed, cb, timer, lost>>
      BY <1>4 DEF GotIp, EventStep
    <3> QED
      BY <3>1, <3>2, <3>3 DEF TypeOK
<1>5. CASE StaDisconnected
  BY <1>5 DEF TypeOK, StaDisconnected, EventStep
<1>6. CASE EventTask
  BY <1>6 DEF TypeOK, EventTask, StartClient, StopClient, EventStep
<1>7. CASE ConnectBroker \/ LoseBroker \/ OnError
  BY <1>7 DEF TypeOK, ConnectBroker, LoseBroker, OnError, ClientStep, target
<1>8. CASE Acknowledge
  <2>1. outbox' \in 0 .. MaxOutbox
    BY <1>8, ConstantsAssumption DEF TypeOK, Acknowledge
  <2> QED
    BY <1>8, <2>1 DEF TypeOK, Acknowledge, ClientStep, target
<1>9. CASE ClientTask
  <2>1. CASE OnConnected \/ OnDisconnected \/ OnPublished
    BY <2>1 DEF TypeOK, OnConnected, OnDisconnected, OnPublished, ClientStep, target
  <2>2. CASE First
    <3>1. outbox' \in 0 .. MaxOutbox /\ lost' \in BOOLEAN
      BY <2>2, PublishWaits DEF TypeOK, First
    <3> QED
      BY <2>2, <3>1 DEF TypeOK, First, ClientStep, target
  <2> QED
    BY <1>9, <2>1, <2>2 DEF ClientTask
<1>10. CASE TimerDue
  <2>1. timer' \in {"idle", "publish"} /\ armed' \in BOOLEAN
    BY <1>10 DEF TimerDue, TimerStep
  <2>2. UNCHANGED <<saved, booted, minute, link, client, outbox, mqtt_uri, mqtt_topic,
                    mqtt_connected, watching, event, cb, lost>>
    BY <1>10 DEF TimerDue, TimerStep, target
  <2> QED
    BY <2>1, <2>2 DEF TypeOK
<1>11. CASE TimerPublish
  <2>1. outbox' \in 0 .. MaxOutbox /\ lost' \in BOOLEAN
    BY <1>11, PublishWaits DEF TimerPublish
  <2> QED
    BY <1>11, <2>1 DEF TypeOK, TimerPublish, TimerStep, target
<1>12. CASE UNCHANGED vars
  BY <1>12 DEF TypeOK, vars, target
<1> QED
  BY <1>1, <1>2, <1>3, <1>4, <1>5, <1>6, <1>7, <1>8, <1>9, <1>10, <1>11, <1>12 DEF Next

-----------------------------------------------------------------------------
(* The link and the client that runs on it *)

WatchInv == StartInv /\ StartedIsWatched

LEMMA WatchNext == TypeOK /\ WatchInv /\ [Next]_vars => WatchInv'
<1> SUFFICES ASSUME TypeOK, WatchInv, [Next]_vars PROVE WatchInv'
  OBVIOUS
<1> USE DEF WatchInv, StartInv, StartedIsWatched
<1>1. ASSUME NEW new \in Settings, SaveSettings(new) PROVE WatchInv'
  BY <1>1 DEF SaveSettings
<1>2. CASE MinutePasses
  BY <1>2 DEF MinutePasses
<1>3. CASE ClientInit
  BY <1>3 DEF ClientInit, target
<1>4. CASE GotIp
  BY <1>4 DEF GotIp, EventStep
<1>5. CASE StaDisconnected
  <2>1. CASE watching
    BY <1>5, <2>1 DEF StaDisconnected, EventStep
  <2>2. CASE ~watching  \* nobody watches a client that does not run
    BY <1>5, <2>2 DEF StaDisconnected, EventStep
  <2> QED
    BY <2>1, <2>2
<1>6. CASE EventTask
  BY <1>6 DEF EventTask, StartClient, StopClient, EventStep
<1>7. CASE ConnectBroker \/ LoseBroker \/ Acknowledge \/ OnError
  BY <1>7 DEF ConnectBroker, LoseBroker, Acknowledge, OnError, ClientStep
<1>8. CASE ClientTask
  BY <1>8 DEF ClientTask, OnConnected, First, OnDisconnected, OnPublished, ClientStep
<1>9. CASE TimerDue \/ TimerPublish
  BY <1>9 DEF TimerDue, TimerPublish, TimerStep
<1>10. CASE UNCHANGED vars
  BY <1>10 DEF vars
<1> QED
  BY <1>1, <1>2, <1>3, <1>4, <1>5, <1>6, <1>7, <1>8, <1>9, <1>10 DEF Next

-----------------------------------------------------------------------------
(* The chain of publications *)

LEMMA LossNext == LossInv /\ [Next]_vars => LossInv'
<1> SUFFICES ASSUME LossInv, [Next]_vars PROVE LossInv'
  OBVIOUS
<1> USE DEF LossInv
<1>1. ASSUME NEW new \in Settings, SaveSettings(new) PROVE LossInv'
  BY <1>1 DEF SaveSettings
<1>2. CASE MinutePasses \/ ClientInit
  BY <1>2 DEF MinutePasses, ClientInit, target
<1>3. CASE GotIp \/ StaDisconnected \/ EventTask
  BY <1>3 DEF GotIp, StaDisconnected, EventTask, StartClient, StopClient, EventStep
<1>4. CASE ConnectBroker \/ LoseBroker \/ Acknowledge \/ OnError
  BY <1>4 DEF ConnectBroker, LoseBroker, Acknowledge, OnError, ClientStep
<1>5. CASE ClientTask
  BY <1>5 DEF ClientTask, OnConnected, First, OnDisconnected, OnPublished, ClientStep
<1>6. CASE TimerDue \/ TimerPublish
  BY <1>6 DEF TimerDue, TimerPublish, TimerStep
<1>7. CASE UNCHANGED vars
  BY <1>7 DEF vars
<1> QED
  BY <1>1, <1>2, <1>3, <1>4, <1>5, <1>6, <1>7 DEF Next

LEMMA ChainNext == IInv /\ [Next]_vars => ChainIsAlive'
<1> SUFFICES ASSUME IInv, [Next]_vars PROVE ChainIsAlive'
  OBVIOUS
<1> USE DEF ChainIsAlive
<1>1. ASSUME NEW new \in Settings, SaveSettings(new) PROVE ChainIsAlive'
  BY <1>1 DEF IInv, SaveSettings
<1>2. CASE MinutePasses \/ ClientInit
  BY <1>2 DEF IInv, MinutePasses, ClientInit, target
<1>3. CASE GotIp
  BY <1>3 DEF IInv, GotIp, EventStep
\* The timer is only disarmed by a handler that goes on to stop the client.
<1>4. CASE StaDisconnected
  <2>1. CASE watching
    BY <1>4, <2>1 DEF StaDisconnected, EventStep
  <2>2. CASE ~watching
    BY <1>4, <2>2 DEF IInv, TypeOK, StaDisconnected, EventStep
  <2> QED
    BY <2>1, <2>2
<1>5. CASE EventTask
  BY <1>5 DEF IInv, EventTask, StartClient, StopClient, EventStep
<1>6. CASE ConnectBroker \/ LoseBroker \/ Acknowledge \/ OnError
  BY <1>6 DEF ConnectBroker, LoseBroker, Acknowledge, OnError, ClientStep
<1>7. CASE ClientTask
  <2>1. CASE OnConnected
    BY <2>1 DEF OnConnected, ClientStep
  <2>2. CASE First
    BY <2>2, PublishWaits DEF IInv, First
  <2>3. CASE OnDisconnected
    BY <2>3 DEF IInv, LossInv, OnDisconnected, ClientStep
  <2>4. CASE OnPublished
    BY <2>4 DEF OnPublished
  <2> QED
    BY <1>7, <2>1, <2>2, <2>3, <2>4 DEF ClientTask
<1>8. CASE TimerDue
  BY <1>8 DEF TimerDue, TimerStep
<1>9. CASE TimerPublish
  BY <1>9, PublishWaits DEF IInv, TimerPublish
<1>10. CASE UNCHANGED vars
  BY <1>10 DEF IInv, vars
<1> QED
  BY <1>1, <1>2, <1>3, <1>4, <1>5, <1>6, <1>7, <1>8, <1>9, <1>10 DEF Next

-----------------------------------------------------------------------------
\* The inductive invariant of the log.
THEOREM Invariance == Spec => []IInv
<1>1. Init => IInv
  <2> SUFFICES ASSUME Init PROVE IInv
    OBVIOUS
  <2>1. 0 \in 0 .. MaxOutbox
    BY ConstantsAssumption
  <2>2. TypeOK
    BY <2>1 DEF Init, TypeOK
  <2>3. StartInv /\ LossInv /\ StartedIsWatched /\ ChainIsAlive
    BY DEF Init, StartInv, LossInv, StartedIsWatched, ChainIsAlive
  <2> QED
    BY <2>2, <2>3 DEF IInv
<1>2. IInv /\ [Next]_vars => IInv'
  BY TypeOKNext, WatchNext, LossNext, ChainNext DEF IInv, WatchInv
<1> QED
  BY <1>1, <1>2, PTL DEF Spec

\* The variables of mqtt_log.c and of the client keep their types.
THEOREM TypeCorrect == Spec => []TypeOK
<1>1. IInv => TypeOK
  BY DEF IInv
<1> QED
  BY <1>1, Invariance, PTL

\* A client that runs is watched: disconnect_handler will stop it.
THEOREM ClientsAreWatched == Spec => []StartedIsWatched
<1>1. IInv => StartedIsWatched
  BY DEF IInv
<1> QED
  BY <1>1, Invariance, PTL

\* The log of a connected client never stops for want of a timer or of an
\* acknowledgement.
THEOREM LogIsAlive == Spec => []ChainIsAlive
<1>1. IInv => ChainIsAlive
  BY DEF IInv
<1> QED
  BY <1>1, Invariance, PTL

-----------------------------------------------------------------------------
\* There is no client before mqtt_client_init made it, and nobody to start it.
BootInv == ~booted => client = "none" /\ ~watching /\ event = "idle"

LEMMA BootNext == BootInv /\ [Next]_vars => BootInv'
<1> SUFFICES ASSUME BootInv, [Next]_vars PROVE BootInv'
  OBVIOUS
<1> USE DEF BootInv
<1>1. CASE MinutePasses \/ ClientInit \/ \E new \in Settings : SaveSettings(new)
  BY <1>1 DEF MinutePasses, ClientInit, SaveSettings
<1>2. CASE GotIp \/ StaDisconnected \/ EventTask
  BY <1>2 DEF GotIp, StaDisconnected, EventTask, StartClient, StopClient, EventStep
<1>3. CASE ConnectBroker \/ LoseBroker \/ Acknowledge \/ OnError
  BY <1>3 DEF ConnectBroker, LoseBroker, Acknowledge, OnError, ClientStep
<1>4. CASE ClientTask
  BY <1>4 DEF ClientTask, OnConnected, First, OnDisconnected, OnPublished, ClientStep
<1>5. CASE TimerDue \/ TimerPublish
  BY <1>5 DEF TimerDue, TimerPublish, TimerStep
<1>6. CASE UNCHANGED vars
  BY <1>6 DEF vars
<1> QED
  BY <1>1, <1>2, <1>3, <1>4, <1>5, <1>6 DEF Next

\* To the rest of the firmware the log is the client of LogClient, whatever
\* brokers, messages and the timer do: each step of the event task is one of
\* LogClient, all others change nothing that is seen.
THEOREM LogIsAFollower == Spec => ImplementsLogClient
<1>1. Init => Follower!Init
  BY DEF Init, Follower!Init
<1>2. ASSUME TypeOK, BootInv, [Next]_vars PROVE [Follower!Next]_(Follower!vars)
  <2> USE DEF Follower!Next, Follower!vars
  <2>1. CASE \/ MinutePasses \/ TimerDue \/ TimerPublish \/ UNCHANGED vars
             \/ \E new \in Settings : SaveSettings(new)
    BY <2>1 DEF MinutePasses, TimerDue, TimerPublish, TimerStep, SaveSettings, vars
  <2>2. CASE ClientInit
    BY <1>2, <2>2 DEF BootInv, ClientInit, Follower!Create
  <2>3. CASE GotIp
    BY <2>3 DEF GotIp, EventStep, Follower!Address
  <2>4. CASE StaDisconnected
    BY <2>4 DEF StaDisconnected, EventStep, Follower!Loss
  <2>5. CASE StartClient
    BY <2>5 DEF TypeOK, StartClient, EventStep, Follower!Start
  <2>6. CASE StopClient
    BY <2>6 DEF StopClient, EventStep, Follower!Stop
  <2>7. CASE ConnectBroker \/ LoseBroker \/ Acknowledge \/ OnError
    BY <2>7 DEF ConnectBroker, LoseBroker, Acknowledge, OnError, ClientStep
  <2>8. CASE ClientTask
    BY <2>8 DEF ClientTask, OnConnected, First, OnDisconnected, OnPublished, ClientStep
  <2> QED
    BY <1>2, <2>1, <2>2, <2>3, <2>4, <2>5, <2>6, <2>7, <2>8 DEF Next, EventTask
<1>3. Init => BootInv
  BY DEF Init, BootInv
<1> QED
  BY <1>1, <1>2, <1>3, BootNext, TypeCorrect, PTL DEF Spec, ImplementsLogClient, Follower!Spec
=============================================================================
