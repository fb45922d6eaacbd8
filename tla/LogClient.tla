------------------------------ MODULE LogClient ------------------------------
(***************************************************************************)
(* What the MQTT log makes of the link's events, and all that the rest of  *)
(* the firmware can see of it: connect_handler starts the client when the  *)
(* station gets an address, disconnect_handler stops it at the next loss.  *)
(* MqttLog implements this; LinkedLog puts it under the events of the      *)
(* link.                                                                   *)
(***************************************************************************)

VARIABLES
  client,    \* "none", "stopped" or "running"
  watching,  \* disconnect_handler is registered
  step       \* what is left to do of a handler: "idle", "start", "stop"

vars == <<client, watching, step>>

Init == client = "none" /\ watching = FALSE /\ step = "idle"

\* mqtt_client_init, for a configuration with a server
Create ==
  /\ client = "none"
  /\ client' = "stopped"
  /\ UNCHANGED <<watching, step>>

\* IP_EVENT_STA_GOT_IP: connect_handler is registered with the client, and
\* returns when the server was deleted from the configuration since.
Address ==
  /\ step = "idle"
  /\ \/ client # "none" /\ step' = "start" /\ watching' = TRUE
     \/ UNCHANGED <<step, watching>>
  /\ UNCHANGED client

\* esp_mqtt_client_start; a client that runs refuses.
Start ==
  /\ step = "start"
  /\ client' = IF client = "stopped" THEN "running" ELSE client
  /\ step' = "idle"
  /\ UNCHANGED watching

\* WIFI_EVENT_STA_DISCONNECTED: disconnect_handler takes itself off the list.
Loss ==
  /\ step = "idle"
  /\ step' = IF watching THEN "stop" ELSE "idle"
  /\ watching' = FALSE
  /\ UNCHANGED client

Stop ==
  /\ step = "stop"
  /\ client' = "stopped"
  /\ step' = "idle"
  /\ UNCHANGED watching

\* The board restarts.
Reset == client' = "none" /\ watching' = FALSE /\ step' = "idle"

Next == Create \/ Address \/ Start \/ Loss \/ Stop \/ Reset

Spec == Init /\ [][Next]_vars
=============================================================================
