---------------------------- MODULE DurableConfig ----------------------------
(***************************************************************************)
(* What config.c and the handlers that use it promise of the configuration:*)
(* each accepted request edits the one there is, at once, and nothing else *)
(* changes it while the board is up; flash is given whole configurations   *)
(* only, by a commit the one there is, by a loss of power between the two  *)
(* calls of NVS maybe the one that was handed over.                        *)
(***************************************************************************)

CONSTANTS Addrs, Passwords, NoPassword, NoBlob, ZeroConfig, DefaultConfig

VARIABLES
  up,       \* app_main has started the tasks
  value,    \* the configuration
  pending,  \* the one NVS was handed, until it is committed
  blob      \* the one a boot would load

dvars == <<up, value, pending, blob>>

Init == up = FALSE /\ value = ZeroConfig /\ pending = NoBlob /\ blob = NoBlob

\* Flash may have lost its blob, and a blob that is there may not be loaded.
Boot ==
  /\ ~up /\ up' = TRUE
  /\ blob' \in {blob, NoBlob}
  /\ value' = ZeroConfig \/ (blob' # NoBlob /\ value' = blob')
  /\ UNCHANGED pending

\* A restart, or a loss of power.
GoDown ==
  /\ up /\ up' = FALSE
  /\ value' = ZeroConfig
  /\ blob' = blob \/ (pending # NoBlob /\ blob' = pending)
  /\ pending' = NoBlob

\* config.cgi
EditAddress(dhcp, addr) ==
  /\ up
  /\ value' = [value EXCEPT !.use_dhcp = dhcp, !.ip = addr]
  /\ UNCHANGED <<up, pending, blob>>

\* pass.cgi
EditPassword(password) ==
  /\ up
  /\ value.password # NoPassword
  /\ value' = [value EXCEPT !.password = password]
  /\ UNCHANGED <<up, pending, blob>>

\* reset.cgi?hardreset=yes
RestoreDefaults ==
  /\ up
  /\ value' = DefaultConfig
  /\ UNCHANGED <<up, pending, blob>>

\* nvs_set_blob, nvs_commit: no other request comes between the two.
SetBlob ==
  /\ up
  /\ pending' = value
  /\ UNCHANGED <<up, value, blob>>

Commit ==
  /\ up
  /\ pending = value
  /\ blob' = value
  /\ pending' = NoBlob
  /\ UNCHANGED <<up, value>>

Next ==
  \/ Boot \/ GoDown
  \/ \E dhcp \in BOOLEAN, addr \in Addrs : EditAddress(dhcp, addr)
  \/ \E password \in Passwords \ {NoPassword} : EditPassword(password)
  \/ RestoreDefaults
  \/ SetBlob \/ Commit

Spec == Init /\ [][Next]_dvars
=============================================================================
