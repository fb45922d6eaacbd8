----------------------------- MODULE ConfigStore -----------------------------
(***************************************************************************)
(* The configuration (config.c): the copy in RAM that configSemaphore      *)
(* guards, the copy in flash, and the station interface it is applied to;  *)
(* with the request handlers that change it (config_cgi_post_handler,      *)
(* pass_cgi_post_handler, reset_cgi_get_handler) and the two timers they   *)
(* arm.                                                                    *)
(*                                                                         *)
(* A struct assignment is not atomic: it copies one field at a time.       *)
(* "ip" stands for the address fields and for the names (devname, NTP,     *)
(* MQTT) that are stored and loaded with them.                             *)
(*                                                                         *)
(* intended, stored and saveOk are history variables; no guard looks at    *)
(* them.                                                                   *)
(***************************************************************************)
EXTENDS Naturals

CONSTANTS
  Readers,         \* tasks that only read the configuration
  Addrs, ZeroAddr, DefaultAddr,
  Passwords, NoPassword, DefaultPassword,
  NoTask,          \* nobody holds the semaphore
  NoBlob           \* nothing stored under the key

ASSUME ConstantsAssumption ==
  /\ ZeroAddr \in Addrs /\ DefaultAddr \in Addrs
  /\ NoPassword \in Passwords /\ DefaultPassword \in Passwords
  /\ NoTask \notin Readers \cup {"httpd", "timer"}
  /\ "httpd" \notin Readers /\ "timer" \notin Readers

Tasks == Readers \cup {"httpd", "timer"}
Fields == {"use_dhcp", "ip", "password"}
Config == [use_dhcp : BOOLEAN, ip : Addrs, password : Passwords]

ASSUME NoBlobAssumption == NoBlob \notin Config

\* static config_t config, before anything is loaded
ZeroConfig == [use_dhcp |-> FALSE, ip |-> ZeroAddr, password |-> NoPassword]
\* config_load_defaults
DefaultConfig == [use_dhcp |-> TRUE, ip |-> DefaultAddr, password |-> DefaultPassword]

VARIABLES
  up,          \* app_main has started the tasks
  ram,         \* config
  sem,         \* holder of configSemaphore
  pc,          \* what each task is doing
  todo,        \* fields the struct assignment of a task has still to copy
  local,       \* the config_t on the stack of a task
  req,         \* request httpd is serving
  applyArmed,  \* apply_timer
  resetArmed,  \* reset_timer
  flash,       \* the blob a boot would load
  staged,      \* the blob nvs_set_blob was given, until it is committed
  iface,       \* what the station interface was last told
  intended,    \* history: what the accepted requests ask for
  stored,      \* history: the last configuration stored in ram whole
  saveOk       \* history: the last save, or the load at boot, succeeded

vars == <<up, ram, sem, pc, todo, local, req, applyArmed, resetArmed,
          flash, staged, iface, intended, stored, saveOk>>

memory == <<ram, stored>>
lock == <<sem, todo>>
timers == <<applyArmed, resetArmed>>
nvs == <<flash, staged, saveOk>>

Init ==
  /\ up = FALSE
  /\ ram = ZeroConfig
  /\ sem = NoTask
  /\ pc = [t \in Tasks |-> "idle"]
  /\ todo = [t \in Tasks |-> {}]
  /\ local = [t \in Tasks |-> ZeroConfig]
  /\ req = "none"
  /\ applyArmed = FALSE
  /\ resetArmed = FALSE
  /\ flash = NoBlob
  /\ staged = NoBlob
  /\ iface = [use_dhcp |-> TRUE, ip |-> ZeroAddr]
  /\ intended = ZeroConfig
  /\ stored = ZeroConfig
  /\ saveOk = FALSE

Goto(t, label) == pc' = [pc EXCEPT ![t] = label]

-----------------------------------------------------------------------------
(* Boot, power loss and restart *)

\* app_main as far as the configuration goes: nvs_flash_init may erase the
\* partition, config_load_settings_from_flash may fail (its error is printed
\* and ignored), wifi_init sets the static address.
Boot ==
  /\ ~up
  /\ up' = TRUE
  /\ \E kept \in BOOLEAN : flash' = IF kept THEN flash ELSE NoBlob
  /\ \E ok \in BOOLEAN :
       /\ saveOk' = (ok /\ flash' # NoBlob)
       /\ ram' = IF saveOk' THEN flash' ELSE ZeroConfig
  /\ stored' = ram'
  /\ intended' = ram'
  /\ iface' = IF ram'.use_dhcp THEN [use_dhcp |-> TRUE, ip |-> ZeroAddr]
                               ELSE [use_dhcp |-> FALSE, ip |-> ram'.ip]
  /\ UNCHANGED <<lock, pc, local, req, timers, staged>>

\* RAM is gone.  A blob that was set and not committed may be in flash or not.
GoDown ==
  /\ up' = FALSE
  /\ ram' = ZeroConfig
  /\ stored' = ZeroConfig
  /\ intended' = ZeroConfig
  /\ sem' = NoTask
  /\ pc' = [t \in Tasks |-> "idle"]
  /\ todo' = [t \in Tasks |-> {}]
  /\ local' = [t \in Tasks |-> ZeroConfig]
  /\ req' = "none"
  /\ applyArmed' = FALSE
  /\ resetArmed' = FALSE
  /\ \/ flash' = flash
     \/ staged # NoBlob /\ flash' = staged
  /\ staged' = NoBlob
  /\ iface' = [use_dhcp |-> TRUE, ip |-> ZeroAddr]
  /\ saveOk' = FALSE

PowerLoss == up /\ GoDown

\* restart_timer_func, in the timer task
RestartTimer ==
  /\ up /\ resetArmed
  /\ pc["timer"] = "idle"
  /\ GoDown

-----------------------------------------------------------------------------
(* A struct assignment under configSemaphore *)

\* config_get_current, config_set_new, config_load_defaults and the copy in
\* config_save_settings_to_flash
CopyLabels == {"get", "set", "defaults", "blob"}

\* Faulty variant: config_get_current does not wait for the semaphore.
TakeSemOrNot(t) ==
  /\ pc[t] \in CopyLabels
  /\ sem = NoTask \/ pc[t] = "get"
  /\ todo[t] = {}
  /\ sem' = t
  /\ todo' = [todo EXCEPT ![t] = Fields]
  /\ UNCHANGED <<up, memory, pc, local, req, timers, nvs, iface, intended>>

TakeSem(t) ==
  /\ pc[t] \in CopyLabels
  /\ sem = NoTask
  /\ todo[t] = {}
  /\ sem' = t
  /\ todo' = [todo EXCEPT ![t] = Fields]
  /\ UNCHANGED <<up, memory, pc, local, req, timers, nvs, iface, intended>>

CopyField(t) ==
  /\ sem = t
  /\ \E f \in todo[t] :
       /\ todo' = [todo EXCEPT ![t] = @ \ {f}]
       /\ IF pc[t] \in {"get", "blob"}
            THEN /\ local' = [local EXCEPT ![t] = [@ EXCEPT ![f] = ram[f]]]
                 /\ UNCHANGED ram
            ELSE /\ ram' = [ram EXCEPT ![f] =
                              IF pc[t] = "set" THEN local[t][f] ELSE DefaultConfig[f]]
                 /\ UNCHANGED local
  /\ UNCHANGED <<up, stored, sem, pc, req, timers, nvs, iface, intended>>

\* Where the caller goes on.
After(t) ==
  CASE pc[t] = "get" -> IF t = "httpd" THEN "edit" ELSE "use"
    [] pc[t] = "blob" -> "store"
    [] OTHER -> "open"

\* Faulty variant: config_save_settings_to_flash returns without giving the
\* semaphore back, and nobody will.
GiveSemNotAfterSave(t) ==
  /\ pc[t] \in CopyLabels
  /\ sem = t
  /\ todo[t] = {}
  /\ sem' = IF pc[t] = "blob" THEN "nobody" ELSE NoTask
  /\ stored' = IF pc[t] \in {"set", "defaults"} THEN ram ELSE stored
  /\ Goto(t, After(t))
  /\ UNCHANGED <<up, ram, todo, local, req, timers, nvs, iface, intended>>

GiveSem(t) ==
  /\ pc[t] \in CopyLabels
  /\ sem = t
  /\ todo[t] = {}
  /\ sem' = NoTask
  /\ stored' = IF pc[t] \in {"set", "defaults"} THEN ram ELSE stored
  /\ Goto(t, After(t))
  /\ UNCHANGED <<up, ram, todo, local, req, timers, nvs, iface, intended>>

-----------------------------------------------------------------------------
(* httpd: one task serves all requests. *)

\* Faulty variant: pass.cgi edits a copy that was not just taken.
RequestStale(kind) ==
  /\ up
  /\ pc["httpd"] = "idle"
  /\ req' = kind
  /\ Goto("httpd", CASE kind = "hardreset" -> "defaults"
                     [] kind = "pass" -> "edit"
                     [] OTHER -> "get")
  /\ local' = [local EXCEPT !["httpd"] = DefaultConfig]
  /\ intended' = IF kind = "hardreset" THEN DefaultConfig ELSE intended
  /\ UNCHANGED <<up, memory, lock, timers, nvs, iface>>

\* POST config.cgi, POST pass.cgi and reset.cgi?hardreset=yes.
Request(kind) ==
  /\ up
  /\ pc["httpd"] = "idle"
  /\ req' = kind
  /\ Goto("httpd", IF kind = "hardreset" THEN "defaults" ELSE "get")
  /\ intended' = IF kind = "hardreset" THEN DefaultConfig ELSE intended
  /\ UNCHANGED <<up, memory, lock, local, timers, nvs, iface>>

\* reset.cgi without hardreset: set_reset_timer.
SoftReset ==
  /\ up
  /\ pc["httpd"] = "idle"
  /\ resetArmed' = TRUE
  /\ UNCHANGED <<up, memory, lock, pc, local, req, applyArmed, nvs, iface, intended>>

EndRequest ==
  /\ Goto("httpd", "idle")
  /\ req' = "none"
  /\ local' = [local EXCEPT !["httpd"] = ZeroConfig]

\* No login, no token, a body that does not come, a field that is not valid.
Reject ==
  /\ pc["httpd"] = "edit"
  /\ EndRequest
  /\ UNCHANGED <<up, memory, lock, timers, nvs, iface, intended>>

\* Every field of the form is valid; a field may be missing from it.
AcceptConfig(dhcp, addr) ==
  /\ pc["httpd"] = "edit" /\ req = "config"
  /\ local' = [local EXCEPT !["httpd"].use_dhcp = dhcp, !["httpd"].ip = addr]
  /\ intended' = [intended EXCEPT !.use_dhcp = dhcp, !.ip = addr]
  /\ Goto("httpd", "set")
  /\ UNCHANGED <<up, memory, lock, req, timers, nvs, iface>>

\* The old password was given and the new one is_password_valid.
AcceptPass(password) ==
  /\ pc["httpd"] = "edit" /\ req = "pass"
  /\ local["httpd"].password # NoPassword
  /\ local' = [local EXCEPT !["httpd"].password = password]
  /\ intended' = [intended EXCEPT !.password = password]
  /\ Goto("httpd", "set")
  /\ UNCHANGED <<up, memory, lock, req, timers, nvs, iface>>

\* config_save_settings_to_flash: nvs_open, the copy under the semaphore,
\* nvs_set_blob, nvs_commit.  Every error goes back to a caller that does not
\* look at it.
NvsError(label) ==
  /\ pc["httpd"] = label
  /\ saveOk' = FALSE
  /\ Goto("httpd", "reply")
  /\ UNCHANGED <<up, memory, lock, local, req, timers, flash, staged, iface, intended>>

\* Faulty variant: the blob is not copied from config before it is stored.
NvsOpenNoCopy ==
  /\ pc["httpd"] = "open"
  /\ Goto("httpd", "store")
  /\ UNCHANGED <<up, memory, lock, local, req, timers, nvs, iface, intended>>

NvsOpen ==
  /\ pc["httpd"] = "open"
  /\ Goto("httpd", "blob")
  /\ UNCHANGED <<up, memory, lock, local, req, timers, nvs, iface, intended>>

NvsSetBlob ==
  /\ pc["httpd"] = "store"
  /\ staged' = local["httpd"]
  /\ Goto("httpd", "commit")
  /\ UNCHANGED <<up, memory, lock, local, req, timers, flash, saveOk, iface, intended>>

\* Faulty variant: the handle is closed without a commit.
NvsCommitMissing ==
  /\ pc["httpd"] = "commit"
  /\ saveOk' = TRUE
  /\ Goto("httpd", "reply")
  /\ UNCHANGED <<up, memory, lock, local, req, timers, flash, staged, iface, intended>>

NvsCommit ==
  /\ pc["httpd"] = "commit"
  /\ flash' = staged
  /\ staged' = NoBlob
  /\ saveOk' = TRUE
  /\ Goto("httpd", "reply")
  /\ UNCHANGED <<up, memory, lock, local, req, timers, iface, intended>>

\* Faulty variant: the handler gives up when the save failed.
ReplyAfterSave ==
  /\ pc["httpd"] = "reply"
  /\ EndRequest
  /\ applyArmed' = (applyArmed \/ (req = "config" /\ saveOk))
  /\ resetArmed' = (resetArmed \/ req = "hardreset")
  /\ UNCHANGED <<up, memory, lock, nvs, iface, intended>>

\* The answer, "ok", and then the timer: apply_timer after config.cgi,
\* reset_timer after reset.cgi, none after pass.cgi.
Reply ==
  /\ pc["httpd"] = "reply"
  /\ EndRequest
  /\ applyArmed' = (applyArmed \/ req = "config")
  /\ resetArmed' = (resetArmed \/ req = "hardreset")
  /\ UNCHANGED <<up, memory, lock, nvs, iface, intended>>

-----------------------------------------------------------------------------
(* The timer task and the other readers *)

\* apply_timer_func calls config_apply_settings, which reads config without
\* the semaphore: first use_dhcp, then the address.
ApplyTimer ==
  /\ up /\ applyArmed
  /\ pc["timer"] = "idle"
  /\ applyArmed' = FALSE
  /\ Goto("timer", "apply")
  /\ UNCHANGED <<up, memory, lock, local, req, resetArmed, nvs, iface, intended>>

ApplyDhcp ==
  /\ pc["timer"] = "apply"
  /\ iface' = IF ram.use_dhcp THEN [use_dhcp |-> TRUE, ip |-> ZeroAddr]
                              ELSE [iface EXCEPT !.use_dhcp = FALSE]
  /\ Goto("timer", IF ram.use_dhcp THEN "idle" ELSE "address")
  /\ UNCHANGED <<up, memory, lock, local, req, timers, nvs, intended>>

ApplyAddress ==
  /\ pc["timer"] = "address"
  /\ iface' = [iface EXCEPT !.ip = ram.ip]
  /\ Goto("timer", "idle")
  /\ UNCHANGED <<up, memory, lock, local, req, timers, nvs, intended>>

\* constructDataJSON, mqtt_client_init, connect_handler ask for a copy.
StartRead(t) ==
  /\ up
  /\ pc[t] = "idle"
  /\ Goto(t, "get")
  /\ UNCHANGED <<up, memory, lock, local, req, timers, nvs, iface, intended>>

EndRead(t) ==
  /\ pc[t] = "use"
  /\ Goto(t, "idle")
  /\ local' = [local EXCEPT ![t] = ZeroConfig]
  /\ UNCHANGED <<up, memory, lock, req, timers, nvs, iface, intended>>

-----------------------------------------------------------------------------
Copy(t) == TakeSem(t) \/ CopyField(t) \/ GiveSem(t)

Save ==
  \/ NvsOpen \/ NvsSetBlob \/ NvsCommit
  \/ \E label \in {"open", "store", "commit"} : NvsError(label)

HttpdStep ==
  \/ Reject
  \/ \E dhcp \in BOOLEAN, addr \in Addrs : AcceptConfig(dhcp, addr)
  \/ \E password \in Passwords \ {NoPassword} : AcceptPass(password)
  \/ Save
  \/ Reply

Apply == ApplyTimer \/ ApplyDhcp \/ ApplyAddress

Next ==
  \/ Boot \/ PowerLoss \/ RestartTimer
  \/ \E t \in Tasks : Copy(t)
  \/ \E kind \in {"config", "pass", "hardreset"} : Request(kind)
  \/ SoftReset
  \/ HttpdStep
  \/ Apply
  \/ \E t \in Readers \cup {"timer"} : StartRead(t) \/ EndRead(t)

Spec == Init /\ [][Next]_vars

\* FreeRTOS runs every task that is ready (httpd, the timer task and the
\* others share the CPU), xSemaphoreTake waits with portMAX_DELAY in a queue
\* ordered by priority and then by arrival, and the timer task serves the
\* timers that are due in the order they fall due.
Fairness ==
  /\ \A t \in Tasks : SF_vars(TakeSem(t)) /\ WF_vars(CopyField(t) \/ GiveSem(t))
  /\ \A t \in Readers \cup {"timer"} : WF_vars(EndRead(t))
  /\ WF_vars(HttpdStep)
  /\ SF_vars(ApplyTimer)
  /\ WF_vars(ApplyDhcp \/ ApplyAddress)
  /\ WF_vars(Boot)

FairSpec == Spec /\ Fairness

-----------------------------------------------------------------------------
(* Properties *)

Labels == {"idle", "get", "edit", "set", "defaults", "open", "blob", "store",
           "commit", "reply", "apply", "address", "use"}

\* The variables keep their types; nothing but a whole blob is ever loaded.
TypeOK ==
  /\ up \in BOOLEAN
  /\ ram \in Config
  /\ sem \in Tasks \cup {NoTask}
  /\ pc \in [Tasks -> Labels]
  /\ todo \in [Tasks -> SUBSET Fields]
  /\ local \in [Tasks -> Config]
  /\ req \in {"none", "config", "pass", "hardreset"}
  /\ applyArmed \in BOOLEAN
  /\ resetArmed \in BOOLEAN
  /\ flash \in Config \cup {NoBlob}
  /\ staged \in Config \cup {NoBlob}
  /\ iface \in [use_dhcp : BOOLEAN, ip : Addrs]
  /\ intended \in Config
  /\ stored \in Config
  /\ saveOk \in BOOLEAN

\* A copy made by config_get_current, or for nvs_set_blob, is a configuration
\* that somebody stored, never fields of two of them.
CopyIsWhole ==
  \A t \in Tasks :
    (sem = t /\ pc[t] \in {"get", "blob"} /\ todo[t] = {}) => local[t] = stored

Storing == pc["httpd"] \in {"set", "defaults"}

\* Between two stores the configuration in RAM is what the accepted requests
\* add up to: no request undoes another one, although each handler writes back
\* all the fields of a copy it took before it waited for the body.
RequestsAddUp == (up /\ ~Storing) => ram = intended

\* When no save failed, what a restart would load is what the requests add up
\* to.
FlashIsCurrent ==
  (up /\ saveOk /\ pc["httpd"] \in {"idle", "get", "edit", "reply"}) => flash = intended

Matches(i, c) == i.use_dhcp = c.use_dhcp /\ (~c.use_dhcp => i.ip = c.ip)

\* config_apply_settings may see half of a change, since it does not take the
\* semaphore; but once nothing is pending the interface is as configured.
InterfaceFollowsConfig ==
  (/\ up /\ ~applyArmed /\ ~resetArmed
   /\ pc["timer"] \notin {"apply", "address"}
   /\ pc["httpd"] \in {"idle", "get", "edit"})
    => Matches(iface, ram)

\* httpd answers every request: nobody keeps the semaphore.
RequestsFinish == pc["httpd"] # "idle" ~> pc["httpd"] = "idle"

\* An interface that was told otherwise than what is stored is told in the end,
\* also after a save that failed, unless a later request puts the timer back or
\* the board is about to restart.
ChangesAreApplied ==
  (up /\ pc["httpd"] = "idle" /\ ~Matches(iface, stored))
    ~> (Matches(iface, stored) \/ pc["httpd"] = "reply" \/ resetArmed \/ ~up)

-----------------------------------------------------------------------------
(* The store implements a configuration that requests edit at once. *)

Durable == INSTANCE DurableConfig
             WITH value <- stored, pending <- staged, blob <- flash

\* A handler reads, waits for the body, writes back field by field and saves in
\* steps that can fail; all the same it edits the configuration at once, and
\* flash never holds one that was not in force as a whole.
ImplementsDurable == Durable!Spec
=============================================================================
