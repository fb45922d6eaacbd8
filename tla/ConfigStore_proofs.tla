------------------------- MODULE ConfigStore_proofs -------------------------
(***************************************************************************)
(* Proofs about ConfigStore, for any number of readers and any addresses   *)
(* and passwords: the types, what RAM, flash, the interface and the copies *)
(* hold, and that the store implements DurableConfig.                      *)
(***************************************************************************)
EXTENDS ConfigStore, TLAPS

\* Who does what; a board that is down does nothing.
ControlInv ==
  /\ pc["httpd"] \in Labels \ {"apply", "address", "use"}
  /\ pc["timer"] \in {"idle", "get", "use", "apply", "address"}
  /\ \A t \in Readers : pc[t] \in {"idle", "get", "use"}
  /\ pc["httpd"] = "idle" <=> req = "none"
  /\ pc["httpd"] \in {"get", "edit", "set"} => req \in {"config", "pass"}
  /\ pc["httpd"] = "defaults" => req = "hardreset"
  /\ ~up => /\ sem = NoTask
            /\ ~applyArmed /\ ~resetArmed
            /\ \A t \in Tasks : pc[t] = "idle"

\* Only the holder of the semaphore copies.
LockInv ==
  /\ sem \in Tasks => pc[sem] \in CopyLabels
  /\ \A t \in Tasks : t # sem => todo[t] = {}

\* httpd is the only task that stores, and while it holds the semaphore the
\* fields it has copied are those of the request.
RamInv ==
  /\ (up /\ ~Storing) => ram = intended /\ stored = ram
  /\ pc["httpd"] = "set" => local["httpd"] = intended
  /\ pc["httpd"] = "defaults" => intended = DefaultConfig
  /\ Storing => IF sem = "httpd"
                  THEN \A f \in Fields \ todo["httpd"] : ram[f] = intended[f]
                  ELSE ram = stored

\* The fields a task has copied are those of ram, and httpd, which nobody
\* else overwrites, keeps them while it edits and saves.
CopyInv ==
  /\ \A t \in Tasks :
       (sem = t /\ pc[t] \in {"get", "blob"})
         => \A f \in Fields \ todo[t] : local[t][f] = ram[f]
  /\ pc["httpd"] \in {"edit", "store"} => local["httpd"] = ram
  /\ pc["httpd"] = "commit" => staged = ram

\* A request that will arm a timer when it is done.
Changing ==
  /\ pc["httpd"] \notin {"idle", "get", "edit"}
  /\ req \in {"config", "hardreset"}

ApplyInv ==
  /\ (req = "pass" /\ pc["httpd"] = "set") =>
       local["httpd"].use_dhcp = ram.use_dhcp /\ local["httpd"].ip = ram.ip
  /\ (up /\ ~applyArmed /\ ~resetArmed /\ ~Changing) =>
       CASE pc["timer"] = "apply" -> TRUE
         [] pc["timer"] = "address" -> ~iface.use_dhcp /\ ~ram.use_dhcp
         [] OTHER -> Matches(iface, ram)

IInv ==
  /\ TypeOK
  /\ ControlInv
  /\ LockInv
  /\ RamInv
  /\ CopyInv
  /\ FlashIsCurrent
  /\ ApplyInv

-----------------------------------------------------------------------------
LEMMA TaskFacts ==
  /\ "httpd" \in Tasks /\ "timer" \in Tasks
  /\ "httpd" \notin Readers /\ "timer" \notin Readers
  /\ NoTask \notin Tasks
  /\ \A t \in Tasks : t \in Readers \/ t = "httpd" \/ t = "timer"
BY ConstantsAssumption DEF Tasks

LEMMA ConfigFacts ==
  /\ ZeroConfig \in Config /\ DefaultConfig \in Config
  /\ NoBlob \notin Config
  /\ \A c \in Config, d \in Config : (\A f \in Fields : c[f] = d[f]) => c = d
BY ConstantsAssumption, NoBlobAssumption DEF ZeroConfig, DefaultConfig, Config, Fields

LEMMA BootIInv ==
  ASSUME IInv, Boot
  PROVE  IInv'
<1> USE TaskFacts, ConfigFacts DEF memory, lock, timers, nvs, Goto
<1>1. TypeOK'
  <2>1. flash' \in Config \cup {NoBlob} /\ saveOk' \in BOOLEAN
    BY DEF IInv, TypeOK, Boot
  <2>2. ram' \in Config
    BY <2>1 DEF IInv, TypeOK, Boot
  <2>3. ram'.use_dhcp \in BOOLEAN /\ ram'.ip \in Addrs
    BY <2>2 DEF Config
  <2>4. iface' \in [use_dhcp : BOOLEAN, ip : Addrs]
    BY <2>3, ConstantsAssumption DEF Boot
  <2> QED
    BY <2>1, <2>2, <2>4 DEF IInv, TypeOK, Boot
<1>2. ControlInv'
  BY DEF IInv, TypeOK, ControlInv, LockInv, Labels, CopyLabels, Boot
<1>3. LockInv'
  BY DEF IInv, TypeOK, ControlInv, LockInv, CopyLabels, Boot
<1>4. RamInv'
  BY DEF IInv, TypeOK, ControlInv, LockInv, RamInv, CopyInv, Storing, Boot
<1>5. CopyInv'
  BY DEF IInv, TypeOK, ControlInv, LockInv, RamInv, CopyInv, Storing,
         CopyLabels, Boot
<1>6. FlashIsCurrent'
  BY DEF IInv, TypeOK, ControlInv, RamInv, CopyInv, FlashIsCurrent, Storing,
         Boot
<1>7. ApplyInv'
  <2>1. pc' = pc /\ pc["timer"] = "idle" /\ pc["httpd"] = "idle" /\ req' = "none"
    BY DEF IInv, ControlInv, Boot
  <2>2. Matches(iface, ram)'
    <3>1. CASE ram'.use_dhcp
      <4>1. iface' = [use_dhcp |-> TRUE, ip |-> ZeroAddr]
        BY <3>1 DEF Boot
      <4> QED
        BY <3>1, <4>1, <1>1 DEF Matches, TypeOK, Config
    <3>2. CASE ~ram'.use_dhcp
      <4>1. iface' = [use_dhcp |-> FALSE, ip |-> ram'.ip]
        BY <3>2 DEF Boot
      <4> QED
        BY <3>2, <4>1, <1>1 DEF Matches, TypeOK, Config
    <3> QED
      BY <3>1, <3>2
  <2> QED
    BY <2>1, <2>2 DEF ApplyInv
<1> QED
  BY <1>1, <1>2, <1>3, <1>4, <1>5, <1>6, <1>7 DEF IInv

LEMMA TakeSemIInv ==
  ASSUME NEW t \in Tasks, IInv, TakeSem(t)
  PROVE  IInv'
<1> USE TaskFacts, ConfigFacts DEF memory, lock, timers, nvs, Goto
<1>1. TypeOK'
  BY DEF IInv, TypeOK, Labels, TakeSem, CopyLabels
<1>2. ControlInv'
  BY DEF IInv, TypeOK, ControlInv, LockInv, Labels, CopyLabels, TakeSem
<1>3. LockInv'
  <2>1. sem' = t /\ pc'[t] \in CopyLabels
    BY DEF TakeSem
  <2>2. \A u \in Tasks : u # t => todo'[u] = todo[u]
    BY DEF IInv, TypeOK, TakeSem
  <2>3. \A u \in Tasks : todo[u] = {}
    BY DEF IInv, LockInv, TakeSem
  <2> QED
    BY <2>1, <2>2, <2>3 DEF LockInv
<1>4. RamInv'
  BY DEF IInv, TypeOK, ControlInv, LockInv, RamInv, CopyInv, Storing,
         TakeSem, CopyLabels
<1>5. CopyInv'
  BY DEF IInv, TypeOK, ControlInv, LockInv, RamInv, CopyInv, Storing,
         CopyLabels, TakeSem
<1>6. FlashIsCurrent'
  BY DEF IInv, TypeOK, ControlInv, RamInv, CopyInv, FlashIsCurrent, Storing,
         TakeSem, CopyLabels
<1>7. ApplyInv'
  BY DEF IInv, TypeOK, ControlInv, LockInv, RamInv, CopyInv, ApplyInv,
         Changing, Matches, Storing, TakeSem, CopyLabels
<1> QED
  BY <1>1, <1>2, <1>3, <1>4, <1>5, <1>6, <1>7 DEF IInv

LEMMA CopyFieldIInv ==
  ASSUME NEW t \in Tasks, IInv, CopyField(t)
  PROVE  IInv'
<1> USE TaskFacts, ConfigFacts DEF memory, lock, timers, nvs, Goto
<1> PICK f \in todo[t] :
      /\ todo' = [todo EXCEPT ![t] = @ \ {f}]
      /\ IF pc[t] \in {"get", "blob"}
           THEN /\ local' = [local EXCEPT ![t] = [@ EXCEPT ![f] = ram[f]]]
                /\ UNCHANGED ram
           ELSE /\ ram' = [ram EXCEPT ![f] =
                             IF pc[t] = "set" THEN local[t][f] ELSE DefaultConfig[f]]
                /\ UNCHANGED local
  BY DEF CopyField
<1>1. /\ sem = t /\ f \in Fields
      /\ local[t] \in Config /\ ram \in Config
      /\ todo' \in [Tasks -> SUBSET Fields]
      /\ todo'[t] = todo[t] \ {f}
      /\ pc[t] \in CopyLabels
      /\ UNCHANGED <<up, stored, sem, pc, req, timers, nvs, iface, intended>>
  BY DEF CopyField, IInv, TypeOK, LockInv
<1>2. (ControlInv /\ LockInv)'
  BY <1>1 DEF IInv, TypeOK, ControlInv, LockInv
<1>3. CASE pc[t] \in {"get", "blob"}
  <2>1. /\ ram' = ram
        /\ local' = [local EXCEPT ![t] = [local[t] EXCEPT ![f] = ram[f]]]
    BY <1>3
  <2>2. /\ local' \in [Tasks -> Config]
        /\ local'[t][f] = ram[f]
        /\ \A g \in Fields \ {f} : local'[t][g] = local[t][g]
        /\ \A u \in Tasks \ {t} : local'[u] = local[u]
    <3> DEFINE copy == [local[t] EXCEPT ![f] = ram[f]]
    <3>1. /\ copy \in Config
          /\ copy[f] = ram[f]
          /\ \A g \in Fields \ {f} : copy[g] = local[t][g]
      BY <1>1 DEF Config, Fields
    <3>2. local \in [Tasks -> Config] /\ local' = [local EXCEPT ![t] = copy]
      BY <2>1 DEF IInv, TypeOK
    <3> HIDE DEF copy
    <3> QED
      BY <3>1, <3>2
  <2>3. TypeOK'
    BY <1>1, <2>1, <2>2 DEF IInv, TypeOK
  <2>4. pc["httpd"] \in {"set", "edit", "store"} => t # "httpd"
    BY <1>3
  <2>5. RamInv'
    BY <1>1, <1>3, <2>1, <2>2, <2>4 DEF IInv, LockInv, ControlInv, RamInv, Storing
  <2>6. CopyInv'
    BY <1>1, <1>3, <2>1, <2>2, <2>4 DEF IInv, CopyInv
  <2>7. (FlashIsCurrent /\ ApplyInv)'
    BY <1>1, <2>1, <2>2, <2>4 DEF IInv, FlashIsCurrent, ApplyInv, Changing, Matches
  <2> QED
    BY <1>2, <2>3, <2>5, <2>6, <2>7 DEF IInv
<1>4. CASE pc[t] \in {"set", "defaults"}
  <2>1. t = "httpd" /\ local' = local
    BY <1>1, <1>4 DEF IInv, ControlInv
  <2>2. intended \in Config /\ intended[f] = (IF pc[t] = "set" THEN local[t][f]
                                                             ELSE DefaultConfig[f])
    BY <1>4, <2>1 DEF IInv, TypeOK, RamInv
  <2>3. ram' = [ram EXCEPT ![f] = intended[f]]
    BY <1>4, <2>2
  <2>4. /\ ram' \in Config
        /\ ram'[f] = intended[f]
        /\ \A g \in Fields \ {f} : ram'[g] = ram[g]
    <3>1. /\ [ram EXCEPT ![f] = intended[f]] \in Config
          /\ [ram EXCEPT ![f] = intended[f]][f] = intended[f]
          /\ \A g \in Fields \ {f} : [ram EXCEPT ![f] = intended[f]][g] = ram[g]
      BY <1>1, <2>2 DEF Config, Fields
    <3> QED
      BY <2>3, <3>1
  <2>5. TypeOK'
    BY <1>1, <2>1, <2>4 DEF IInv, TypeOK
  <2>6. RamInv'
    BY <1>1, <1>4, <2>1, <2>4 DEF IInv, RamInv, Storing
  <2>7. CopyInv'
    BY <1>1, <1>4, <2>1, <2>4 DEF IInv, CopyInv
  <2>8. FlashIsCurrent'
    BY <1>1, <1>4, <2>1 DEF IInv, FlashIsCurrent
  <2>9. ApplyInv'
    <3>1. CASE req = "pass"
      <4>1. pc["httpd"] = "set"
        BY <1>4, <2>1, <3>1 DEF IInv, ControlInv
      <4>2. intended = local["httpd"]
        BY <4>1 DEF IInv, RamInv
      <4>3. /\ local["httpd"]["use_dhcp"] = ram["use_dhcp"]
            /\ local["httpd"]["ip"] = ram["ip"]
        BY <3>1, <4>1 DEF IInv, ApplyInv
      <4>4. ram'["use_dhcp"] = ram["use_dhcp"] /\ ram'["ip"] = ram["ip"]
        BY <2>4, <4>2, <4>3 DEF Fields
      <4> QED
        BY <1>1, <2>1, <4>3, <4>4 DEF IInv, ApplyInv, Changing, Matches
    <3>2. CASE req # "pass"
      <4>1. req \in {"config", "hardreset"}
        BY <1>4, <2>1, <3>2 DEF IInv, ControlInv
      <4> QED
        BY <1>1, <1>4, <2>1, <3>2, <4>1 DEF ApplyInv, Changing
    <3> QED
      BY <3>1, <3>2
  <2> QED
    BY <1>2, <2>5, <2>6, <2>7, <2>8, <2>9 DEF IInv
<1> QED
  BY <1>1, <1>3, <1>4 DEF CopyLabels

LEMMA GiveSemIInv ==
  ASSUME NEW t \in Tasks, IInv, GiveSem(t)
  PROVE  IInv'
<1> USE TaskFacts, ConfigFacts DEF memory, lock, timers, nvs, Goto
<1>1. TypeOK'
  BY DEF IInv, TypeOK, Labels, GiveSem, After
<1>2. ControlInv'
  BY DEF IInv, TypeOK, ControlInv, LockInv, Labels, CopyLabels, GiveSem, After
<1>3. LockInv'
  BY DEF IInv, TypeOK, ControlInv, LockInv, CopyLabels, GiveSem, After
<1>4. RamInv'
  <2>1. CASE Storing /\ t = "httpd"
    <3>1. ram = intended
      BY <2>1 DEF IInv, TypeOK, RamInv, GiveSem, Storing
    <3> QED
      BY <2>1, <3>1 DEF IInv, TypeOK, RamInv, GiveSem, After, Storing
  <2>2. CASE ~(Storing /\ t = "httpd")
    <3>1. pc[t] \in {"get", "blob"}
      BY <2>2 DEF IInv, LockInv, ControlInv, CopyLabels, GiveSem, Storing
    <3>2. stored' = stored
      BY <3>1 DEF GiveSem
    <3>3. pc'["httpd"] \in {"set", "defaults"} <=> pc["httpd"] \in {"set", "defaults"}
      BY <3>1 DEF IInv, TypeOK, GiveSem, After
    <3>4. t # "httpd" => pc'["httpd"] = pc["httpd"]
      BY DEF IInv, TypeOK, GiveSem
    <3>5. (pc["httpd"] \in {"set", "defaults"}) => t # "httpd"
      BY <3>1
    <3> QED
      BY <3>2, <3>3, <3>4, <3>5 DEF IInv, RamInv, GiveSem, Storing
  <2> QED
    BY <2>1, <2>2
<1>5. CopyInv'
  <2>1. sem' = NoTask /\ UNCHANGED <<ram, local, staged>>
    BY DEF GiveSem
  <2>2. \A u \in Tasks : sem' # u
    BY <2>1
  <2>3. CASE t # "httpd"
    <3>1. pc'["httpd"] = pc["httpd"]
      BY <2>3 DEF IInv, TypeOK, GiveSem
    <3> QED
      BY <2>1, <2>2, <3>1 DEF IInv, CopyInv
  <2>4. CASE t = "httpd"
    <3>1. pc'["httpd"] = After("httpd")
      BY <2>4 DEF IInv, TypeOK, GiveSem
    <3>2. pc'["httpd"] # "commit"
      BY <3>1 DEF After
    <3>3. pc'["httpd"] \in {"edit", "store"} => pc["httpd"] \in {"get", "blob"}
      BY <3>1 DEF After
    <3>4. pc["httpd"] \in {"get", "blob"} => local["httpd"] = ram
      <4> SUFFICES ASSUME pc["httpd"] \in {"get", "blob"} PROVE local["httpd"] = ram
        OBVIOUS
      <4>1. \A f \in Fields : local["httpd"][f] = ram[f]
        BY <2>4 DEF IInv, CopyInv, GiveSem
      <4> QED
        BY <4>1 DEF IInv, TypeOK
    <3> QED
      BY <2>1, <2>2, <3>2, <3>3, <3>4 DEF CopyInv
  <2> QED
    BY <2>3, <2>4
<1>6. FlashIsCurrent'
  BY DEF IInv, TypeOK, ControlInv, RamInv, CopyInv, FlashIsCurrent, Storing,
         GiveSem, After
<1>7. ApplyInv'
  <2>1. UNCHANGED <<up, ram, local, req, timers, iface>>
    BY DEF GiveSem
  <2>2. CASE t = "httpd"
    <3>1. /\ pc' = [pc EXCEPT !["httpd"] = After("httpd")]
          /\ pc["httpd"] \in CopyLabels
      BY <2>2 DEF IInv, LockInv, GiveSem
    <3>2. pc'["timer"] = pc["timer"] /\ pc'["httpd"] = After("httpd")
      BY <3>1 DEF IInv, TypeOK
    <3>3. After("httpd") # "set" /\ (Changing => Changing')
      BY <2>1, <3>1, <3>2 DEF After, CopyLabels, Changing
    <3> QED
      BY <2>1, <3>2, <3>3 DEF IInv, ApplyInv, Matches
  <2>3. CASE t # "httpd"
    <3>1. pc'["httpd"] = pc["httpd"]
      BY <2>3 DEF IInv, TypeOK, GiveSem
    <3>2. \/ pc'["timer"] = pc["timer"]
          \/ pc["timer"] = "get" /\ pc'["timer"] = "use"
      BY DEF IInv, TypeOK, LockInv, ControlInv, CopyLabels, GiveSem, After
    <3> QED
      BY <2>1, <3>1, <3>2 DEF IInv, ApplyInv, Changing, Matches
  <2> QED
    BY <2>2, <2>3
<1> QED
  BY <1>1, <1>2, <1>3, <1>4, <1>5, <1>6, <1>7 DEF IInv

LEMMA RequestIInv ==
  ASSUME NEW kind \in {"config", "pass", "hardreset"}, IInv, Request(kind)
  PROVE  IInv'
<1> USE TaskFacts, ConfigFacts DEF memory, lock, timers, nvs, Goto
<1>1. TypeOK'
  BY DEF IInv, TypeOK, Labels, Request
<1>2. ControlInv'
  BY DEF IInv, TypeOK, ControlInv, LockInv, Labels, CopyLabels, Request
<1>3. LockInv'
  BY DEF IInv, TypeOK, ControlInv, LockInv, CopyLabels, Request
<1>4. RamInv'
  <2>1. /\ up /\ ~Storing
        /\ ram = intended /\ stored = ram /\ sem # "httpd"
    BY DEF IInv, ControlInv, LockInv, RamInv, Storing, Request, CopyLabels
  <2>2. CASE kind = "hardreset"
    <3>1. pc'["httpd"] = "defaults" /\ intended' = DefaultConfig
      BY <2>2 DEF IInv, TypeOK, Request
    <3> QED
      BY <2>1, <3>1 DEF RamInv, Storing, Request
  <2>3. CASE kind # "hardreset"
    <3>1. pc'["httpd"] = "get" /\ intended' = intended
      BY <2>3 DEF IInv, TypeOK, Request
    <3> QED
      BY <2>1, <3>1 DEF RamInv, Storing, Request
  <2> QED
    BY <2>2, <2>3
<1>5. CopyInv'
  BY DEF IInv, TypeOK, ControlInv, LockInv, RamInv, CopyInv, Storing,
         CopyLabels, Request
<1>6. FlashIsCurrent'
  BY DEF IInv, TypeOK, ControlInv, RamInv, CopyInv, FlashIsCurrent, Storing,
         Request
<1>7. ApplyInv'
  BY DEF IInv, TypeOK, ControlInv, LockInv, RamInv, CopyInv, ApplyInv,
         Changing, Matches, Storing, Request
<1> QED
  BY <1>1, <1>2, <1>3, <1>4, <1>5, <1>6, <1>7 DEF IInv

LEMMA SoftResetIInv ==
  ASSUME IInv, SoftReset
  PROVE  IInv'
<1> USE TaskFacts, ConfigFacts DEF memory, lock, timers, nvs, Goto
<1>1. TypeOK'
  BY DEF IInv, TypeOK, Labels, SoftReset
<1>2. ControlInv'
  BY DEF IInv, TypeOK, ControlInv, LockInv, Labels, CopyLabels, SoftReset
<1>3. LockInv'
  BY DEF IInv, TypeOK, ControlInv, LockInv, CopyLabels, SoftReset
<1>4. RamInv'
  BY DEF IInv, TypeOK, ControlInv, LockInv, RamInv, CopyInv, Storing,
         SoftReset
<1>5. CopyInv'
  BY DEF IInv, TypeOK, ControlInv, LockInv, RamInv, CopyInv, Storing,
         CopyLabels, SoftReset
<1>6. FlashIsCurrent'
  BY DEF IInv, TypeOK, ControlInv, RamInv, CopyInv, FlashIsCurrent, Storing,
         SoftReset
<1>7. ApplyInv'
  BY DEF IInv, TypeOK, ControlInv, LockInv, RamInv, CopyInv, ApplyInv,
         Changing, Matches, Storing, SoftReset
<1> QED
  BY <1>1, <1>2, <1>3, <1>4, <1>5, <1>6, <1>7 DEF IInv

LEMMA RejectIInv ==
  ASSUME IInv, Reject
  PROVE  IInv'
<1> USE TaskFacts, ConfigFacts DEF memory, lock, timers, nvs, Goto
<1>1. TypeOK'
  BY DEF IInv, TypeOK, Labels, Reject, EndRequest
<1>2. ControlInv'
  BY DEF IInv, TypeOK, ControlInv, LockInv, Labels, CopyLabels, Reject,
         EndRequest
<1>3. LockInv'
  BY DEF IInv, TypeOK, ControlInv, LockInv, CopyLabels, Reject, EndRequest
<1>4. RamInv'
  BY DEF IInv, TypeOK, ControlInv, LockInv, RamInv, CopyInv, Storing, Reject,
         EndRequest
<1>5. CopyInv'
  BY DEF IInv, TypeOK, ControlInv, LockInv, RamInv, CopyInv, Storing,
         CopyLabels, Reject, EndRequest
<1>6. FlashIsCurrent'
  BY DEF IInv, TypeOK, ControlInv, RamInv, CopyInv, FlashIsCurrent, Storing,
         Reject, EndRequest
<1>7. ApplyInv'
  BY DEF IInv, TypeOK, ControlInv, LockInv, RamInv, CopyInv, ApplyInv,
         Changing, Matches, Storing, Reject, EndRequest
<1> QED
  BY <1>1, <1>2, <1>3, <1>4, <1>5, <1>6, <1>7 DEF IInv

LEMMA AcceptConfigIInv ==
  ASSUME NEW dhcp \in BOOLEAN, NEW addr \in Addrs, IInv, AcceptConfig(dhcp, addr)
  PROVE  IInv'
<1> USE TaskFacts, ConfigFacts DEF memory, lock, timers, nvs, Goto
<1>1. TypeOK'
  <2>1. local["httpd"] \in Config /\ intended \in Config
    BY DEF IInv, TypeOK
  <2>2. /\ [local["httpd"] EXCEPT !.use_dhcp = dhcp, !.ip = addr] \in Config
        /\ [intended EXCEPT !.use_dhcp = dhcp, !.ip = addr] \in Config
    BY <2>1 DEF Config
  <2>3. local'["httpd"] = [local["httpd"] EXCEPT !.use_dhcp = dhcp, !.ip = addr]
    BY DEF IInv, TypeOK, AcceptConfig
  <2>4. local' \in [Tasks -> Config]
    BY <2>2 DEF IInv, TypeOK, AcceptConfig
  <2> QED
    BY <2>2, <2>4 DEF IInv, TypeOK, Labels, AcceptConfig
<1>2. ControlInv'
  BY DEF IInv, TypeOK, ControlInv, LockInv, Labels, CopyLabels, AcceptConfig,
         Config
<1>3. LockInv'
  BY DEF IInv, TypeOK, ControlInv, LockInv, CopyLabels, AcceptConfig, Config
<1>4. RamInv'
  <2>1. pc'["httpd"] = "set" /\ sem # "httpd"
    BY DEF IInv, TypeOK, LockInv, CopyLabels, AcceptConfig
  <2>2. ram = intended /\ stored = ram /\ local["httpd"] = ram
    BY DEF IInv, ControlInv, RamInv, CopyInv, Storing, AcceptConfig
  <2>3. local'["httpd"] = intended'
    BY <2>2 DEF IInv, TypeOK, AcceptConfig
  <2> QED
    BY <2>1, <2>2, <2>3 DEF RamInv, Storing, AcceptConfig
<1>5. CopyInv'
  BY DEF IInv, TypeOK, ControlInv, LockInv, RamInv, CopyInv, Storing,
         CopyLabels, AcceptConfig, Config
<1>6. FlashIsCurrent'
  BY DEF IInv, TypeOK, ControlInv, RamInv, CopyInv, FlashIsCurrent, Storing,
         AcceptConfig, Config
<1>7. ApplyInv'
  BY DEF IInv, TypeOK, ControlInv, LockInv, RamInv, CopyInv, ApplyInv,
         Changing, Matches, Storing, AcceptConfig, Config
<1> QED
  BY <1>1, <1>2, <1>3, <1>4, <1>5, <1>6, <1>7 DEF IInv

LEMMA AcceptPassIInv ==
  ASSUME NEW password \in Passwords, IInv, AcceptPass(password)
  PROVE  IInv'
<1> USE TaskFacts, ConfigFacts DEF memory, lock, timers, nvs, Goto
<1>1. TypeOK'
  <2>1. local["httpd"] \in Config /\ intended \in Config
    BY DEF IInv, TypeOK
  <2>2. /\ [local["httpd"] EXCEPT !.password = password] \in Config
        /\ [intended EXCEPT !.password = password] \in Config
    BY <2>1 DEF Config
  <2>3. local'["httpd"] = [local["httpd"] EXCEPT !.password = password]
    BY DEF IInv, TypeOK, AcceptPass
  <2>4. local' \in [Tasks -> Config]
    BY <2>2 DEF IInv, TypeOK, AcceptPass
  <2> QED
    BY <2>2, <2>4 DEF IInv, TypeOK, Labels, AcceptPass
<1>2. ControlInv'
  BY DEF IInv, TypeOK, ControlInv, LockInv, Labels, CopyLabels, AcceptPass,
         Config
<1>3. LockInv'
  BY DEF IInv, TypeOK, ControlInv, LockInv, CopyLabels, AcceptPass, Config
<1>4. RamInv'
  <2>1. pc'["httpd"] = "set" /\ sem # "httpd"
    BY DEF IInv, TypeOK, LockInv, CopyLabels, AcceptPass
  <2>2. ram = intended /\ stored = ram /\ local["httpd"] = ram
    BY DEF IInv, ControlInv, RamInv, CopyInv, Storing, AcceptPass
  <2>3. local'["httpd"] = intended'
    BY <2>2 DEF IInv, TypeOK, AcceptPass
  <2> QED
    BY <2>1, <2>2, <2>3 DEF RamInv, Storing, AcceptPass
<1>5. CopyInv'
  BY DEF IInv, TypeOK, ControlInv, LockInv, RamInv, CopyInv, Storing,
         CopyLabels, AcceptPass, Config
<1>6. FlashIsCurrent'
  BY DEF IInv, TypeOK, ControlInv, RamInv, CopyInv, FlashIsCurrent, Storing,
         AcceptPass, Config
<1>7. ApplyInv'
  BY DEF IInv, TypeOK, ControlInv, LockInv, RamInv, CopyInv, ApplyInv,
         Changing, Matches, Storing, AcceptPass, Config
<1> QED
  BY <1>1, <1>2, <1>3, <1>4, <1>5, <1>6, <1>7 DEF IInv

LEMMA NvsErrorIInv ==
  ASSUME NEW label \in {"open", "store", "commit"}, IInv, NvsError(label)
  PROVE  IInv'
<1> USE TaskFacts, ConfigFacts DEF memory, lock, timers, nvs, Goto
<1>1. TypeOK'
  BY DEF IInv, TypeOK, Labels, NvsError
<1>2. ControlInv'
  BY DEF IInv, TypeOK, ControlInv, LockInv, Labels, CopyLabels, NvsError
<1>3. LockInv'
  BY DEF IInv, TypeOK, ControlInv, LockInv, CopyLabels, NvsError
<1>4. RamInv'
  BY DEF IInv, TypeOK, ControlInv, LockInv, RamInv, CopyInv, Storing, NvsError
<1>5. CopyInv'
  BY DEF IInv, TypeOK, ControlInv, LockInv, RamInv, CopyInv, Storing,
         CopyLabels, NvsError
<1>6. FlashIsCurrent'
  BY DEF IInv, TypeOK, ControlInv, RamInv, CopyInv, FlashIsCurrent, Storing,
         NvsError
<1>7. ApplyInv'
  BY DEF IInv, TypeOK, ControlInv, LockInv, RamInv, CopyInv, ApplyInv,
         Changing, Matches, Storing, NvsError
<1> QED
  BY <1>1, <1>2, <1>3, <1>4, <1>5, <1>6, <1>7 DEF IInv

LEMMA NvsOpenIInv ==
  ASSUME IInv, NvsOpen
  PROVE  IInv'
<1> USE TaskFacts, ConfigFacts DEF memory, lock, timers, nvs, Goto
<1>1. TypeOK'
  BY DEF IInv, TypeOK, Labels, NvsOpen
<1>2. ControlInv'
  BY DEF IInv, TypeOK, ControlInv, LockInv, Labels, CopyLabels, NvsOpen
<1>3. LockInv'
  BY DEF IInv, TypeOK, ControlInv, LockInv, CopyLabels, NvsOpen
<1>4. RamInv'
  BY DEF IInv, TypeOK, ControlInv, LockInv, RamInv, CopyInv, Storing, NvsOpen
<1>5. CopyInv'
  BY DEF IInv, TypeOK, ControlInv, LockInv, RamInv, CopyInv, Storing,
         CopyLabels, NvsOpen
<1>6. FlashIsCurrent'
  BY DEF IInv, TypeOK, ControlInv, RamInv, CopyInv, FlashIsCurrent, Storing,
         NvsOpen
<1>7. ApplyInv'
  BY DEF IInv, TypeOK, ControlInv, LockInv, RamInv, CopyInv, ApplyInv,
         Changing, Matches, Storing, NvsOpen
<1> QED
  BY <1>1, <1>2, <1>3, <1>4, <1>5, <1>6, <1>7 DEF IInv

LEMMA NvsSetBlobIInv ==
  ASSUME IInv, NvsSetBlob
  PROVE  IInv'
<1> USE TaskFacts, ConfigFacts DEF memory, lock, timers, nvs, Goto
<1>1. TypeOK'
  BY DEF IInv, TypeOK, Labels, NvsSetBlob
<1>2. ControlInv'
  BY DEF IInv, TypeOK, ControlInv, LockInv, Labels, CopyLabels, NvsSetBlob
<1>3. LockInv'
  BY DEF IInv, TypeOK, ControlInv, LockInv, CopyLabels, NvsSetBlob
<1>4. RamInv'
  BY DEF IInv, TypeOK, ControlInv, LockInv, RamInv, CopyInv, Storing,
         NvsSetBlob
<1>5. CopyInv'
  BY DEF IInv, TypeOK, ControlInv, LockInv, RamInv, CopyInv, Storing,
         CopyLabels, NvsSetBlob
<1>6. FlashIsCurrent'
  BY DEF IInv, TypeOK, ControlInv, RamInv, CopyInv, FlashIsCurrent, Storing,
         NvsSetBlob
<1>7. ApplyInv'
  BY DEF IInv, TypeOK, ControlInv, LockInv, RamInv, CopyInv, ApplyInv,
         Changing, Matches, Storing, NvsSetBlob
<1> QED
  BY <1>1, <1>2, <1>3, <1>4, <1>5, <1>6, <1>7 DEF IInv

LEMMA NvsCommitIInv ==
  ASSUME IInv, NvsCommit
  PROVE  IInv'
<1> USE TaskFacts, ConfigFacts DEF memory, lock, timers, nvs, Goto
<1>1. TypeOK'
  BY DEF IInv, TypeOK, Labels, NvsCommit
<1>2. ControlInv'
  BY DEF IInv, TypeOK, ControlInv, LockInv, Labels, CopyLabels, NvsCommit
<1>3. LockInv'
  BY DEF IInv, TypeOK, ControlInv, LockInv, CopyLabels, NvsCommit
<1>4. RamInv'
  BY DEF IInv, TypeOK, ControlInv, LockInv, RamInv, CopyInv, Storing,
         NvsCommit
<1>5. CopyInv'
  BY DEF IInv, TypeOK, ControlInv, LockInv, RamInv, CopyInv, Storing,
         CopyLabels, NvsCommit
<1>6. FlashIsCurrent'
  BY DEF IInv, TypeOK, ControlInv, RamInv, CopyInv, FlashIsCurrent, Storing,
         NvsCommit
<1>7. ApplyInv'
  BY DEF IInv, TypeOK, ControlInv, LockInv, RamInv, CopyInv, ApplyInv,
         Changing, Matches, Storing, NvsCommit
<1> QED
  BY <1>1, <1>2, <1>3, <1>4, <1>5, <1>6, <1>7 DEF IInv

LEMMA ReplyIInv ==
  ASSUME IInv, Reply
  PROVE  IInv'
<1> USE TaskFacts, ConfigFacts DEF memory, lock, timers, nvs, Goto
<1>1. TypeOK'
  BY DEF IInv, TypeOK, Labels, Reply, EndRequest
<1>2. ControlInv'
  BY DEF IInv, TypeOK, ControlInv, LockInv, Labels, CopyLabels, Reply,
         EndRequest
<1>3. LockInv'
  BY DEF IInv, TypeOK, ControlInv, LockInv, CopyLabels, Reply, EndRequest
<1>4. RamInv'
  BY DEF IInv, TypeOK, ControlInv, LockInv, RamInv, CopyInv, Storing, Reply,
         EndRequest
<1>5. CopyInv'
  BY DEF IInv, TypeOK, ControlInv, LockInv, RamInv, CopyInv, Storing,
         CopyLabels, Reply, EndRequest
<1>6. FlashIsCurrent'
  BY DEF IInv, TypeOK, ControlInv, RamInv, CopyInv, FlashIsCurrent, Storing,
         Reply, EndRequest
<1>7. ApplyInv'
  BY DEF IInv, TypeOK, ControlInv, LockInv, RamInv, CopyInv, ApplyInv,
         Changing, Matches, Storing, Reply, EndRequest
<1> QED
  BY <1>1, <1>2, <1>3, <1>4, <1>5, <1>6, <1>7 DEF IInv

LEMMA ApplyTimerIInv ==
  ASSUME IInv, ApplyTimer
  PROVE  IInv'
<1> USE TaskFacts, ConfigFacts DEF memory, lock, timers, nvs, Goto
<1>1. TypeOK'
  BY DEF IInv, TypeOK, Labels, ApplyTimer
<1>2. ControlInv'
  BY DEF IInv, TypeOK, ControlInv, LockInv, Labels, CopyLabels, ApplyTimer
<1>3. LockInv'
  BY DEF IInv, TypeOK, ControlInv, LockInv, CopyLabels, ApplyTimer
<1>4. RamInv'
  BY DEF IInv, TypeOK, ControlInv, LockInv, RamInv, CopyInv, Storing,
         ApplyTimer
<1>5. CopyInv'
  BY DEF IInv, TypeOK, ControlInv, LockInv, RamInv, CopyInv, Storing,
         CopyLabels, ApplyTimer
<1>6. FlashIsCurrent'
  BY DEF IInv, TypeOK, ControlInv, RamInv, CopyInv, FlashIsCurrent, Storing,
         ApplyTimer
<1>7. ApplyInv'
  BY DEF IInv, TypeOK, ControlInv, LockInv, RamInv, CopyInv, ApplyInv,
         Changing, Matches, Storing, ApplyTimer
<1> QED
  BY <1>1, <1>2, <1>3, <1>4, <1>5, <1>6, <1>7 DEF IInv

LEMMA ApplyDhcpIInv ==
  ASSUME IInv, ApplyDhcp
  PROVE  IInv'
<1> USE TaskFacts, ConfigFacts DEF memory, lock, timers, nvs, Goto
<1>1. TypeOK'
  <2>1. ram.use_dhcp \in BOOLEAN
    BY DEF IInv, TypeOK, Config
  <2>2. iface' \in [use_dhcp : BOOLEAN, ip : Addrs]
    BY <2>1, ConstantsAssumption DEF IInv, TypeOK, ApplyDhcp
  <2>3. pc' \in [Tasks -> Labels]
    BY DEF IInv, TypeOK, Labels, ApplyDhcp
  <2> QED
    BY <2>2, <2>3 DEF IInv, TypeOK, ApplyDhcp
<1>2. ControlInv'
  BY DEF IInv, TypeOK, ControlInv, LockInv, Labels, CopyLabels, ApplyDhcp,
         Config
<1>3. LockInv'
  BY DEF IInv, TypeOK, ControlInv, LockInv, CopyLabels, ApplyDhcp, Config
<1>4. RamInv'
  BY DEF IInv, TypeOK, ControlInv, LockInv, RamInv, CopyInv, Storing,
         ApplyDhcp, Config
<1>5. CopyInv'
  BY DEF IInv, TypeOK, ControlInv, LockInv, RamInv, CopyInv, Storing,
         CopyLabels, ApplyDhcp, Config
<1>6. FlashIsCurrent'
  BY DEF IInv, TypeOK, ControlInv, RamInv, CopyInv, FlashIsCurrent, Storing,
         ApplyDhcp, Config
<1>7. ApplyInv'
  <2>1. pc'["httpd"] = pc["httpd"] /\ UNCHANGED <<up, ram, local, req, timers>>
    BY DEF IInv, TypeOK, ApplyDhcp
  <2>2. CASE ram.use_dhcp
    <3>1. pc'["timer"] = "idle" /\ iface'.use_dhcp = ram.use_dhcp
      BY <2>2 DEF IInv, TypeOK, Config, ApplyDhcp
    <3> QED
      BY <2>1, <2>2, <3>1 DEF IInv, ApplyInv, Changing, Matches
  <2>3. CASE ~ram.use_dhcp
    <3>1. pc'["timer"] = "address" /\ ~iface'.use_dhcp
      BY <2>3 DEF IInv, TypeOK, ApplyDhcp
    <3> QED
      BY <2>1, <2>3, <3>1 DEF IInv, ApplyInv, Changing, Matches
  <2> QED
    BY <2>2, <2>3
<1> QED
  BY <1>1, <1>2, <1>3, <1>4, <1>5, <1>6, <1>7 DEF IInv

LEMMA ApplyAddressIInv ==
  ASSUME IInv, ApplyAddress
  PROVE  IInv'
<1> USE TaskFacts, ConfigFacts DEF memory, lock, timers, nvs, Goto
<1>1. TypeOK'
  BY DEF IInv, TypeOK, Labels, ApplyAddress, Config
<1>2. ControlInv'
  BY DEF IInv, TypeOK, ControlInv, LockInv, Labels, CopyLabels, ApplyAddress,
         Config
<1>3. LockInv'
  BY DEF IInv, TypeOK, ControlInv, LockInv, CopyLabels, ApplyAddress, Config
<1>4. RamInv'
  BY DEF IInv, TypeOK, ControlInv, LockInv, RamInv, CopyInv, Storing,
         ApplyAddress, Config
<1>5. CopyInv'
  BY DEF IInv, TypeOK, ControlInv, LockInv, RamInv, CopyInv, Storing,
         CopyLabels, ApplyAddress, Config
<1>6. FlashIsCurrent'
  BY DEF IInv, TypeOK, ControlInv, RamInv, CopyInv, FlashIsCurrent, Storing,
         ApplyAddress, Config
<1>7. ApplyInv'
  BY DEF IInv, TypeOK, ControlInv, LockInv, RamInv, CopyInv, ApplyInv,
         Changing, Matches, Storing, ApplyAddress, Config
<1> QED
  BY <1>1, <1>2, <1>3, <1>4, <1>5, <1>6, <1>7 DEF IInv

LEMMA StartReadIInv ==
  ASSUME NEW t \in Readers \cup {"timer"}, IInv, StartRead(t)
  PROVE  IInv'
<1> USE TaskFacts, ConfigFacts DEF memory, lock, timers, nvs, Goto
<1>1. TypeOK'
  BY DEF IInv, TypeOK, Labels, StartRead
<1>2. ControlInv'
  BY DEF IInv, TypeOK, ControlInv, LockInv, Labels, CopyLabels, StartRead
<1>3. LockInv'
  BY DEF IInv, TypeOK, ControlInv, LockInv, CopyLabels, StartRead
<1>4. RamInv'
  BY DEF IInv, TypeOK, ControlInv, LockInv, RamInv, CopyInv, Storing,
         StartRead
<1>5. CopyInv'
  BY DEF IInv, TypeOK, ControlInv, LockInv, RamInv, CopyInv, Storing,
         CopyLabels, StartRead
<1>6. FlashIsCurrent'
  BY DEF IInv, TypeOK, ControlInv, RamInv, CopyInv, FlashIsCurrent, Storing,
         StartRead
<1>7. ApplyInv'
  BY DEF IInv, TypeOK, ControlInv, LockInv, RamInv, CopyInv, ApplyInv,
         Changing, Matches, Storing, StartRead
<1> QED
  BY <1>1, <1>2, <1>3, <1>4, <1>5, <1>6, <1>7 DEF IInv

LEMMA EndReadIInv ==
  ASSUME NEW t \in Readers \cup {"timer"}, IInv, EndRead(t)
  PROVE  IInv'
<1> USE TaskFacts, ConfigFacts DEF memory, lock, timers, nvs, Goto
<1>1. TypeOK'
  BY DEF IInv, TypeOK, Labels, EndRead
<1>2. ControlInv'
  BY DEF IInv, TypeOK, ControlInv, LockInv, Labels, CopyLabels, EndRead
<1>3. LockInv'
  BY DEF IInv, TypeOK, ControlInv, LockInv, CopyLabels, EndRead
<1>4. RamInv'
  BY DEF IInv, TypeOK, ControlInv, LockInv, RamInv, CopyInv, Storing, EndRead
<1>5. CopyInv'
  BY DEF IInv, TypeOK, ControlInv, LockInv, RamInv, CopyInv, Storing,
         CopyLabels, EndRead
<1>6. FlashIsCurrent'
  BY DEF IInv, TypeOK, ControlInv, RamInv, CopyInv, FlashIsCurrent, Storing,
         EndRead
<1>7. ApplyInv'
  BY DEF IInv, TypeOK, ControlInv, LockInv, RamInv, CopyInv, ApplyInv,
         Changing, Matches, Storing, EndRead
<1> QED
  BY <1>1, <1>2, <1>3, <1>4, <1>5, <1>6, <1>7 DEF IInv

LEMMA GoDownIInv ==
  ASSUME IInv, GoDown
  PROVE  IInv'
<1> USE TaskFacts, ConfigFacts
<1>1. TypeOK'
  <2>1. iface' \in [use_dhcp : BOOLEAN, ip : Addrs]
    BY ConstantsAssumption DEF GoDown
  <2>2. flash' \in Config \cup {NoBlob} /\ staged' \in Config \cup {NoBlob}
    BY DEF GoDown, IInv, TypeOK
  <2> QED
    BY <2>1, <2>2 DEF IInv, TypeOK, Labels, GoDown
<1>2. \A t \in Tasks : pc'[t] = "idle" /\ todo'[t] = {}
  BY DEF GoDown
<1>3. Readers \subseteq Tasks
  BY DEF Tasks
<1>4. (ControlInv /\ LockInv /\ RamInv /\ CopyInv /\ FlashIsCurrent /\ ApplyInv)'
  BY <1>2, <1>3 DEF GoDown, ControlInv, LockInv, RamInv, CopyInv, FlashIsCurrent, ApplyInv,
         Storing, Labels
<1> QED
  BY <1>1, <1>4 DEF IInv

THEOREM InitIInv == Init => IInv
<1> SUFFICES ASSUME Init PROVE IInv
  OBVIOUS
<1> USE TaskFacts, ConfigFacts
<1>1. TypeOK
  BY ConstantsAssumption DEF TypeOK, Labels, Init
<1>2. \A t \in Tasks : pc[t] = "idle" /\ todo[t] = {}
  BY DEF Init
<1>3. Readers \subseteq Tasks
  BY DEF Tasks
<1>4. ControlInv /\ LockInv /\ RamInv /\ CopyInv /\ FlashIsCurrent /\ ApplyInv
  BY <1>2, <1>3 DEF Init, ControlInv, LockInv, RamInv, CopyInv, FlashIsCurrent, ApplyInv,
         Storing, Labels
<1> QED
  BY <1>1, <1>4 DEF IInv

THEOREM StepIInv == IInv /\ [Next]_vars => IInv'
<1> SUFFICES ASSUME IInv, [Next]_vars PROVE IInv'
  OBVIOUS
<1>1. CASE UNCHANGED vars
  BY <1>1 DEF IInv, vars, TypeOK, ControlInv, LockInv, RamInv, CopyInv,
              FlashIsCurrent, ApplyInv, Storing, Changing, Matches
<1>2. CASE Boot \/ PowerLoss \/ RestartTimer
  BY <1>2, BootIInv, GoDownIInv DEF PowerLoss, RestartTimer
<1>3. ASSUME NEW t \in Tasks, Copy(t) PROVE IInv'
  BY <1>3, TakeSemIInv, CopyFieldIInv, GiveSemIInv DEF Copy
<1>4. ASSUME NEW kind \in {"config", "pass", "hardreset"}, Request(kind) PROVE IInv'
  BY <1>4, RequestIInv
<1>5. CASE SoftReset
  BY <1>5, SoftResetIInv
<1>6. CASE HttpdStep
  <2>1. CASE Reject \/ Reply
    BY <2>1, RejectIInv, ReplyIInv
  <2>2. ASSUME NEW dhcp \in BOOLEAN, NEW addr \in Addrs, AcceptConfig(dhcp, addr)
        PROVE  IInv'
    BY <2>2, AcceptConfigIInv
  <2>3. ASSUME NEW password \in Passwords \ {NoPassword}, AcceptPass(password)
        PROVE  IInv'
    BY <2>3, AcceptPassIInv
  <2>4. CASE NvsOpen \/ NvsSetBlob \/ NvsCommit
    BY <2>4, NvsOpenIInv, NvsSetBlobIInv, NvsCommitIInv
  <2>5. ASSUME NEW label \in {"open", "store", "commit"}, NvsError(label)
        PROVE  IInv'
    BY <2>5, NvsErrorIInv
  <2> QED
    BY <1>6, <2>1, <2>2, <2>3, <2>4, <2>5 DEF HttpdStep, Save
<1>7. CASE Apply
  BY <1>7, ApplyTimerIInv, ApplyDhcpIInv, ApplyAddressIInv DEF Apply
<1>8. ASSUME NEW t \in Readers \cup {"timer"}, StartRead(t) \/ EndRead(t) PROVE IInv'
  BY <1>8, StartReadIInv, EndReadIInv
<1> QED
  BY <1>1, <1>2, <1>3, <1>4, <1>5, <1>6, <1>7, <1>8 DEF Next

THEOREM Invariance == Spec => []IInv
BY InitIInv, StepIInv, PTL DEF Spec

-----------------------------------------------------------------------------
\* Every variable keeps its type; in particular what nvs_get_blob did not find
\* never gets into ram.
THEOREM TypeCorrect == Spec => []TypeOK
<1>1. IInv => TypeOK
  BY DEF IInv
<1> QED
  BY Invariance, <1>1, PTL

\* The semaphore makes the struct assignments of config.c atomic: whoever
\* finished a copy has a configuration that was stored whole.
THEOREM CopiesAreWhole == Spec => []CopyIsWhole
<1>1. ASSUME IInv PROVE CopyIsWhole
  <2> SUFFICES ASSUME NEW t \in Tasks, sem = t, pc[t] \in {"get", "blob"}, todo[t] = {}
               PROVE  local[t] = stored
    BY DEF CopyIsWhole
  <2>1. local[t] = ram
    <3>1. \A f \in Fields : local[t][f] = ram[f]
      BY <1>1 DEF IInv, CopyInv
    <3> QED
      BY <1>1, <3>1, ConfigFacts DEF IInv, TypeOK
  <2>2. ram = stored
    BY <1>1, TaskFacts DEF IInv, ControlInv, RamInv, Storing
  <2> QED
    BY <2>1, <2>2
<1> QED
  BY Invariance, <1>1, PTL

\* No accepted request is lost or undone by another one.
THEOREM NoLostUpdate == Spec => []RequestsAddUp
<1>1. IInv => RequestsAddUp
  BY DEF IInv, RamInv, RequestsAddUp
<1> QED
  BY Invariance, <1>1, PTL

\* A save that reported no error left the requested configuration in flash,
\* whatever failed before it.
THEOREM SavesAreCurrent == Spec => []FlashIsCurrent
<1>1. IInv => FlashIsCurrent
  BY DEF IInv
<1> QED
  BY Invariance, <1>1, PTL

\* Reading config without the semaphore does no lasting harm: once no timer
\* and no request is pending, the interface is as configured.
THEOREM InterfaceIsConfigured == Spec => []InterfaceFollowsConfig
<1>1. IInv => InterfaceFollowsConfig
  BY DEF IInv, ControlInv, ApplyInv, InterfaceFollowsConfig, Changing
<1> QED
  BY Invariance, <1>1, PTL

\* httpd never waits for a body, for NVS or for a timer with configSemaphore in
\* its hands, nor does anybody else: the holder is copying, and no other task
\* is in the middle of a copy.
HolderCopies ==
  sem # NoTask => /\ up /\ sem \in Tasks /\ pc[sem] \in CopyLabels
                  /\ \A t \in Tasks : t # sem => todo[t] = {}

\* Whoever holds configSemaphore is between taking it and giving it back in one
\* call of config.c, and has nothing to wait for.
THEOREM HolderNeverWaits == Spec => []HolderCopies
<1>1. IInv => HolderCopies
  BY DEF IInv, TypeOK, ControlInv, LockInv, HolderCopies
<1> QED
  BY Invariance, <1>1, PTL

-----------------------------------------------------------------------------
(* The store implements DurableConfig: the moment a handler gives the      *)
(* semaphore back is the moment its edit happens.                          *)

\* What httpd is about to write back differs from the configuration in force
\* in the fields of the request only; pass.cgi changes a password that is set.
EditInv ==
  pc["httpd"] = "set" =>
    /\ req = "config" => local["httpd"].password = stored.password
    /\ req = "pass" => /\ local["httpd"].use_dhcp = stored.use_dhcp
                       /\ local["httpd"].ip = stored.ip
                       /\ stored.password # NoPassword
                       /\ local["httpd"].password # NoPassword

\* httpd is not at "set" before it has accepted a request.
LEMMA EditStays ==
  ASSUME EditInv,
         pc'["httpd"] = "set" => /\ pc["httpd"] = "set"
                                 /\ req' = req /\ stored' = stored
                                 /\ local'["httpd"] = local["httpd"]
  PROVE  EditInv'
BY DEF EditInv

\* A request that waits for its body has a copy of the configuration in force.
LEMMA CopyInForce ==
  ASSUME IInv, pc["httpd"] = "edit"
  PROVE  local["httpd"] = stored /\ stored \in Config /\ local["httpd"] \in Config
BY TaskFacts DEF IInv, TypeOK, ControlInv, RamInv, CopyInv, Storing

LEMMA EditNext ==
  ASSUME IInv, EditInv, [Next]_vars
  PROVE  EditInv'
<1> USE TaskFacts DEF memory, lock, timers, nvs, Goto
<1>1. CASE UNCHANGED vars
  BY <1>1, EditStays DEF vars
<1>2. CASE Boot \/ PowerLoss \/ RestartTimer
  <2>1. pc'["httpd"] # "set"
    BY <1>2 DEF Boot, PowerLoss, RestartTimer, GoDown, IInv, ControlInv
  <2> QED
    BY <2>1, EditStays
<1>3. ASSUME NEW t \in Tasks, Copy(t) PROVE EditInv'
  <2>1. CASE TakeSem(t)
    BY <2>1, EditStays DEF TakeSem
  <2>2. CASE CopyField(t)
    <3>1. pc["httpd"] = "set" => local'["httpd"] = local["httpd"]
      BY <2>2 DEF CopyField, IInv, TypeOK
    <3> QED
      BY <2>2, <3>1, EditStays DEF CopyField
  <2>3. CASE GiveSem(t)
    <3>1. CASE t = "httpd"
      <4>1. pc'["httpd"] # "set"
        BY <2>3, <3>1 DEF GiveSem, After, IInv, TypeOK
      <4> QED
        BY <4>1, EditStays
    <3>2. CASE t # "httpd"
      <4>1. stored' = stored
        BY <2>3, <3>2 DEF GiveSem, IInv, ControlInv
      <4>2. pc'["httpd"] = pc["httpd"]
        BY <2>3, <3>2 DEF GiveSem, IInv, TypeOK
      <4> QED
        BY <2>3, <4>1, <4>2, EditStays DEF GiveSem
    <3> QED
      BY <3>1, <3>2
  <2> QED
    BY <1>3, <2>1, <2>2, <2>3 DEF Copy
<1>4. ASSUME NEW kind \in {"config", "pass", "hardreset"}, Request(kind) PROVE EditInv'
  <2>1. pc'["httpd"] # "set"
    BY <1>4 DEF Request, IInv, TypeOK
  <2> QED
    BY <2>1, EditStays
<1>5. CASE SoftReset
  BY <1>5, EditStays DEF SoftReset
<1>6. ASSUME NEW dhcp \in BOOLEAN, NEW addr \in Addrs, AcceptConfig(dhcp, addr)
      PROVE  EditInv'
  <2>1. local'["httpd"].password = stored.password
    BY <1>6, CopyInForce DEF AcceptConfig, IInv, TypeOK, Config
  <2>2. req' = "config" /\ stored' = stored
    BY <1>6 DEF AcceptConfig
  <2> QED
    BY <2>1, <2>2 DEF EditInv
<1>7. ASSUME NEW password \in Passwords \ {NoPassword}, AcceptPass(password)
      PROVE  EditInv'
  <2>1. /\ local'["httpd"].use_dhcp = stored.use_dhcp
        /\ local'["httpd"].ip = stored.ip
        /\ local'["httpd"].password = password
        /\ stored.password # NoPassword
    BY <1>7, CopyInForce DEF AcceptPass, IInv, TypeOK, Config
  <2>2. req' = "pass" /\ stored' = stored
    BY <1>7 DEF AcceptPass
  <2> QED
    BY <2>1, <2>2 DEF EditInv
<1>8. CASE Reject \/ Reply \/ NvsOpen \/ NvsSetBlob \/ NvsCommit
  <2>1. pc'["httpd"] # "set"
    BY <1>8 DEF Reject, Reply, EndRequest, NvsOpen, NvsSetBlob, NvsCommit, IInv, TypeOK
  <2> QED
    BY <2>1, EditStays
<1>9. ASSUME NEW label \in {"open", "store", "commit"}, NvsError(label) PROVE EditInv'
  <2>1. pc'["httpd"] # "set"
    BY <1>9 DEF NvsError, IInv, TypeOK
  <2> QED
    BY <2>1, EditStays
<1>10. CASE Apply
  <2>1. pc'["httpd"] = pc["httpd"] /\ UNCHANGED <<req, stored, local>>
    BY <1>10 DEF Apply, ApplyTimer, ApplyDhcp, ApplyAddress, IInv, TypeOK
  <2> QED
    BY <2>1, EditStays
<1>11. ASSUME NEW t \in Readers \cup {"timer"}, StartRead(t) \/ EndRead(t) PROVE EditInv'
  <2>1. t # "httpd"
    OBVIOUS
  <2>2. pc'["httpd"] = pc["httpd"] /\ local'["httpd"] = local["httpd"]
    BY <1>11, <2>1 DEF StartRead, EndRead, IInv, TypeOK
  <2> QED
    BY <1>11, <2>2, EditStays DEF StartRead, EndRead
<1> QED
  BY <1>1, <1>2, <1>3, <1>4, <1>5, <1>6, <1>7, <1>8, <1>9, <1>10, <1>11
     DEF Next, HttpdStep, Save, Apply

\* Steps that the abstract configuration does not see.
LEMMA Unseen ==
  ASSUME UNCHANGED <<up, stored, staged, flash>>
  PROVE  [Durable!Next]_(Durable!dvars)
BY DEF Durable!dvars

\* Only a running board has a request to serve.
LEMMA ServingIsUp ==
  ASSUME IInv, pc["httpd"] # "idle"
  PROVE  up
BY TaskFacts DEF IInv, ControlInv

\* The end of config_set_new and config_load_defaults: the edit happens.
LEMMA StoreEdits ==
  ASSUME IInv, EditInv, GiveSem("httpd"), Storing
  PROVE  Durable!Next
<1> USE TaskFacts, ConfigFacts DEF memory, lock, timers, nvs
<1>1. /\ up /\ UNCHANGED <<up, staged, flash>>
      /\ sem = "httpd" /\ todo["httpd"] = {}
      /\ stored' = ram
  BY ServingIsUp DEF GiveSem, Storing
<1>2. ram = intended
  BY <1>1 DEF IInv, TypeOK, RamInv
<1>3. CASE pc["httpd"] = "defaults"
  <2>1. stored' = DefaultConfig
    BY <1>1, <1>2, <1>3 DEF IInv, RamInv
  <2>2. Durable!RestoreDefaults
    BY <1>1, <2>1 DEF Durable!RestoreDefaults
  <2> QED
    BY <2>2 DEF Durable!Next
<1>4. CASE pc["httpd"] = "set"
  <2> DEFINE new == local["httpd"]
  <2>1. stored' = new /\ new \in Config /\ stored \in Config
    BY <1>1, <1>2, <1>4 DEF IInv, TypeOK, RamInv
  <2>2. req \in {"config", "pass"}
    BY <1>4 DEF IInv, ControlInv
  <2>3. CASE req = "config"
    <3>1. new.password = stored.password
      BY <1>4, <2>3 DEF EditInv
    <3>2. new = [stored EXCEPT !.use_dhcp = new.use_dhcp, !.ip = new.ip]
      BY <2>1, <3>1 DEF Config
    <3>3. Durable!EditAddress(new.use_dhcp, new.ip)
      BY <1>1, <2>1, <3>2 DEF Durable!EditAddress
    <3>4. new.use_dhcp \in BOOLEAN /\ new.ip \in Addrs
      BY <2>1 DEF Config
    <3> QED
      BY <3>3, <3>4 DEF Durable!Next
  <2>4. CASE req = "pass"
    <3>1. /\ new.use_dhcp = stored.use_dhcp /\ new.ip = stored.ip
          /\ stored.password # NoPassword /\ new.password # NoPassword
      BY <1>4, <2>4 DEF EditInv
    <3>2. new = [stored EXCEPT !.password = new.password]
      BY <2>1, <3>1 DEF Config
    <3>3. Durable!EditPassword(new.password)
      BY <1>1, <2>1, <3>1, <3>2 DEF Durable!EditPassword
    <3>4. new.password \in Passwords \ {NoPassword}
      BY <2>1, <3>1 DEF Config
    <3> QED
      BY <3>3, <3>4 DEF Durable!Next
  <2> QED
    BY <2>2, <2>3, <2>4
<1> QED
  BY <1>3, <1>4 DEF Storing

\* What NVS is handed, and what it commits, is the configuration in force.
LEMMA SavesInForce ==
  ASSUME IInv
  PROVE  /\ NvsSetBlob => Durable!SetBlob
         /\ NvsCommit => Durable!Commit
<1>1. pc["httpd"] \in {"store", "commit"} => up /\ stored = ram
  BY ServingIsUp DEF IInv, RamInv, Storing
<1>2. NvsSetBlob => Durable!SetBlob
  BY <1>1 DEF IInv, CopyInv, NvsSetBlob, Durable!SetBlob, memory
<1>3. NvsCommit => Durable!Commit
  BY <1>1 DEF IInv, CopyInv, NvsCommit, Durable!Commit, memory
<1> QED
  BY <1>2, <1>3

LEMMA StepImplements ==
  ASSUME IInv, EditInv, [Next]_vars
  PROVE  [Durable!Next]_(Durable!dvars)
<1> USE TaskFacts DEF memory, lock, timers, nvs
<1>1. CASE UNCHANGED vars
  BY <1>1, Unseen DEF vars
<1>2. CASE Boot
  <2>1. Durable!Boot
    BY <1>2 DEF Boot, Durable!Boot
  <2> QED
    BY <2>1 DEF Durable!Next
<1>3. CASE PowerLoss \/ RestartTimer
  <2>1. Durable!GoDown
    BY <1>3 DEF PowerLoss, RestartTimer, GoDown, Durable!GoDown
  <2> QED
    BY <2>1 DEF Durable!Next
<1>4. ASSUME NEW t \in Tasks, Copy(t) PROVE [Durable!Next]_(Durable!dvars)
  <2>1. CASE TakeSem(t)
    BY <2>1, Unseen DEF TakeSem
  <2>2. CASE CopyField(t)
    BY <2>2, Unseen DEF CopyField
  <2>3. CASE GiveSem(t) /\ pc[t] \in {"set", "defaults"}
    <3>1. t = "httpd"
      BY <2>3 DEF IInv, ControlInv
    <3> QED
      BY <2>3, <3>1, StoreEdits DEF Storing
  <2>4. CASE GiveSem(t) /\ pc[t] \notin {"set", "defaults"}
    BY <2>4, Unseen DEF GiveSem
  <2> QED
    BY <1>4, <2>1, <2>2, <2>3, <2>4 DEF Copy
<1>5. CASE NvsSetBlob \/ NvsCommit
  BY <1>5, SavesInForce DEF Durable!Next
<1>6. CASE SoftReset \/ Reject \/ Reply \/ NvsOpen \/ Apply
  BY <1>6, Unseen DEF SoftReset, Reject, Reply, NvsOpen, Apply, ApplyTimer, ApplyDhcp, ApplyAddress
<1>7. ASSUME NEW kind \in {"config", "pass", "hardreset"}, Request(kind)
      PROVE  [Durable!Next]_(Durable!dvars)
  BY <1>7, Unseen DEF Request
<1>8. ASSUME NEW dhcp \in BOOLEAN, NEW addr \in Addrs, AcceptConfig(dhcp, addr)
      PROVE  [Durable!Next]_(Durable!dvars)
  BY <1>8, Unseen DEF AcceptConfig
<1>9. ASSUME NEW password \in Passwords \ {NoPassword}, AcceptPass(password)
      PROVE  [Durable!Next]_(Durable!dvars)
  BY <1>9, Unseen DEF AcceptPass
<1>10. ASSUME NEW label \in {"open", "store", "commit"}, NvsError(label)
       PROVE  [Durable!Next]_(Durable!dvars)
  BY <1>10, Unseen DEF NvsError
<1>11. ASSUME NEW t \in Readers \cup {"timer"}, StartRead(t) \/ EndRead(t)
       PROVE  [Durable!Next]_(Durable!dvars)
  BY <1>11, Unseen DEF StartRead, EndRead
<1> QED
  BY <1>1, <1>2, <1>3, <1>4, <1>5, <1>6, <1>7, <1>8, <1>9, <1>10, <1>11
     DEF Next, HttpdStep, Save

\* Field by field copies, a body that is waited for and a save that may fail
\* add up to a configuration that requests edit at once, and flash is only ever
\* given the configuration in force.
THEOREM StoreIsDurable == Spec => ImplementsDurable
<1>1. Init => EditInv
  BY TaskFacts DEF Init, EditInv
<1>2. Init => Durable!Init
  BY DEF Init, Durable!Init
<1>3. IInv /\ EditInv /\ [Next]_vars => EditInv'
  BY EditNext
<1>4. IInv /\ EditInv /\ [Next]_vars => [Durable!Next]_(Durable!dvars)
  BY StepImplements
<1> QED
  BY Invariance, <1>1, <1>2, <1>3, <1>4, PTL DEF Spec, ImplementsDurable, Durable!Spec
=============================================================================
