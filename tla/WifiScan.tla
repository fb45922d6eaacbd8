------------------------------ MODULE WifiScan ------------------------------
(***************************************************************************)
(* The scan for access points (wificgi.c): wifiscan.cgi, served by httpd,  *)
(* answers with the list of the last scan and arms scan_timer; the timer   *)
(* task drops the list and starts a scan; the event task fetches the list  *)
(* when the radio is done.  ap_info, ap_count and scanInProgress are       *)
(* shared by the three tasks without a lock.                               *)
(*                                                                         *)
(* overlapped, refused and nomem are history variables; no guard looks at  *)
(* them.                                                                   *)
(***************************************************************************)
EXTENDS Naturals

CONSTANTS
  Blocks,           \* heap blocks that malloc may return
  NULL,
  MaxAps            \* bound: access points a scan finds

ASSUME ConstantsAssumption ==
  /\ NULL \notin Blocks
  /\ MaxAps \in Nat

VARIABLES
  scanInProgress, ap_count, ap_info,
  live,      \* blocks that are allocated
  block,     \* of each block: records it has room for, and whether they are there
  armed,     \* scan_timer
  radio,     \* "idle" or "scanning"
  done,      \* WIFI_EVENT_SCAN_DONE waits in the event queue
  found,     \* access points of the scan that is done
  timer, event, httpd,  \* what each task is doing
  i,         \* index of the loop of constructAPsJSON
  overlapped,   \* since scan_timer_func was last called it or the event handler
                \* was interrupted, or an event waited while a timer was served
  refused,   \* the last esp_wifi_scan_start refused an idle radio
  nomem      \* the last malloc returned NULL

shared == <<scanInProgress, ap_count, ap_info>>
heap == <<live, block, nomem>>
driver == <<radio, done, found, refused>>
tasks == <<timer, event, httpd, i>>
vars == <<shared, heap, armed, driver, tasks, overlapped>>

Empty == [room |-> 0, filled |-> FALSE]

Init ==
  /\ scanInProgress = 0
  /\ ap_count = 0
  /\ ap_info = NULL
  /\ live = {}
  /\ block = [b \in Blocks |-> Empty]
  /\ armed = FALSE
  /\ radio = "idle"
  /\ done = FALSE
  /\ found = 0
  /\ timer = "idle" /\ event = "idle" /\ httpd = "idle"
  /\ i = 0
  /\ overlapped = FALSE /\ refused = FALSE /\ nomem = FALSE

\* Who goes on while nobody else is inside a callback.  A scan that is begun
\* by scan_timer_func starts a new account.
Note(calm) == overlapped' = (overlapped \/ ~calm)
NoEvent == event = "idle" /\ ~done
TimerTurn == Note(NoEvent)
EventTurn == Note(timer = "idle")
OthersTurn == Note(timer = "idle" /\ event = "idle")

-----------------------------------------------------------------------------
(* scan_timer_func *)

ScanTimer ==
  /\ overlapped' = ~NoEvent
  /\ timer = "idle" /\ armed
  /\ armed' = FALSE
  /\ timer' = IF ap_info # NULL THEN "free" ELSE "start"
  /\ UNCHANGED <<shared, heap, driver, event, httpd, i>>

\* Faulty variant: the pointer is kept after free.
FreeListKeepPointer ==
  /\ TimerTurn
  /\ timer = "free"
  /\ live' = live \ {ap_info}
  /\ block' = [b \in Blocks |-> IF b = ap_info THEN Empty ELSE block[b]]
  /\ timer' = "start"
  /\ UNCHANGED <<shared, nomem, armed, driver, event, httpd, i>>

\* Faulty variant: the list is dropped without free.
FreeListForgotten ==
  /\ TimerTurn
  /\ timer = "free"
  /\ timer' = "clear"
  /\ UNCHANGED <<shared, heap, armed, driver, event, httpd, i>>

FreeList ==
  /\ TimerTurn
  /\ timer = "free"
  /\ live' = live \ {ap_info}
  /\ block' = [b \in Blocks |-> IF b = ap_info THEN Empty ELSE block[b]]
  /\ timer' = "clear"
  /\ UNCHANGED <<shared, nomem, armed, driver, event, httpd, i>>

ClearPointer ==
  /\ TimerTurn
  /\ timer = "clear"
  /\ ap_info' = NULL
  /\ timer' = "start"
  /\ UNCHANGED <<scanInProgress, ap_count, heap, armed, driver, event, httpd, i>>

\* esp_wifi_scan_start, which may refuse also an idle radio (while the station
\* is connecting); nobody looks at what it returns.
StartScan ==
  /\ TimerTurn
  /\ timer = "start"
  /\ \/ radio = "idle" /\ radio' = "scanning"
     \/ radio' = radio
  /\ refused' = (radio' = "idle")
  /\ timer' = "flag"
  /\ UNCHANGED <<shared, heap, armed, done, found, event, httpd, i>>

RaiseFlag ==
  /\ TimerTurn
  /\ timer = "flag"
  /\ scanInProgress' = 1
  /\ timer' = "idle"
  /\ UNCHANGED <<ap_count, ap_info, heap, armed, driver, event, httpd, i>>

-----------------------------------------------------------------------------
(* The radio, and scan_end_event *)

RadioDone ==
  /\ OthersTurn
  /\ radio = "scanning" /\ ~done
  /\ radio' = "idle"
  /\ done' = TRUE
  /\ found' \in 0 .. MaxAps
  /\ UNCHANGED <<shared, heap, armed, refused, tasks>>

\* Faulty variant: the flag is cleared only when there is a list to show.
ScanEndIfFound ==
  /\ EventTurn
  /\ event = "idle" /\ done
  /\ done' = FALSE
  /\ scanInProgress' = IF found > 0 THEN 0 ELSE scanInProgress
  /\ event' = "count"
  /\ UNCHANGED <<ap_count, ap_info, heap, armed, radio, found, refused, timer, httpd, i>>

ScanEnd ==
  /\ EventTurn
  /\ event = "idle" /\ done
  /\ done' = FALSE
  /\ scanInProgress' = 0
  /\ event' = "count"
  /\ UNCHANGED <<ap_count, ap_info, heap, armed, radio, found, refused, timer, httpd, i>>

\* esp_wifi_scan_get_ap_num
CountAps ==
  /\ EventTurn
  /\ event = "count"
  /\ ap_count' = found
  /\ event' = IF found > 0 THEN "alloc" ELSE "idle"
  /\ UNCHANGED <<scanInProgress, ap_info, heap, armed, driver, timer, httpd, i>>

\* Faulty variant: room for one record less.
AllocListShort ==
  /\ EventTurn
  /\ event = "alloc"
  /\ \E b \in Blocks \ live :
       /\ ap_info' = b
       /\ live' = live \cup {b}
       /\ block' = [block EXCEPT ![b] = [room |-> ap_count - 1, filled |-> FALSE]]
       /\ event' = "records" /\ nomem' = FALSE
  /\ UNCHANGED <<scanInProgress, ap_count, armed, driver, timer, httpd, i>>

\* malloc, which may return NULL; ap_count stays as it is then.
AllocList ==
  /\ EventTurn
  /\ event = "alloc"
  /\ \/ \E b \in Blocks \ live :
          /\ ap_info' = b
          /\ live' = live \cup {b}
          /\ block' = [block EXCEPT ![b] = [room |-> ap_count, filled |-> FALSE]]
          /\ event' = "records" /\ nomem' = FALSE
     \/ /\ ap_info' = NULL
        /\ event' = "idle" /\ nomem' = TRUE
        /\ UNCHANGED <<live, block>>
  /\ UNCHANGED <<scanInProgress, ap_count, armed, driver, timer, httpd, i>>

\* esp_wifi_scan_get_ap_records writes through the pointer as it is now, and
\* sets ap_count to the number of records it had.
FetchRecords ==
  /\ EventTurn
  /\ event = "records"
  /\ ap_info \in live
  /\ block' = [block EXCEPT ![ap_info].filled = TRUE]
  /\ ap_count' \in 0 .. ap_count
  /\ event' = "idle"
  /\ UNCHANGED <<scanInProgress, ap_info, live, nomem, armed, driver, timer, httpd, i>>

\* ESP_ERROR_CHECK aborts when one of the two calls fails; writing to NULL, or
\* to a block that the timer task has freed meanwhile, ends no better.
ScanAbort ==
  /\ event \in {"count", "records"}
  /\ scanInProgress' = 0 /\ ap_count' = 0 /\ ap_info' = NULL
  /\ live' = {} /\ block' = [b \in Blocks |-> Empty]
  /\ armed' = FALSE
  /\ radio' = "idle" /\ done' = FALSE /\ found' = 0
  /\ timer' = "idle" /\ event' = "idle" /\ httpd' = "idle" /\ i' = 0
  /\ overlapped' = FALSE /\ refused' = FALSE /\ nomem' = FALSE

-----------------------------------------------------------------------------
(* wifiscan_cgi_get_handler *)

\* constructAPsJSON: no list while a scan runs.
GetList ==
  /\ OthersTurn
  /\ httpd = "idle"
  /\ httpd' = IF scanInProgress = 0 THEN "list" ELSE "send"
  /\ i' = 0
  /\ UNCHANGED <<shared, heap, armed, driver, timer, event>>

ListRecord ==
  /\ OthersTurn
  /\ httpd = "list" /\ i < ap_count
  /\ i' = i + 1
  /\ UNCHANGED <<shared, heap, armed, driver, timer, event, httpd>>

ListEnd ==
  /\ OthersTurn
  /\ httpd = "list" /\ i >= ap_count
  /\ httpd' = "send"
  /\ i' = 0
  /\ UNCHANGED <<shared, heap, armed, driver, timer, event>>

\* The answer is sent; in a station mode the next scan is due unless one runs.
SendList ==
  /\ OthersTurn
  /\ httpd = "send"
  /\ \/ httpd' = "idle"
     \/ scanInProgress = 0 /\ httpd' = "arm"
  /\ UNCHANGED <<shared, heap, armed, driver, timer, event, i>>

ArmScan ==
  /\ OthersTurn
  /\ httpd = "arm"
  /\ armed' = TRUE
  /\ httpd' = "idle"
  /\ UNCHANGED <<shared, heap, driver, timer, event, i>>

-----------------------------------------------------------------------------
TimerStep == ScanTimer \/ FreeList \/ ClearPointer \/ StartScan \/ RaiseFlag
EventStep == ScanEnd \/ CountAps \/ AllocList \/ FetchRecords \/ ScanAbort
HttpdStep == GetList \/ ListRecord \/ ListEnd \/ SendList \/ ArmScan

Next == TimerStep \/ EventStep \/ HttpdStep \/ RadioDone

Spec == Init /\ [][Next]_vars

\* Tasks that are ready run, and the radio ends the scans it starts.  Nobody
\* has to ask for a list.
FairSpec == Spec /\ WF_vars(TimerStep) /\ WF_vars(EventStep) /\ WF_vars(RadioDone)

-----------------------------------------------------------------------------
(* Properties *)

\* The variables keep their types.
TypeOK ==
  /\ scanInProgress \in {0, 1}
  /\ ap_count \in 0 .. MaxAps
  /\ ap_info \in Blocks \cup {NULL}
  /\ live \in SUBSET Blocks
  /\ block \in [Blocks -> [room : 0 .. MaxAps, filled : BOOLEAN]]
  /\ armed \in BOOLEAN
  /\ radio \in {"idle", "scanning"}
  /\ done \in BOOLEAN
  /\ found \in 0 .. MaxAps
  /\ timer \in {"idle", "free", "clear", "start", "flag"}
  /\ event \in {"idle", "count", "alloc", "records"}
  /\ httpd \in {"idle", "list", "send", "arm"}
  /\ i \in 0 .. MaxAps
  /\ overlapped \in BOOLEAN /\ refused \in BOOLEAN /\ nomem \in BOOLEAN

\* scan_timer_func frees only what malloc gave and nobody freed, however the
\* three tasks interleave.
NoDoubleFree == timer = "free" => ap_info \in live \cup {NULL}

\* The only way to lose a list is to interrupt a callback of the scan under
\* way: whatever happened in earlier ones, a scan that is left alone loses none.
NoLeak == [][~overlapped' => live' \ {ap_info'} \subseteq live \ {ap_info}]_vars

ListExists == ap_count > 0 => /\ ap_info \in live
                              /\ block[ap_info].filled
                              /\ block[ap_info].room >= ap_count

\* A scan whose callbacks run to their end repairs what interruptions, refusals
\* and a heap that was full did to the list before: whenever no callback runs
\* and no scan is reported, the list is complete, unless there was no memory
\* for it.
ListWhenQuiet ==
  (~overlapped /\ ~nomem /\ scanInProgress = 0 /\ timer = "idle" /\ event = "idle")
    => ListExists

\* constructAPsJSON lists ap_count records when no scan is in progress, and
\* wifi.html shows them: they are there each time one is read.
ListedRecordsExist ==
  (/\ ~overlapped /\ ~nomem
   /\ httpd = "list" /\ i < ap_count /\ timer = "idle" /\ event = "idle") => ListExists

\* wifi.html asks again every second until inProgress is "0": a scan that is
\* reported as running ends, unless it was refused, or reported after it had
\* ended (which takes an interrupted callback).  What happened to the scans
\* before it does not matter.
ScanEnds == scanInProgress = 1 ~> scanInProgress = 0 \/ refused \/ overlapped
=============================================================================
