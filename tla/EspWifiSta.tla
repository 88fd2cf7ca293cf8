----------------------------- MODULE EspWifiSta -----------------------------
(* The ESP32 station binding: the caller of its C API (the binding has no  *)
(* lock, its owner makes one call at a time), the handler that runs in the *)
(* event loop's task, and event_task, which passes events on to the        *)
(* application from a queue that drops what does not fit.                  *)
EXTENDS WifiRadio

CONSTANTS
    MaxCalls,   \* bound on the calls
    QueueCap,   \* slots of s_event_queue (16 in the code)
    MaxFound    \* most networks a scan finds (16 in the code)

VARIABLES
    boot,     \* next stage of a running init
    own,      \* what init has made: the queue's task, the netif, handlers
    ini,      \* s_wifi_initialized
    started,  \* s_wifi_started
    st,       \* s_wifi_state
    ps,       \* s_power_save_type
    pc,       \* where the caller is
    calls,    \* calls made so far
    queue,    \* s_event_queue
    task,     \* event_task
    handler,  \* s_event_cb is set
    ip,       \* last_ip_info is set, in the Zig part
    lost,     \* ends of a scan or of an address the queue had no room for
    psErr     \* the driver refused the last power-save setting

own_vars == <<boot, own, ini, handler>>
api_vars == <<started, st, ps, psErr, pc, calls>>
app_vars == <<queue, task, ip, lost>>
vars == <<radio, loop, own_vars, api_vars, app_vars>>

States == {"idle", "connecting", "connected", "scanning"}
Stages == {"none", "task", "netif", "wifi", "handlers", "mode"}
Ends == {"ScanDone", "StaDisconnected", "LostIp"}
Handlers == {"any", "gotIp", "lostIp"}
Steps == {"idle", "scanStart", "scan", "leave", "halt", "connStart", "config", "join", "drop"}

TypeOK ==
    /\ RadioTypeOK
    /\ boot \in Stages
    /\ own \in [task: BOOLEAN, netif: BOOLEAN, regs: [Handlers -> 0..2]]
    /\ {ini, started, handler, ip, psErr} \subseteq BOOLEAN
    /\ st \in States /\ ps \in PsTypes /\ pc \in Steps /\ calls \in 0..MaxCalls
    /\ queue \in Seq(Events \cup {"Result"}) /\ Len(queue) <= QueueCap
    /\ task \in {"wait", "settle"} /\ lost \subseteq Ends

Init ==
    /\ RadioInit
    /\ boot = "none"
    /\ own = [task |-> FALSE, netif |-> FALSE, regs |-> [h \in Handlers |-> 0]]
    /\ ini = FALSE /\ started = FALSE /\ handler = FALSE /\ ip = FALSE /\ psErr = FALSE
    /\ st = "idle" /\ ps = "min" /\ pc = "idle" /\ calls = 0
    /\ queue = <<>> /\ task = "wait" /\ lost = {}

----------------------------------------------------------------------------
(* esp_embed_wifi_sta_init, one stage a step. A stage that fails returns    *)
(* from the call and releases nothing; the next call starts again.          *)
Stage(s, next) == boot = s /\ boot' \in {next, "none"}
BootFrame == UNCHANGED <<radio, loop, started, st, ps, psErr, pc, calls, task, ip, lost, handler>>

\* the new queue replaces the old one, whose task stays blocked on it
CreateQueue ==
    /\ ~ini /\ boot = "none" /\ boot' = "task"
    /\ queue' = <<>> /\ own' = [own EXCEPT !.task = FALSE]
    /\ BootFrame /\ UNCHANGED ini

CreateTask ==
    /\ Stage("task", "netif")
    /\ own' = [own EXCEPT !.task = boot' # "none"]
    /\ BootFrame /\ UNCHANGED <<ini, queue>>

\* mutant: an interface that exists is taken for a success
NetifReused == FALSE

\* a second default station interface has the same key and is refused
NetifRefused == own.netif
CreateNetif ==
    /\ Stage("netif", "wifi")
    /\ NetifRefused => boot' = "none"
    /\ own' = [own EXCEPT !.netif = @ \/ boot' # "none"]
    /\ BootFrame /\ UNCHANGED <<ini, queue>>

InitDriver ==
    /\ Stage("wifi", "handlers")
    /\ BootFrame /\ UNCHANGED <<ini, queue, own>>

\* the three registrations, in order; done is how many succeeded
RegisterHandlers ==
    /\ Stage("handlers", "mode")
    /\ \E done \in {{}, {"any"}, {"any", "gotIp"}, Handlers} :
          /\ boot' = "mode" <=> done = Handlers
          /\ own' = [own EXCEPT !.regs = [h \in Handlers |-> IF h \in done THEN @[h] + 1 ELSE @[h]]]
    /\ BootFrame /\ UNCHANGED <<ini, queue>>

ApplyPowerSave(r) ==
    \E ok \in BOOLEAN : psErr' = ~ok /\ radio' = [r EXCEPT !.ps = IF ok THEN ps ELSE @]

StartWifi ==
    /\ boot = "mode" /\ boot' = "none"
    /\ \/ UNCHANGED <<radio, started, psErr, ini, st>>
       \/ /\ ApplyPowerSave([radio EXCEPT !.on = TRUE])
          /\ started' = TRUE /\ ini' = ~psErr' /\ st' = IF ini' THEN "idle" ELSE st
    /\ UNCHANGED <<loop, own, handler, ps, pc, calls, app_vars>>

\* StaImpl.init after the binding's, StaImpl.deinit
SetHandler ==
    /\ ini /\ ~handler /\ handler' = TRUE
    /\ UNCHANGED <<radio, loop, boot, own, ini, api_vars, app_vars>>
ClearHandler ==
    /\ handler /\ handler' = FALSE /\ ip' = FALSE
    /\ UNCHANGED <<radio, loop, boot, own, ini, api_vars, queue, task, lost>>

----------------------------------------------------------------------------
(* The calls. The caller rests between the steps in which the code reads or   *)
(* writes s_wifi_state or calls the driver.                                 *)
Goto(from, to) ==
    /\ pc = from /\ pc' = to
    /\ calls' = calls + IF from = "idle" THEN 1 ELSE 0
    /\ calls' <= MaxCalls
ApiFrame == UNCHANGED <<own_vars, app_vars>>

\* start_scan and connect are refused during a connection attempt
Accepts == ini /\ st # "connecting"

BeginScan ==
    /\ Accepts /\ Goto("idle", "scanStart")
    /\ ApiFrame /\ UNCHANGED <<radio, loop, started, st, ps, psErr>>

\* mutant: the radio is started without the mode set while it was stopped
EnsureStartedBare ==
    /\ pc \in {"scanStart", "connStart"}
    /\ started' = TRUE /\ radio' = [radio EXCEPT !.on = TRUE] /\ psErr' = FALSE
    /\ pc' = IF pc = "scanStart" THEN "scan" ELSE "config"
    /\ UNCHANGED <<loop, st, ps, calls>> /\ ApiFrame

\* ensure_wifi_started; after a failure the call returns, and connect goes idle
EnsureStarted ==
    /\ pc \in {"scanStart", "connStart"}
    /\ \/ /\ started
          /\ UNCHANGED <<radio, started, psErr>>
       \/ ~started /\ UNCHANGED <<radio, started, psErr>>
       \/ /\ ~started /\ started' = TRUE
          /\ ApplyPowerSave([radio EXCEPT !.on = TRUE])
    /\ IF started' /\ (started \/ ~psErr')
       THEN /\ pc' = IF pc = "scanStart" THEN "scan" ELSE "config"
            /\ st' = st
       ELSE /\ pc' = "idle"
            /\ st' = IF pc = "connStart" THEN "idle" ELSE st
    /\ UNCHANGED <<loop, ps, calls>> /\ ApiFrame

\* a scan takes far longer than the assignment that follows its start
StartScan ==
    /\ Goto("scan", "idle")
    /\ \/ Scan /\ st' = "scanning" /\ lost' = lost \ {"ScanDone"}
       \/ st' = "idle" /\ UNCHANGED <<radio, loop, lost>>
    /\ UNCHANGED <<own_vars, started, ps, psErr, queue, task, ip>>

StopScan ==
    /\ ini /\ started /\ Goto("idle", "idle")
    /\ AbortScan
    /\ st' = IF st = "scanning" THEN "idle" ELSE st
    /\ UNCHANGED <<started, ps, psErr>> /\ ApiFrame

BeginConnect ==
    /\ Accepts /\ Goto("idle", "leave")
    /\ IF st = "scanning" THEN AbortScan ELSE UNCHANGED <<radio, loop>>
    /\ UNCHANGED <<started, st, ps, psErr>> /\ ApiFrame

\* a connected station is disconnected first, then the radio is stopped
LeaveNetwork ==
    /\ IF st = "connected" THEN Goto("leave", "halt") /\ Leave
       ELSE Goto("leave", "connStart") /\ UNCHANGED <<radio, loop>>
    /\ UNCHANGED <<started, st, ps, psErr>> /\ ApiFrame

StopRadio ==
    /\ \/ Goto("halt", "connStart") /\ Stop /\ started' = FALSE /\ st' = st
       \/ Goto("halt", "idle") /\ st' = "idle" /\ UNCHANGED <<radio, loop, started>>
    /\ UNCHANGED <<ps, psErr>> /\ ApiFrame

BeginJoin ==
    /\ Goto("config", "join") /\ st' = "connecting"
    /\ UNCHANGED <<radio, loop, started, ps, psErr>> /\ ApiFrame

\* mutant: the error is returned and the state left at connecting
FinishJoinForgetful ==
    /\ Goto("join", "idle")
    /\ \/ Join
       \/ UNCHANGED <<radio, loop>>
    /\ UNCHANGED <<started, st, ps, psErr>> /\ ApiFrame

\* esp_wifi_set_config and esp_wifi_connect; either may fail
FinishJoin ==
    /\ Goto("join", "idle")
    /\ \/ Join /\ st' = st
       \/ st' = "idle" /\ UNCHANGED <<radio, loop>>
    /\ UNCHANGED <<started, ps, psErr>> /\ ApiFrame

BeginDisconnect ==
    /\ ini /\ Goto("idle", "drop") /\ Leave
    /\ UNCHANGED <<started, st, ps, psErr>> /\ ApiFrame

FinishDisconnect ==
    /\ Goto("drop", "idle") /\ st' = "idle"
    /\ \/ started /\ Stop /\ started' = FALSE
       \/ UNCHANGED <<radio, loop, started>>
    /\ UNCHANGED <<ps, psErr>> /\ ApiFrame

\* the type is kept even when the running driver refuses it
SetPowerSave ==
    /\ Goto("idle", "idle")
    /\ ps' \in PsTypes
    /\ IF started
       THEN \E ok \in BOOLEAN : psErr' = ~ok /\ radio' = [radio EXCEPT !.ps = IF ok THEN ps' ELSE @]
       ELSE UNCHANGED <<radio, psErr>>
    /\ UNCHANGED <<loop, started, st>> /\ ApiFrame

\* get_power_save asks a started driver and answers from the cache otherwise
PowerSave == IF started THEN radio.ps ELSE ps

----------------------------------------------------------------------------
(* The event loop's task and event_task. *)
Emit(k) == IF Len(queue) < QueueCap
           THEN queue' = Append(queue, k)
                /\ lost' = IF k = "GotIp" THEN lost \cap {"ScanDone"} ELSE lost
           ELSE queue' = queue /\ lost' = lost \cup ({k} \cap Ends)

\* the state an event leaves
StateAfter(k) == CASE k \in {"StaConnected", "GotIp"} -> "connected"
                   [] k = "StaDisconnected" -> "idle"
                   [] OTHER -> st

HandleEvent ==
    /\ loop # <<>> /\ own.regs["any"] > 0
    /\ st' = StateAfter(Head(loop))
    /\ Emit(Head(loop)) /\ loop' = Tail(loop)
    /\ UNCHANGED <<radio, own_vars, started, ps, psErr, pc, calls, task, ip>>

\* what makeEvent does to last_ip_info
IpAfter(k) == CASE k = "GotIp" -> TRUE
                [] k \in {"StaDisconnected", "LostIp"} -> FALSE
                [] OTHER -> ip

DeliverEvent ==
    /\ own.task /\ task = "wait" /\ queue # <<>> /\ Head(queue) # "ScanDone"
    /\ queue' = Tail(queue)
    /\ ip' = IF handler THEN IpAfter(Head(queue)) ELSE ip
    /\ UNCHANGED <<radio, loop, own_vars, api_vars, task, lost>>

\* emit_scan_results goes through the same queue, with the same losses
EmitScanResults ==
    /\ own.task /\ task = "wait" /\ queue # <<>> /\ Head(queue) = "ScanDone"
    /\ task' = "settle"
    /\ \E n \in 0..MaxFound : n + Len(queue) - 1 <= QueueCap
          /\ queue' = Tail(queue) \o [i \in 1..n |-> "Result"]
    /\ UNCHANGED <<radio, loop, own_vars, api_vars, ip, lost>>

SettleScan ==
    /\ task = "settle" /\ task' = "wait"
    /\ st' = IF st = "scanning" THEN "idle" ELSE st
    /\ UNCHANGED <<radio, loop, own_vars, started, ps, psErr, pc, calls, queue, ip, lost>>

LoseIp == radio.ip /\ Air([radio EXCEPT !.ip = FALSE], "LostIp")

AirMoves == (Associate \/ LinkFails \/ GetIp \/ LoseIp \/ ScanEnds)
            /\ UNCHANGED <<own_vars, api_vars, app_vars>>

Boot == CreateQueue \/ CreateTask \/ CreateNetif \/ InitDriver \/ RegisterHandlers \/ StartWifi
ApiStep ==
    \/ BeginScan \/ EnsureStarted \/ StartScan \/ StopScan
    \/ BeginConnect \/ LeaveNetwork \/ StopRadio \/ BeginJoin \/ FinishJoin
    \/ BeginDisconnect \/ FinishDisconnect \/ SetPowerSave

Next == \/ Boot \/ SetHandler \/ ClearHandler \/ AirMoves
        \/ HandleEvent \/ DeliverEvent \/ EmitScanResults \/ SettleScan
        \/ ApiStep

Spec == Init /\ [][Next]_vars

----------------------------------------------------------------------------
Queued(k) == \E i \in DOMAIN queue : queue[i] = k

\* The state says connected only while the link is up or its end is about to
\* be handled, whatever calls and events cross (connect, disconnect, handler).
ConnectedIsBacked == st = "connected" => radio.link = "up" \/ Pending("StaDisconnected")

\* start_scan and connect are refused while the state says connecting: it may
\* only say so while an attempt runs or its outcome is about to be handled.
ConnectingIsBacked ==
    st = "connecting" => \/ radio.link = "joining"
                         \/ Pending("StaConnected") \/ Pending("StaDisconnected")
                         \/ pc = "join"

\* A scan that ended leaves the state unless the queue dropped the word of it.
ScanningIsBacked ==
    st = "scanning" => \/ radio.scan \/ Pending("ScanDone") \/ Queued("ScanDone")
                       \/ task = "settle" \/ "ScanDone" \in lost

StateIsBacked == ConnectedIsBacked /\ ConnectingIsBacked /\ ScanningIsBacked

\* The application believes in an address only while the station has it, the
\* word of its loss is under way, or the queue dropped that word.
IpIsCurrent ==
    ip => \/ radio.ip \/ lost \cap {"StaDisconnected", "LostIp"} # {}
          \/ \E k \in {"StaDisconnected", "LostIp"} : Pending(k) \/ Queued(k)

\* A started driver runs with the mode last asked for unless it refused it,
\* over stops and starts of the radio and a mode set while it was stopped.
PowerSaveKept == started /\ ~psErr => PowerSave = ps

\* A station that came up, after whatever failed attempts, has its interface
\* and a task on its queue, and handles each event once.
InitIsWhole == ini => own = [task |-> TRUE, netif |-> TRUE, regs |-> [h \in Handlers |-> 1]]
=============================================================================
