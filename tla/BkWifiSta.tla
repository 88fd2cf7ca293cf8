------------------------------ MODULE BkWifiSta ------------------------------
(* The Beken station binding: the caller of its C API, which has no lock,   *)
(* and the callbacks that run in the event task and reach the application   *)
(* without a queue between.                                                 *)
EXTENDS WifiRadio

CONSTANT MaxCalls   \* bound on the calls

VARIABLES
    ini,      \* s_registered
    started,  \* s_started: the station has been started once
    st,       \* s_state
    ps,       \* s_power_save with s_listen_interval
    pc,       \* where the caller is
    calls,    \* calls made so far
    task,     \* the event task
    handler,  \* s_event_cb is set
    ip,       \* last_ip_info is set, in the Zig part
    psErr,    \* the driver refused the last power-save setting
    guessed   \* "connected" was concluded from s_started alone

vars == <<radio, loop, ini, started, st, ps, pc, calls, task, handler, ip, psErr, guessed>>

States == {"idle", "connecting", "connected", "scanning"}
TypeOK ==
    /\ RadioTypeOK
    /\ {ini, started, handler, ip, psErr, guessed} \subseteq BOOLEAN
    /\ st \in States /\ ps \in PsTypes /\ calls \in 0..MaxCalls
    /\ pc \in {"idle", "scan", "join"} /\ task \in {"wait", "settle"}

Init ==
    /\ radio = [on |-> TRUE, link |-> "down", ip |-> FALSE, scan |-> FALSE, ps |-> "min"]
    /\ loop = <<>>
    /\ ini = FALSE /\ started = FALSE /\ handler = FALSE /\ ip = FALSE
    /\ psErr = FALSE /\ guessed = FALSE
    /\ st = "idle" /\ ps = "min" /\ pc = "idle" /\ calls = 0 /\ task = "wait"

\* both callbacks, either of which may fail; one that exists counts as success
Register ==
    /\ ~ini /\ ini' \in BOOLEAN
    /\ UNCHANGED <<radio, loop, started, st, ps, pc, calls, task, handler, ip, psErr, guessed>>

\* StaImpl.init after the binding's, StaImpl.deinit
SetHandler ==
    /\ ini /\ handler' = ~handler
    /\ ip' = (ip /\ handler')
    /\ UNCHANGED <<radio, loop, ini, started, st, ps, pc, calls, task, psErr, guessed>>

----------------------------------------------------------------------------
Goto(from, to) ==
    /\ ini /\ pc = from /\ pc' = to
    /\ calls' = calls + IF from = "idle" THEN 1 ELSE 0
    /\ calls' <= MaxCalls
ApiFrame == UNCHANGED <<ini, task, handler, ip>>

Become(s) == st' = s /\ guessed' = FALSE
StateKept == UNCHANGED <<st, guessed>>

\* after a scan: the station is taken to be where its start left it
EndScan == st' = (IF started THEN "connected" ELSE "idle") /\ guessed' = started
EndScanIfScanning == IF st = "scanning" THEN EndScan ELSE StateKept

BeginScan ==
    /\ Goto("idle", "scan") /\ Become("scanning")
    /\ UNCHANGED <<radio, loop, started, ps, psErr>> /\ ApiFrame

FinishScan ==
    /\ Goto("scan", "idle")
    /\ \/ Scan /\ StateKept
       \/ EndScan /\ UNCHANGED <<radio, loop>>
    /\ UNCHANGED <<started, ps, psErr>> /\ ApiFrame

StopScan ==
    /\ Goto("idle", "idle") /\ AbortScan /\ EndScanIfScanning
    /\ UNCHANGED <<started, ps, psErr>> /\ ApiFrame

\* after bk_wifi_sta_set_config, whose failure changes nothing
BeginConnect ==
    /\ Goto("idle", "join") /\ Become("connecting")
    /\ UNCHANGED <<radio, loop, started, ps, psErr>> /\ ApiFrame

\* bk_wifi_sta_start the first time, bk_wifi_sta_connect from then on
FinishConnect ==
    /\ Goto("join", "idle")
    /\ \/ Join /\ started' = TRUE /\ StateKept
       \/ Become("idle") /\ UNCHANGED <<radio, loop, started>>
    /\ UNCHANGED <<ps, psErr>> /\ ApiFrame

Disconnect ==
    /\ Goto("idle", "idle") /\ Leave /\ Become("idle")
    /\ UNCHANGED <<started, ps, psErr>> /\ ApiFrame

\* a listen interval takes two requests: the first may stand alone
SetPowerSave ==
    /\ Goto("idle", "idle")
    /\ \E m \in PsTypes :
          \/ ps' = m /\ psErr' = FALSE /\ radio' = [radio EXCEPT !.ps = m]
          \/ psErr' = TRUE /\ UNCHANGED <<radio, ps>>
          \/ m = "max" /\ psErr' = TRUE /\ radio' = [radio EXCEPT !.ps = "min"] /\ ps' = ps
    /\ UNCHANGED <<loop, started>> /\ StateKept /\ ApiFrame

----------------------------------------------------------------------------
(* wifi_event_cb and netif_event_cb; makeEvent keeps last_ip_info. *)
Take(k) == loop # <<>> /\ Head(loop) = k /\ loop' = Tail(loop) /\ task = "wait"
CbFrame == UNCHANGED <<radio, ini, started, ps, pc, calls, handler, psErr>>

EmitScanResults ==
    /\ Take("ScanDone") /\ task' = "settle"
    /\ StateKept /\ CbFrame /\ UNCHANGED ip

SettleScan ==
    /\ task = "settle" /\ task' = "wait"
    /\ EndScanIfScanning /\ CbFrame /\ UNCHANGED <<loop, ip>>

Connected == Take("StaConnected") /\ Become("connected") /\ CbFrame /\ UNCHANGED <<task, ip>>

\* mutant: only the loss of the address is taken for its end
DisconnectedLeased ==
    Take("StaDisconnected") /\ Become("idle") /\ CbFrame /\ UNCHANGED <<task, ip>>

Disconnected ==
    /\ Take("StaDisconnected") /\ Become("idle")
    /\ ip' = (ip /\ ~handler)
    /\ CbFrame /\ UNCHANGED task

\* the address is read again, and an unreadable one is not announced
GotIp ==
    /\ Take("GotIp") /\ ip' \in {ip, ip \/ handler}
    /\ StateKept /\ CbFrame /\ UNCHANGED task

LostIp ==
    /\ Take("LostIp") /\ ip' = (ip /\ ~handler)
    /\ StateKept /\ CbFrame /\ UNCHANGED task

\* wifi_netif_notify_sta_disconnect: DHCP gives up, the binding leaves
DhcpTimeout ==
    /\ radio.link = "up" /\ ~radio.ip
    /\ radio' = Down(radio) /\ Post(<<"LostIp", "StaDisconnected">>)
    /\ UNCHANGED <<ini, started, st, ps, pc, calls, task, handler, ip, psErr, guessed>>

AirMoves == (Associate \/ LinkFails \/ GetIp \/ ScanEnds)
            /\ UNCHANGED <<ini, started, st, ps, pc, calls, task, handler, ip, psErr, guessed>>

Next == \/ Register \/ SetHandler \/ DhcpTimeout \/ AirMoves
        \/ BeginScan \/ FinishScan \/ StopScan \/ BeginConnect \/ FinishConnect
        \/ Disconnect \/ SetPowerSave
        \/ EmitScanResults \/ SettleScan \/ Connected \/ Disconnected \/ GotIp \/ LostIp

Spec == Init /\ [][Next]_vars

----------------------------------------------------------------------------
\* The state says connected without a link only by the guess after a scan:
\* s_started is never cleared, so a scan after a lost connection ends there.
ConnectedIsBacked ==
    st = "connected" => radio.link = "up" \/ Pending("StaDisconnected") \/ guessed

\* It says connecting only while an attempt runs or its outcome is pending.
ConnectingIsBacked ==
    st = "connecting" => \/ radio.link = "joining" \/ pc = "join"
                         \/ Pending("StaConnected") \/ Pending("StaDisconnected")

\* It says scanning only while a scan runs or its end is pending.
ScanningIsBacked ==
    st = "scanning" => radio.scan \/ Pending("ScanDone") \/ task = "settle" \/ pc = "scan"

StateIsBacked == ConnectedIsBacked /\ ConnectingIsBacked /\ ScanningIsBacked

\* The application believes in an address only while the station has it or
\* the word of its loss is pending.
IpIsCurrent == ip => radio.ip \/ Pending("StaDisconnected") \/ Pending("LostIp")

\* The mode reported is the driver's unless the last setting failed.
PowerSaveKept == ~psErr => ps = radio.ps
=============================================================================
