----------------------------- MODULE WifiRadio -----------------------------
(* The vendor's WiFi driver as the station bindings of both chips use it:  *)
(* one radio, and the first-in first-out loop through which it reports.    *)
(* External code, kept to what the bindings can observe.                   *)
EXTENDS Naturals, Sequences

CONSTANTS
    LoopCap,   \* bound on the driver's events not yet handled
    PsTypes    \* power-save types; "min" is the driver's own

VARIABLES
    radio,  \* what the driver is really doing
    loop    \* its events, not yet handed to the binding

Links   == {"down", "joining", "up"}
Events  == {"ScanDone", "StaConnected", "StaDisconnected", "GotIp", "LostIp"}
Radios  == [on: BOOLEAN, link: Links, ip: BOOLEAN, scan: BOOLEAN, ps: PsTypes]

RadioTypeOK == radio \in Radios /\ loop \in Seq(Events) /\ Len(loop) <= LoopCap

RadioInit == /\ radio = [on |-> FALSE, link |-> "down", ip |-> FALSE,
                         scan |-> FALSE, ps |-> "min"]
             /\ loop = <<>>

Pending(k) == \E i \in DOMAIN loop : loop[i] = k

Down(r)     == [r EXCEPT !.link = "down", !.ip = FALSE]
Farewell(r) == IF r.link = "down" THEN <<>> ELSE <<"StaDisconnected">>
Post(evs)   == Len(loop) + Len(evs) <= LoopCap /\ loop' = loop \o evs

\* calls of the binding
Leave == radio' = Down(radio) /\ Post(Farewell(radio))
Stop  == radio' = [Down(radio) EXCEPT !.on = FALSE, !.scan = FALSE] /\ Post(Farewell(radio))
Join  == /\ radio.on
         /\ radio' = [radio EXCEPT !.link = "joining", !.ip = FALSE]
         /\ Post(Farewell(radio))
Scan  == radio.on /\ radio' = [radio EXCEPT !.scan = TRUE] /\ UNCHANGED loop
AbortScan == /\ radio' = [radio EXCEPT !.scan = FALSE]
             /\ Post(IF radio.scan THEN <<"ScanDone">> ELSE <<>>)

\* what the air does
Air(r, k) == radio' = r /\ Post(<<k>>)
Associate == radio.link = "joining" /\ Air([radio EXCEPT !.link = "up"], "StaConnected")
LinkFails == radio.link # "down" /\ Air(Down(radio), "StaDisconnected")
GetIp     == radio.link = "up" /\ ~radio.ip /\ Air([radio EXCEPT !.ip = TRUE], "GotIp")
ScanEnds  == radio.scan /\ Air([radio EXCEPT !.scan = FALSE], "ScanDone")
=============================================================================
