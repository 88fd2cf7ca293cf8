-------------------------------- MODULE EspPpp --------------------------------
(* PPP over a modem on the ESP32: the object of esp/lib/grt/net/binding.c and  *)
(* ModemPpp in esp/lib/net.zig that drives it. Four threads: the one that     *)
(* calls ModemPpp, the task that reads the modem, the IP stack, and the event *)
(* task that brings the stack's news to on_status.                            *)
EXTENDS Naturals, Sequences

CONSTANT MaxEvents   \* bound on the events under way

VARIABLES
    ppp,      \* the object: exists, its event group and interface, the handler's
              \* registration, and the bits STARTED and STOPPED
    modem,    \* ModemPpp: stop_read, active
    reader,   \* the read task: none, looping, input (in ppp_input), ended
    link,     \* the stack's session: dead, running, closing
    told,     \* what the stack was last told by a call: start or stop
    events,   \* its events under way, of this interface or of another
    pc, rc    \* the caller: where it is, and what start returned
vars == <<ppp, modem, reader, link, told, events, pc, rc>>

NoPpp == [exists |-> FALSE, group |-> FALSE, netif |-> FALSE, handler |-> FALSE,
          started |-> FALSE, stopped |-> FALSE]
PppTypeOK ==
    /\ ppp \in [DOMAIN NoPpp -> BOOLEAN]
    /\ modem \in [stopRead: BOOLEAN, active: BOOLEAN]
    /\ reader \in {"none", "looping", "input", "ended"}
    /\ link \in {"dead", "running", "closing"} /\ told \in {"start", "stop"}
    /\ events \in Seq({"end", "other", "foreign"}) /\ Len(events) <= MaxEvents
    /\ rc \in {"none", "ok", "error"}

Init ==
    /\ ppp = NoPpp /\ modem = [stopRead |-> FALSE, active |-> FALSE]
    /\ reader = "none" /\ link = "dead" /\ told = "stop" /\ events = <<>>
    /\ pc = "idle" /\ rc = "none"

----------------------------------------------------------------------------
(* Creating the object.                                                     *)
\* what had been made is destroyed again, in the reverse order
Create ==
    /\ pc = "create"
    /\ \/ /\ ppp' = [NoPpp EXCEPT !.exists = TRUE, !.group = TRUE, !.netif = TRUE, !.handler = TRUE]
          /\ pc' = "open" /\ UNCHANGED rc
       \/ ppp' = NoPpp /\ pc' = "idle" /\ rc' = "error"
    /\ UNCHANGED <<modem, reader, link, told, events>>

\* ModemPpp.start: stop_read is cleared before anything else
Start ==
    /\ pc = "idle"
    /\ modem' = [modem EXCEPT !.stopRead = FALSE]
    /\ pc' = IF ppp.exists THEN "open" ELSE "create"
    /\ rc' = "none"
    /\ UNCHANGED <<ppp, reader, link, told, events>>

\* espz_modem_ppp_start: a session that was started and not stopped is left
\* alone; the stack refuses to start one that it is still closing, and nobody
\* asks it how that went
Connected == IF link = "dead" THEN "running" ELSE link
Open ==
    /\ pc = "open"
    /\ IF ppp.started THEN UNCHANGED <<ppp, link, told>>
       ELSE /\ ppp' = [ppp EXCEPT !.stopped = FALSE, !.started = TRUE]
            /\ link' = Connected /\ told' = "start"
    /\ pc' = "spawn" /\ UNCHANGED <<modem, reader, events, rc>>

\* ModemPpp.start: a read task that has ended still counts as one
Spawn ==
    /\ pc = "spawn"
    /\ \/ /\ reader' = IF reader = "none" THEN "looping" ELSE reader
          /\ modem' = [modem EXCEPT !.active = TRUE]
          /\ pc' = "idle" /\ rc' = "ok"
       \/ /\ reader = "none" /\ UNCHANGED <<reader, modem>>
          /\ pc' = "closeUndo" /\ rc' = "error"
    /\ UNCHANGED <<ppp, link, told, events>>

----------------------------------------------------------------------------
(* Stopping it.                                                             *)
Closers == {"closeUndo", "closeStop", "closeDeinit"}
Waiters == [closeUndo |-> "waitUndo", closeStop |-> "waitStop", closeDeinit |-> "waitDeinit"]
After   == [closeUndo |-> "idle", closeStop |-> "settle", closeDeinit |-> "settleDeinit"]

\* ModemPpp.stop and deinit: the read task is told, and waited for
Stop(then) ==
    /\ pc = "idle"
    /\ IF modem.active \/ reader # "none"
       THEN modem' = [modem EXCEPT !.stopRead = TRUE] /\ pc' = (IF then = "stop" THEN "joinStop" ELSE "joinDeinit")
       ELSE UNCHANGED modem /\ pc' = (IF then = "deinit" /\ ppp.exists THEN "destroy" ELSE "idle")
    /\ UNCHANGED <<ppp, reader, link, told, events, rc>>

Join ==
    /\ pc \in {"joinStop", "joinDeinit"} /\ reader \in {"none", "ended"}
    /\ reader' = "none"
    /\ pc' = IF pc = "joinStop" THEN "closeStop" ELSE "closeDeinit"
    /\ UNCHANGED <<ppp, modem, link, told, events, rc>>

\* mutant: the STARTED bit survives the stop
CloseStarted ==
    /\ pc \in Closers
    /\ IF ppp.started
       THEN /\ ppp' = [ppp EXCEPT !.stopped = FALSE]
            /\ link' = (IF link = "running" THEN "closing" ELSE link) /\ told' = "stop" /\ pc' = Waiters[pc]
       ELSE UNCHANGED <<ppp, link, told>> /\ pc' = After[pc]
    /\ UNCHANGED <<modem, reader, events, rc>>

\* espz_modem_ppp_stop
Close ==
    /\ pc \in Closers
    /\ IF ppp.started
       THEN /\ ppp' = [ppp EXCEPT !.stopped = FALSE, !.started = FALSE]
            /\ link' = (IF link = "running" THEN "closing" ELSE link) /\ told' = "stop" /\ pc' = Waiters[pc]
       ELSE UNCHANGED <<ppp, link, told>> /\ pc' = After[pc]
    /\ UNCHANGED <<modem, reader, events, rc>>

\* the wait ends with the bit or after 1500 ms: with the read task gone the
\* modem's answer is not read, and the wait is not asked how it ended
Waited ==
    /\ \E c \in Closers : pc = Waiters[c] /\ pc' = After[c]
    /\ UNCHANGED <<ppp, modem, reader, link, told, events, rc>>

Settle ==
    /\ pc \in {"settle", "settleDeinit"}
    /\ modem' = [modem EXCEPT !.active = FALSE]
    /\ pc' = IF pc = "settle" THEN "idle" ELSE "destroy"
    /\ UNCHANGED <<ppp, reader, link, told, events, rc>>

\* mutant: the handler stays registered
UnregisterNot == pc = "destroy" /\ pc' = "free" /\ UNCHANGED <<ppp, modem, reader, link, told, events, rc>>

\* espz_modem_ppp_destroy, of a session that has been stopped: no news first,
\* then no interface, then no event group and no object
Unregister ==
    /\ pc = "destroy"
    /\ ppp' = [ppp EXCEPT !.handler = FALSE] /\ pc' = "free"
    /\ UNCHANGED <<modem, reader, link, told, events, rc>>

Free ==
    /\ pc = "free"
    /\ ppp' = [NoPpp EXCEPT !.handler = ppp.handler] /\ link' = "dead" /\ told' = "stop" /\ pc' = "idle"
    /\ UNCHANGED <<modem, reader, events, rc>>

----------------------------------------------------------------------------
(* The read task, the stack and the event task.                             *)
Read ==
    /\ reader = "looping"
    /\ reader' \in IF modem.stopRead THEN {"ended"} ELSE {"input", "ended"}
    /\ UNCHANGED <<ppp, modem, link, told, events, pc, rc>>

\* espz_modem_ppp_input
Input ==
    /\ reader = "input" /\ reader' = "looping"
    /\ UNCHANGED <<ppp, modem, link, told, events, pc, rc>>

\* the session ends, as it was told to or by itself; other news of this
\* interface and of others come at any time
LinkEnds ==
    /\ link # "dead" /\ link' = "dead" /\ Len(events) < MaxEvents /\ events' = Append(events, "end")
    /\ UNCHANGED <<ppp, modem, reader, told, pc, rc>>

News ==
    /\ ppp.netif /\ Len(events) < MaxEvents
    /\ \E e \in {"other", "foreign"} : events' = Append(events, e)
    /\ UNCHANGED <<ppp, modem, reader, link, told, pc, rc>>

\* espz_modem_ppp_on_status, while it is registered: the event loop holds its
\* lock over a handler, and unregistering takes the same lock
OnStatus ==
    /\ events # <<>> /\ events' = Tail(events)
    /\ ppp' = IF ppp.handler /\ Head(events) = "end" THEN [ppp EXCEPT !.stopped = TRUE] ELSE ppp
    /\ UNCHANGED <<modem, reader, link, told, pc, rc>>

Next ==
    \/ Create \/ Start \/ Open \/ Spawn \/ Stop("stop") \/ Stop("deinit") \/ Join \/ Close \/ Waited
    \/ Settle \/ Unregister \/ Free \/ Read \/ Input \/ LinkEnds \/ News \/ OnStatus

Spec == Init /\ [][Next]_vars

----------------------------------------------------------------------------
\* The event task never finds the handler registered for an object that has
\* been freed, the read task never hands bytes to an interface that is gone,
\* and an object is whole or it is not there.
PppAlive ==
    /\ ppp.handler => ppp.exists /\ ppp.group /\ ppp.netif
    /\ reader # "none" => ppp.exists /\ ppp.netif
    /\ ~ppp.exists => ppp = NoPpp

\* Between calls the bits agree with what the stack was last told: a session is
\* marked as started exactly when the last word was to start it, so that no
\* later start takes a stopped session for a running one, and a start that
\* failed has stopped what it started.
LinkTold == pc = "idle" => /\ ppp.started <=> told = "start"
                           /\ ppp.started <=> modem.active
                           /\ modem.active <=> reader # "none"
=============================================================================
