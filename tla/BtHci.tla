-------------------------------- MODULE BtHci --------------------------------
(* The three HCI transports: bk/lib/embed/bt/local_hci.c and, for the ESP32,  *)
(* esp/lib/embed/bt/local_hci.c (controller on the chip) and remote_hci.c     *)
(* (controller behind esp_hosted). The host has one task that reads and       *)
(* writes one packet at a time; its buffer holds any packet the queue holds.  *)
EXTENDS Naturals, Sequences

CONSTANTS QueueLen,    \* 16 in the code
          MaxPackets,  \* bound on the packets of the controller
          MaxInits     \* bound on the queues that are made

VARIABLES kind, hci,  \* the binding's static state
          stack,      \* the controller, and the queues that exist
          pushing,    \* the packet notify_host_recv is about to push, or 0
          sender,     \* the host's writer, and what the controller was told
          got, lost   \* packets the host has read, and those dropped with a cause
vars == <<kind, hci, stack, pushing, sender, got, lost>>

\* queue 0 is no queue; each one created has the next number
HciTypeOK ==
    /\ kind \in {"bk", "local", "remote"}
    /\ hci \in [up: BOOLEAN, step: {"idle", "begun"}, queue: Nat, cb: BOOLEAN, token: BOOLEAN]
    /\ stack.on \in BOOLEAN /\ stack.ready \in BOOLEAN /\ stack.sent \in 0..MaxPackets
    /\ pushing \in 0..MaxPackets /\ got \in Seq(1..MaxPackets)

Init ==
    /\ kind \in {"bk", "local", "remote"}
    /\ hci = [up |-> FALSE, step |-> "idle", queue |-> 0, cb |-> kind = "remote", token |-> FALSE]
    /\ stack = [on |-> FALSE, ready |-> TRUE, sent |-> 0, made |-> 0, failed |-> 0, short |-> FALSE,
                queues |-> [q \in {} |-> <<>>]]
    /\ pushing = 0 /\ got = <<>> /\ lost = {}
    /\ sender = [at |-> "idle", frame |-> <<>>, told |-> <<>>]

----------------------------------------------------------------------------
(* Bringing it up and down.                                                 *)
Made(s)      == [s EXCEPT !.made = @ + 1, !.queues = [q \in DOMAIN @ \cup {s.made + 1} |->
                                                        IF q \in DOMAIN @ THEN @[q] ELSE <<>>]]
Deleted(s, q) == [s EXCEPT !.queues = [p \in DOMAIN @ \ {q} |-> @[p]]]

\* no memory for the queue: an ESP32 binding has forgotten the one it had by then.
\* Or the queue is made, and there is none for the semaphore
NoQueue == IF kind = "bk" THEN UNCHANGED <<hci, stack>>
           ELSE hci' = [hci EXCEPT !.queue = 0, !.token = FALSE] /\ stack' = [stack EXCEPT !.short = TRUE]
NoSemaphore == /\ kind = "local" /\ hci' = [hci EXCEPT !.queue = stack.made + 1, !.token = FALSE]
               /\ stack' = [Made(stack) EXCEPT !.failed = @ + 1]

\* the queue is made first, whatever an ESP32 initialisation that failed has left
Begin(cb) ==
    /\ ~hci.up /\ hci.step = "idle" /\ stack.made < MaxInits
    /\ \/ NoQueue \/ NoSemaphore
       \/ /\ stack' = Made(stack)
          /\ hci' = [hci EXCEPT !.step = "begun", !.queue = stack.made + 1, !.token = FALSE, !.cb = cb]
    /\ UNCHANGED <<kind, pushing, sender, got, lost>>

\* BK registers its callback before the controller starts, the ESP32's own
\* controller gets it last, and the hosted transport's handler needs none
BkInit     == kind = "bk" /\ Begin(TRUE)
LocalInit  == kind = "local" /\ Begin(FALSE)
RemoteInit == kind = "remote" /\ Begin(TRUE)

\* the controller starts while the init still runs
ControllerOn ==
    /\ hci.step = "begun" /\ ~stack.on /\ stack' = [stack EXCEPT !.on = TRUE]
    /\ UNCHANGED <<kind, hci, pushing, sender, got, lost>>

InitDone ==
    /\ hci.step = "begun" /\ stack.on
    /\ hci' = [hci EXCEPT !.step = "idle", !.up = TRUE, !.cb = TRUE, !.token = kind = "local"]
    /\ UNCHANGED <<kind, stack, pushing, sender, got, lost>>

\* mutant: the BK binding keeps its queue
InitFailsLeaving ==
    /\ hci.step = "begun" /\ (kind = "bk" => ~stack.on)
    /\ hci' = [hci EXCEPT !.step = "idle", !.queue = IF kind = "bk" THEN 0 ELSE @, !.cb = @ /\ kind # "bk"]
    /\ stack' = [stack EXCEPT !.failed = @ + 1]
    /\ UNCHANGED <<kind, pushing, sender, got, lost>>

\* BK puts everything back; the ESP32 bindings put nothing back, and a controller
\* that is on already is no error the next time
InitFails ==
    /\ hci.step = "begun" /\ (kind = "bk" => ~stack.on)
    /\ hci' = [hci EXCEPT !.step = "idle", !.queue = IF kind = "bk" THEN 0 ELSE @, !.cb = @ /\ kind # "bk"]
    /\ stack' = [(IF kind = "bk" THEN Deleted(stack, hci.queue) ELSE stack) EXCEPT !.failed = @ + 1]
    /\ UNCHANGED <<kind, pushing, sender, got, lost>>

\* mutant: the queue goes first
DeinitQueueFirst ==
    /\ kind = "bk" /\ hci.up /\ sender.at = "idle"
    /\ hci' = [hci EXCEPT !.up = FALSE, !.queue = 0, !.cb = FALSE]
    /\ stack' = [Deleted(stack, hci.queue) EXCEPT !.on = FALSE]
    /\ UNCHANGED <<kind, pushing, sender, got, lost>>

\* only BK can: the callback is withdrawn, the controller ends with its last
\* callback, then the queue goes
Deinit ==
    /\ kind = "bk" /\ hci.up /\ sender.at = "idle" /\ pushing = 0
    /\ hci' = [hci EXCEPT !.up = FALSE, !.queue = 0, !.cb = FALSE]
    /\ stack' = [Deleted(stack, hci.queue) EXCEPT !.on = FALSE]
    /\ UNCHANGED <<kind, pushing, sender, got, lost>>

----------------------------------------------------------------------------
(* Packets from the controller.                                             *)
\* notify_host_recv looks whether there is a queue; without one, and when it is
\* longer than a queue entry, a packet is dropped
Notify(fits) ==
    /\ stack.on /\ hci.cb /\ pushing = 0 /\ stack.sent < MaxPackets
    /\ stack' = [stack EXCEPT !.sent = @ + 1]
    /\ IF hci.queue = 0 \/ ~fits THEN lost' = lost \cup {stack.sent + 1} /\ UNCHANGED pushing
       ELSE pushing' = stack.sent + 1 /\ UNCHANGED lost
    /\ UNCHANGED <<kind, hci, sender, got>>

\* it reads the handle again, and does not wait. A push to no queue is not followed
Push ==
    /\ pushing # 0 /\ hci.queue \in DOMAIN stack.queues /\ pushing' = 0
    /\ IF Len(stack.queues[hci.queue]) < QueueLen
       THEN stack' = [stack EXCEPT !.queues[hci.queue] = Append(@, pushing)] /\ UNCHANGED lost
       ELSE lost' = lost \cup {pushing} /\ UNCHANGED stack
    /\ UNCHANGED <<kind, hci, sender, got>>

\* recv, when its time is not over first
Recv ==
    /\ hci.up /\ stack.queues[hci.queue] # <<>>
    /\ got' = Append(got, Head(stack.queues[hci.queue]))
    /\ stack' = [stack EXCEPT !.queues[hci.queue] = Tail(@)]
    /\ UNCHANGED <<kind, hci, pushing, sender, lost>>

----------------------------------------------------------------------------
(* Packets to the controller: of a type, with the length its header claims    *)
(* and the bytes that follow the type.                                        *)
HeaderLen == [cmd |-> 3, acl |-> 4, sco |-> 3]
Claims    == [cmd |-> {0, 5, 255}, acl |-> {0, 5, 65531, 65532}, sco |-> {0, 5, 255}]
Frames    == UNION {{t} \X Claims[t] \X {2, 4, 8, 9} : t \in DOMAIN Claims}

\* mutant: the header is not counted
AcceptedShort(f) == f[3] >= HeaderLen[f[1]] /\ f[2] % 65536 <= f[3]

\* the sum is cut to sixteen bits
Accepted(f) == f[3] >= HeaderLen[f[1]] /\ (HeaderLen[f[1]] + f[2]) % 65536 <= f[3]

\* BK takes the packet apart and tells the parts; hosted sends a copy, which is
\* freed by the driver, when it gets one; the ESP32's own controller is asked first
Sending(k, next) ==
    /\ kind = k /\ hci.up /\ sender.at = "idle" /\ sender' = next
    /\ UNCHANGED <<kind, hci, stack, pushing, got, lost>>
BkSend(f)     == Sending("bk", [at |-> "idle", frame |-> f, told |-> IF Accepted(f) THEN f ELSE <<>>])
RemoteSend(f) == \E copied \in BOOLEAN : Sending("remote", [at |-> "idle", frame |-> f, told |-> IF copied THEN f ELSE <<>>])
LocalSend(f)  == Sending("local", [at |-> "asking", frame |-> f, told |-> <<>>])

\* on the ESP32's own controller: ask, and take the semaphore if it is not
\* ready, each time with the whole timeout
AskAvailable ==
    /\ sender.at = "asking"
    /\ IF stack.ready
       THEN sender' = [sender EXCEPT !.at = "idle", !.told = sender.frame] /\ stack' \in {stack, [stack EXCEPT !.ready = FALSE]}
       ELSE sender' = [sender EXCEPT !.at = "refused"] /\ UNCHANGED stack
    /\ UNCHANGED <<kind, hci, pushing, got, lost>>

TakeReady ==
    /\ sender.at \in {"refused", "waiting"}
    /\ \/ hci.token /\ hci' = [hci EXCEPT !.token = FALSE] /\ sender' = [sender EXCEPT !.at = "asking"]
       \/ ~hci.token /\ UNCHANGED hci
          /\ sender' = [sender EXCEPT !.at = IF @ = "refused" THEN "waiting" ELSE "idle"]
    /\ UNCHANGED <<kind, stack, pushing, got, lost>>

\* mutant: a token is given only to a task that waits already
SendAvailableWaiting ==
    /\ kind = "local" /\ stack.on /\ ~stack.ready /\ stack' = [stack EXCEPT !.ready = TRUE]
    /\ hci' = [hci EXCEPT !.token = @ \/ sender.at = "waiting"]
    /\ UNCHANGED <<kind, pushing, sender, got, lost>>

\* notify_host_send_available: the token is there for whoever comes
SendAvailable ==
    /\ kind = "local" /\ stack.on /\ ~stack.ready /\ stack' = [stack EXCEPT !.ready = TRUE]
    /\ hci' = [hci EXCEPT !.token = TRUE]
    /\ UNCHANGED <<kind, pushing, sender, got, lost>>

Next ==
    \/ BkInit \/ LocalInit \/ RemoteInit \/ ControllerOn \/ InitDone \/ InitFails \/ Deinit
    \/ \E fits \in BOOLEAN : Notify(fits)
    \/ Push \/ Recv \/ AskAvailable \/ TakeReady \/ SendAvailable
    \/ \E f \in Frames : BkSend(f) \/ RemoteSend(f) \/ LocalSend(f)

Spec == Init /\ [][Next]_vars

----------------------------------------------------------------------------
\* The host reads the packets in the order the controller gave them, and none
\* twice, over queues that are made again; what it misses was dropped for a
\* full queue or for its size, or lies in a queue.
PacketsInOrder ==
    /\ \A i, j \in DOMAIN got : i < j => got[i] < got[j]
    /\ hci.up /\ stack.failed = 0 /\ stack.made = 1 => \A p \in 1..stack.sent :
          \/ p \in lost \/ p = pushing \/ \E i \in DOMAIN got : got[i] = p
          \/ \E i \in DOMAIN stack.queues[hci.queue] : stack.queues[hci.queue][i] = p

\* A queue exists for an initialised transport, and for no other reason but an
\* ESP32 initialisation that failed, which leaves one behind each time. The
\* controller's callback pushes to one that exists, but for the hosted transport:
\* there an initialisation without memory for its queue takes the handle that an
\* earlier one left from under a callback that has seen it (remote_hci.c:46).
QueuesAlive ==
    /\ hci.up => hci.queue \in DOMAIN stack.queues
    /\ pushing # 0 => \/ hci.queue \in DOMAIN stack.queues
                      \/ kind = "remote" /\ hci.queue = 0 /\ stack.short /\ stack.failed > 0
    /\ \A q \in DOMAIN stack.queues : q = hci.queue \/ (kind # "bk" /\ stack.failed > 0)
    /\ kind = "bk" /\ ~hci.up /\ hci.step = "idle" => stack.queues = <<>> /\ ~hci.cb

\* The writer waits only while the controller is busy or its token is there.
SenderHasReason == sender.at = "waiting" => ~stack.ready \/ hci.token

\* What BK tells the controller lies within the packet, but for a claimed
\* length from which the 16-bit sum starts again at zero (line 127).
HeadersExact ==
    kind = "bk" /\ sender.told # <<>> =>
        \/ HeaderLen[sender.told[1]] + sender.told[2] <= sender.told[3] \/ sender.told[2] >= 65532
=============================================================================
