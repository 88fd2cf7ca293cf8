------------------------------ MODULE LwipSocket ------------------------------
(* A socket of the ESP32 or the BK net runtime: net/Runtime.zig over           *)
(* net/binding.c over lwIP. The IP task delivers packets and room to send and *)
(* says so in a callback; one task reads, one writes, and the owner closes    *)
(* and frees. A packet is its length.                                         *)
EXTENDS Naturals, Sequences

CONSTANT MaxPieces   \* bound on what arrives, in pieces of the size a read asks for

VARIABLES
    sock,      \* chip: esp, bk; kind: tcp, udp; accepted: handed out by a listener
    st,        \* State, and whether it exists and a callback finds it
    box,       \* lwIP's mailbox
    arrived,   \* pieces so far
    netbufs,   \* buffers that have not been freed
    room,      \* lwIP would take bytes to send
    cb,        \* the callback in the IP task: its event, and how far it is
    reader, writer, owner,   \* where the tasks are
    missed     \* an event of each direction was overwritten unseen
vars == <<sock, st, box, arrived, netbufs, room, cb, reader, writer, owner, missed>>

NoState == [exists |-> FALSE, registered |-> FALSE, ready |-> 0, write |-> TRUE, closed |-> FALSE,
            readInt |-> FALSE, writeInt |-> FALSE, pending |-> 0]
NoCall == [event |-> "none", at |-> "idle"]
Stages == {"idle", "raised", "holding"}

SocketTypeOK ==
    /\ st.ready \in 0..MaxPieces /\ st.pending \in 0..MaxPieces /\ DOMAIN st = DOMAIN NoState
    /\ \A p \in DOMAIN box : box[p] \in 1..MaxPieces
    /\ netbufs \in Nat /\ cb.at \in Stages /\ missed \subseteq {"read", "write"}
    /\ reader \in {"idle", "recv", "clear", "poll", "wait"} /\ writer \in {"idle", "send", "to", "peer", "clear", "poll", "wait"}

Init ==
    /\ sock \in [chip: {"esp", "bk"}, kind: {"tcp", "udp"}, accepted: BOOLEAN]
    /\ sock.accepted => sock.kind = "tcp"
    /\ st = NoState /\ box = <<>> /\ arrived = 0 /\ netbufs = 0 /\ room = TRUE /\ cb = NoCall
    /\ reader = "idle" /\ writer = "idle" /\ owner = "new" /\ missed = {}

----------------------------------------------------------------------------
(* The IP task. It runs one thing at a time, and a call of lwIP's that needs  *)
(* it waits for it.                                                          *)
IpIdle == cb.at = "idle"
Raise(e) == cb' = [event |-> e, at |-> "raised"]

\* a packet goes into the mailbox first, and then the news; an accepted
\* connection may have some before anyone looks after it
Arrive ==
    /\ IpIdle /\ ~st.closed /\ (owner = "open" \/ (owner = "new" /\ sock.accepted))
    /\ \E n \in 1..(MaxPieces - arrived) : box' = Append(box, n) /\ arrived' = arrived + n
    /\ netbufs' = netbufs + 1 /\ Raise("rcvplus")
    /\ UNCHANGED <<sock, st, room, reader, writer, owner, missed>>

Acked ==
    /\ IpIdle /\ ~room /\ owner = "open" /\ room' = TRUE /\ Raise("sendplus")
    /\ UNCHANGED <<sock, st, box, arrived, netbufs, reader, writer, owner, missed>>

\* the callback's way to the State: on the ESP32 the connection carries it, on
\* the BK it is looked up, and found and locked as one; without one the news
\* is lost
EspCallback == sock.chip = "esp" /\ st.registered
BkCallback  == sock.chip = "bk" /\ st.registered
Lookup ==
    /\ cb.at = "raised"
    /\ cb' = IF EspCallback \/ BkCallback THEN [cb EXCEPT !.at = "holding"] ELSE NoCall
    /\ UNCHANGED <<sock, st, box, arrived, netbufs, room, reader, writer, owner, missed>>

\* broadcast: whoever waits looks again
Woken(pc) == IF pc = "wait" THEN "poll" ELSE pc
Wake == reader' = Woken(reader) /\ writer' = Woken(writer)

\* mutant: the count of packets is not kept from going below zero
OnEventUnchecked(e) == [st EXCEPT
    !.ready = CASE e = "rcvplus" -> @ + 1 [] e = "rcvminus" -> @ - 1 [] OTHER -> @,
    !.write = CASE e = "sendplus" -> TRUE [] e = "sendminus" -> FALSE [] OTHER -> @]

OnEvent(e) == [st EXCEPT !.ready = CASE e = "rcvplus" /\ @ < MaxPieces -> @ + 1
                                     [] e = "rcvminus" /\ @ > 0 -> @ - 1 [] OTHER -> @,
                         !.write = CASE e = "sendplus" -> TRUE [] e = "sendminus" -> FALSE [] OTHER -> @]
Apply ==
    /\ cb.at = "holding" /\ cb' = NoCall
    /\ st' = OnEvent(cb.event) /\ Wake
    /\ UNCHANGED <<sock, box, arrived, netbufs, room, owner, missed>>

----------------------------------------------------------------------------
(* Creating.                                                                *)
\* espz_lwip_netconn_new, bkz_lwip_netconn_new or accept, then State.create:
\* without memory the connection, and what it has received, is deleted
Create ==
    /\ owner = "new"
    /\ \/ /\ st' = [NoState EXCEPT !.exists = TRUE, !.registered = TRUE]
          /\ owner' = "open" /\ UNCHANGED <<box, netbufs>>
       \/ /\ IpIdle /\ owner' = "gone" /\ box' = <<>> /\ netbufs' = netbufs - Len(box) /\ UNCHANGED st
    /\ UNCHANGED <<sock, arrived, room, cb, reader, writer, missed>>

(* Reading, as TcpConn.read and UdpConn.read do: recv, and poll when it would *)
(* block.                                                                    *)
Read ==
    /\ reader = "idle" /\ owner = "open" /\ reader' = "recv"
    /\ UNCHANGED <<sock, st, box, arrived, netbufs, room, cb, writer, owner, missed>>

Closed == reader = "recv" /\ st.closed /\ reader' = "idle"
    /\ UNCHANGED <<sock, st, box, arrived, netbufs, room, cb, writer, owner, missed>>

\* readPendingTcp: what is left of the last packet comes first, and goes back
\* when it has been read out
TakeRest ==
    /\ reader = "recv" /\ ~st.closed /\ st.pending > 0 /\ reader' = "idle"
    /\ st' = [st EXCEPT !.pending = @ - 1]
    /\ netbufs' = netbufs - (IF st.pending = 1 THEN 1 ELSE 0)
    /\ UNCHANGED <<sock, box, arrived, room, cb, writer, owner, missed>>

\* netconn_recv takes a packet, and calls the callback itself; a stream keeps
\* what the reader did not ask for, a datagram is given back whole
TakePacket ==
    /\ reader = "recv" /\ ~st.closed /\ st.pending = 0 /\ box # <<>> /\ cb.at # "holding"
    /\ box' = Tail(box) /\ reader' = "idle" /\ writer' = Woken(writer)
    /\ st' = [OnEvent("rcvminus") EXCEPT !.pending = IF sock.kind = "tcp" THEN Head(box) - 1 ELSE 0]
    /\ netbufs' = netbufs - (IF sock.kind = "tcp" /\ Head(box) > 1 THEN 0 ELSE 1)
    /\ UNCHANGED <<sock, arrived, room, cb, owner, missed>>

FindEmpty ==
    /\ reader = "recv" /\ ~st.closed /\ st.pending = 0 /\ box = <<>> /\ reader' = "clear"
    /\ UNCHANGED <<sock, st, box, arrived, netbufs, room, cb, writer, owner, missed>>

\* clearReadReady, in a critical section of its own: news that came since the
\* mailbox was found empty goes with the old
ClearReadReady ==
    /\ reader = "clear" /\ cb.at # "holding" /\ reader' = "poll"
    /\ st' = [st EXCEPT !.ready = 0]
    /\ missed' = IF box # <<>> THEN missed \cup {"read"} ELSE missed
    /\ UNCHANGED <<sock, box, arrived, netbufs, room, cb, writer, owner>>

\* pollState under the lock: an interrupt is taken, and returned once
PollRead ==
    /\ reader = "poll" /\ cb.at # "holding"
    /\ st' = [st EXCEPT !.readInt = FALSE]
    /\ reader' = IF st.ready > 0 \/ st.pending > 0 THEN "recv"
                 ELSE IF st.readInt \/ st.closed THEN "idle" ELSE "wait"
    /\ UNCHANGED <<sock, box, arrived, netbufs, room, cb, writer, owner, missed>>

\* a deadline; on the ESP32 a datagram socket is tried again after 1 ms anyway
EndReadWait ==
    /\ reader = "wait"
    /\ reader' \in {"idle"} \cup (IF sock.chip = "esp" /\ sock.kind = "udp" THEN {"recv"} ELSE {})
    /\ UNCHANGED <<sock, st, box, arrived, netbufs, room, cb, writer, owner, missed>>

----------------------------------------------------------------------------
(* Writing.                                                                 *)
Write ==
    /\ writer = "idle" /\ owner = "open" /\ writer' = "send"
    /\ UNCHANGED <<sock, st, box, arrived, netbufs, room, cb, reader, owner, missed>>

\* bytes of a stream: netconn_write_partly calls the callback itself when it
\* would block
SendBytes ==
    /\ writer = "send" /\ sock.kind = "tcp"
    /\ \/ (st.closed \/ room) /\ writer' = "idle" /\ room' \in {room, room /\ st.closed} /\ UNCHANGED <<st, reader>>
       \/ /\ ~st.closed /\ ~room /\ cb.at # "holding" /\ writer' = "clear" /\ UNCHANGED room
          /\ st' = OnEvent("sendminus") /\ reader' = Woken(reader)
    /\ UNCHANGED <<sock, box, arrived, netbufs, cb, owner, missed>>

\* a datagram needs a buffer; one that is too long is refused before that
NewNetbuf ==
    /\ writer = "send" /\ sock.kind = "udp"
    /\ \/ writer' = "idle" /\ UNCHANGED netbufs
       \/ ~st.closed /\ writer' \in {"to", "peer"} /\ netbufs' = netbufs + 1
    /\ UNCHANGED <<sock, st, box, arrived, room, cb, reader, owner, missed>>

\* without memory for the copy, or with an address that has no translation, the
\* buffer goes back and the call fails; when lwIP has answered it goes back too
Dropped  == writer' = "idle" /\ netbufs' = netbufs - 1 /\ UNCHANGED room
Answered == /\ netbufs' = netbufs - 1
            /\ IF room THEN writer' = "idle" /\ room' \in BOOLEAN
               ELSE writer' = "clear" /\ UNCHANGED room
SendFrame == UNCHANGED <<sock, st, box, arrived, cb, reader, owner, missed>>

EspSendTo == sock.chip = "esp" /\ writer = "to" /\ (Dropped \/ Answered) /\ SendFrame
EspSend   == sock.chip = "esp" /\ writer = "peer" /\ (Dropped \/ Answered) /\ SendFrame

\* mutant: an address of the wrong family returns at once
BkSendToLeaving ==
    /\ sock.chip = "bk" /\ writer = "to"
    /\ Dropped \/ Answered \/ (writer' = "idle" /\ UNCHANGED <<netbufs, room>>)
    /\ SendFrame

BkSendTo  == sock.chip = "bk" /\ writer = "to" /\ (Dropped \/ Answered) /\ SendFrame
BkSend    == sock.chip = "bk" /\ writer = "peer" /\ (Dropped \/ Answered) /\ SendFrame

\* setWriteReady(false), in a critical section of its own as well
ClearWriteReady ==
    /\ writer = "clear" /\ cb.at # "holding" /\ writer' = "poll"
    /\ st' = [st EXCEPT !.write = FALSE]
    /\ missed' = IF room THEN missed \cup {"write"} ELSE missed
    /\ UNCHANGED <<sock, box, arrived, netbufs, room, cb, reader, owner>>

PollWrite ==
    /\ writer = "poll" /\ cb.at # "holding"
    /\ st' = [st EXCEPT !.writeInt = FALSE]
    /\ writer' = IF st.write THEN "send" ELSE IF st.writeInt \/ st.closed THEN "idle" ELSE "wait"
    /\ UNCHANGED <<sock, box, arrived, netbufs, room, cb, reader, owner, missed>>

\* the retry of the ESP32 marks the socket as writable first
EndWriteWait ==
    /\ writer = "wait"
    /\ \/ writer' = "idle" /\ UNCHANGED st
       \/ sock.chip = "esp" /\ sock.kind = "udp" /\ cb.at # "holding" /\ writer' = "poll" /\ st' = [st EXCEPT !.write = TRUE]
    /\ UNCHANGED <<sock, box, arrived, netbufs, room, cb, reader, owner, missed>>

----------------------------------------------------------------------------
(* The owner.                                                               *)
\* signalState, for a deadline that has been changed
Signal ==
    /\ owner = "open" /\ ~st.closed /\ cb.at # "holding"
    /\ \/ st' = [st EXCEPT !.readInt = TRUE]
       \/ st' = [st EXCEPT !.writeInt = TRUE]
    /\ Wake /\ UNCHANGED <<sock, box, arrived, netbufs, room, cb, owner, missed>>

\* mutant: nobody is woken
MarkClosedQuietly ==
    /\ owner = "open" /\ ~st.closed /\ cb.at # "holding"
    /\ st' = [st EXCEPT !.closed = TRUE, !.readInt = TRUE, !.writeInt = TRUE]
    /\ UNCHANGED <<sock, box, arrived, netbufs, room, cb, reader, writer, owner, missed>>

\* markClosed
MarkClosed ==
    /\ owner = "open" /\ ~st.closed /\ cb.at # "holding"
    /\ st' = [st EXCEPT !.closed = TRUE, !.readInt = TRUE, !.writeInt = TRUE]
    /\ Wake /\ UNCHANGED <<sock, box, arrived, netbufs, room, cb, owner, missed>>

\* deinit comes when nobody uses the socket any more; deleteState first sees to
\* it that no callback finds the State
EspForget == sock.chip = "esp"
BkForget  == sock.chip = "bk" /\ cb.at # "holding"
Forget ==
    /\ owner = "open" /\ st.closed /\ reader = "idle" /\ writer = "idle"
    /\ EspForget \/ BkForget
    /\ st' = [st EXCEPT !.registered = FALSE] /\ owner' = "delete"
    /\ UNCHANGED <<sock, box, arrived, netbufs, room, cb, reader, writer, missed>>

\* mutant: the State goes while the IP task may be about to touch it
DeleteAtOnce == owner = "delete" /\ box' = <<>> /\ netbufs' = netbufs - Len(box) /\ owner' = "destroy"
    /\ UNCHANGED <<sock, st, arrived, room, cb, reader, writer, missed>>

\* netconn_delete is done by the IP task, after the callback it is in
Delete ==
    /\ owner = "delete" /\ IpIdle
    /\ box' = <<>> /\ netbufs' = netbufs - Len(box) /\ owner' = "destroy"
    /\ UNCHANGED <<sock, st, arrived, room, cb, reader, writer, missed>>

Rest == IF st.pending > 0 THEN 1 ELSE 0
Destroy ==
    /\ owner = "destroy" /\ owner' = "gone"
    /\ netbufs' = netbufs - Rest /\ st' = NoState
    /\ UNCHANGED <<sock, box, arrived, room, cb, reader, writer, missed>>

Next ==
    \/ Arrive \/ Acked \/ Lookup \/ Apply \/ Create
    \/ Read \/ Closed \/ TakeRest \/ TakePacket \/ FindEmpty \/ ClearReadReady \/ PollRead \/ EndReadWait
    \/ Write \/ SendBytes \/ NewNetbuf \/ EspSendTo \/ EspSend \/ BkSendTo \/ BkSend \/ ClearWriteReady \/ PollWrite \/ EndWriteWait
    \/ Signal \/ MarkClosed \/ Forget \/ Delete \/ Destroy

Spec == Init /\ [][Next]_vars

----------------------------------------------------------------------------
\* A callback that has found the State touches it while it exists, and the
\* tasks are out of it when it goes.
SocketAlive ==
    /\ cb.at = "holding" => st.exists
    /\ ~st.exists => reader = "idle" /\ writer = "idle"

\* Every packet buffer is in the mailbox, being read or being sent, or has been given back,
\* once: over short reads, closing in the middle of a packet, failed accepts
\* and datagrams that could not be sent.
Sending == IF writer \in {"to", "peer"} THEN 1 ELSE 0
NetbufsKept == netbufs = Len(box) + Rest + Sending

\* A task sleeps only for a reason: there is nothing it was told of, and it has
\* not been interrupted or the socket closed under it; and what it was not told
\* of is on its way, or was overwritten between the look and the clear.
SleepersHaveReason ==
    /\ reader = "wait" => /\ st.ready = 0 /\ st.pending = 0 /\ ~st.readInt /\ ~st.closed
                          /\ box = <<>> \/ cb.event = "rcvplus" \/ "read" \in missed
    /\ writer = "wait" => /\ ~st.write /\ ~st.writeInt /\ ~st.closed
                          /\ ~room \/ cb.event = "sendplus" \/ "write" \in missed
=============================================================================
