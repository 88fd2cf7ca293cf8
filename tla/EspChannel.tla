------------------------------- MODULE EspChannel -------------------------------
(* The channel of the ESP32, esp/lib/grt/sync/Channel.zig over a FreeRTOS queue *)
(* (sync/channel/binding.c). Nobody is ever woken: every call polls the queue   *)
(* and the flag, and the unbuffered hand-over is a queue of one, a count of     *)
(* receivers and an acknowledgement that says nothing of which value it is for. *)
EXTENDS Naturals, Sequences, FiniteSets, SequencesExt

CONSTANTS Senders, Receivers,
          MaxItems   \* bound on the values sent

VARIABLES ch,    \* capacity, queue, closed, who holds send_lock, ack, recv_waiters
          snd,   \* per sender: where it is, its value, whether its call is timed
          rcv,   \* per receiver: where it is, whether its call is timed, whether it got a value
          hist   \* what calls were told, which values went in before the close, and came out
vars == <<ch, snd, rcv, hist>>

\* a queue of capacity values, or of one
Places == IF ch.cap = 0 THEN 1 ELSE ch.cap

ChannelTypeOK ==
    /\ Len(ch.queue) \in 0..Places /\ ch.waiters \in 0..Cardinality(Receivers)
    /\ ch.lock \subseteq Senders /\ Cardinality(ch.lock) <= 1

NoSend == [at |-> "idle", val |-> 0, timed |-> FALSE]
NoRecv == [at |-> "idle", timed |-> FALSE, got |-> FALSE]

Init ==
    /\ ch \in {[cap |-> c, queue |-> <<>>, closed |-> FALSE, lock |-> {}, ack |-> FALSE, waiters |-> 0] : c \in {0, 1}}
    /\ snd = [t \in Senders |-> NoSend] /\ rcv = [t \in Receivers |-> NoRecv]
    /\ hist = [next |-> 1, ok |-> {}, failed |-> {}, timedOut |-> {}, early |-> {},
               taken |-> {}, deserted |-> {}, ended |-> FALSE]

Sends(t, at)    == snd' = [snd EXCEPT ![t] = IF at = "idle" THEN NoSend ELSE [@ EXCEPT !.at = at]]
Receives(t, at) == rcv' = [rcv EXCEPT ![t] = IF at = "idle" THEN NoRecv ELSE [@ EXCEPT !.at = at]]
\* idle tasks are interchangeable
Begins(t, tasks) == tasks[t].at = "idle" /\ t = CHOOSE u \in DOMAIN tasks : tasks[u] = tasks[t]

----------------------------------------------------------------------------
(* send and sendTimeout. That a timed call has no ticks left may turn out at    *)
(* any of the places that ask.                                                *)
Send(t, timed) ==
    /\ Begins(t, snd) /\ hist.next <= MaxItems
    /\ snd' = [snd EXCEPT ![t] = [at |-> IF ch.cap = 0 THEN "turn" ELSE "check", val |-> hist.next, timed |-> timed]]
    /\ hist' = [hist EXCEPT !.next = @ + 1] /\ UNCHANGED <<ch, rcv>>

\* the call returns, and gives send_lock back
Report(t, how) ==
    /\ Sends(t, "idle") /\ ch' = [ch EXCEPT !.lock = @ \ {t}]
    /\ hist' = [hist EXCEPT ![how] = @ \cup {snd[t].val}] /\ UNCHANGED rcv

\* the same for a sender whose value is in the queue or was there
Desert(t, how) ==
    /\ Sends(t, "idle") /\ ch' = [ch EXCEPT !.lock = @ \ {t}] /\ UNCHANGED rcv
    /\ hist' = [hist EXCEPT ![how] = @ \cup {snd[t].val}, !.deserted = @ \cup {snd[t].val}]

Turn(t) ==
    /\ snd[t].at = "turn" /\ ch.lock = {} /\ ch' = [ch EXCEPT !.lock = {t}]
    /\ Sends(t, "check") /\ UNCHANGED <<rcv, hist>>

\* isClosed before the queue is tried, and in timed calls after it
Check(t) ==
    /\ snd[t].at \in {"check", "recheck"}
    /\ \/ ch.closed /\ Report(t, "failed")
       \/ ~ch.closed /\ snd[t].at = "recheck" /\ Report(t, "timedOut")
       \/ /\ ~ch.closed /\ UNCHANGED <<ch, rcv, hist>>
          /\ Sends(t, IF snd[t].at = "recheck" THEN "check" ELSE IF ch.cap = 0 THEN "look" ELSE "push")

\* hasWaitingReceiver
Look(t) ==
    /\ snd[t].at = "look"
    /\ LET waiting == ch.waiters # 0 /\ ~ch.closed IN
       \/ ~waiting /\ snd[t].timed /\ Report(t, "timedOut")
       \/ /\ Sends(t, IF waiting THEN "push" ELSE IF snd[t].timed THEN "recheck" ELSE "check")
          /\ UNCHANGED <<ch, rcv, hist>>

Push(t) ==
    /\ snd[t].at = "push" /\ Len(ch.queue) < Places
    /\ LET m == snd[t].val IN
       /\ ch' = [ch EXCEPT !.queue = Append(@, m)]
       /\ Sends(t, IF ch.cap = 0 THEN "ack" ELSE "idle") /\ UNCHANGED rcv
       /\ hist' = [hist EXCEPT !.early = IF ch.closed THEN @ ELSE @ \cup {m},
                               !.ok = IF ch.cap = 0 THEN @ ELSE @ \cup {m}]

\* the queue stayed full for a tick
PushMissed(t) ==
    /\ snd[t].at = "push" /\ Len(ch.queue) = Places
    /\ Sends(t, IF snd[t].timed THEN "recheck" ELSE "check") /\ UNCHANGED <<ch, rcv, hist>>

\* unbuffered: the acknowledgement, whosever it is
TakeAck(t) ==
    /\ snd[t].at = "ack" /\ ch.ack /\ Sends(t, "idle") /\ UNCHANGED rcv
    /\ ch' = [ch EXCEPT !.ack = FALSE, !.lock = @ \ {t}]
    /\ hist' = [hist EXCEPT !.ok = @ \cup {snd[t].val}]

AckMissed(t) ==
    /\ snd[t].at = "ack" /\ ~ch.ack /\ Sends(t, "waited") /\ UNCHANGED <<ch, rcv, hist>>

\* mutant: a closed channel ends the wait, whatever its queue holds
WaitedShort(t) ==
    /\ snd[t].at = "waited"
    /\ IF ch.closed THEN Report(t, "failed")
       ELSE \/ Sends(t, "ack") /\ UNCHANGED <<ch, rcv, hist>>
            \/ snd[t].timed /\ Desert(t, "timedOut")

Waited(t) ==
    /\ snd[t].at = "waited"
    /\ IF ch.closed /\ ch.queue = <<>> THEN Desert(t, "failed")
       ELSE \/ Sends(t, "ack") /\ UNCHANGED <<ch, rcv, hist>>
            \/ snd[t].timed /\ Desert(t, "timedOut")

----------------------------------------------------------------------------
(* recv and recvTimeout.                                                    *)
Recv(t, timed) ==
    /\ Begins(t, rcv) /\ UNCHANGED <<ch, snd, hist>>
    /\ rcv' = [rcv EXCEPT ![t] = [at |-> IF ch.cap = 0 THEN "count" ELSE "pull", timed |-> timed, got |-> FALSE]]

Count(t) ==
    /\ rcv[t].at = "count" /\ ch' = [ch EXCEPT !.waiters = @ + 1]
    /\ Receives(t, "pull") /\ UNCHANGED <<snd, hist>>

Pull(t) ==
    /\ rcv[t].at = "pull" /\ ch.queue # <<>> /\ UNCHANGED snd
    /\ ch' = [ch EXCEPT !.queue = Tail(@)] /\ hist' = [hist EXCEPT !.taken = @ \cup {Head(ch.queue)}]
    /\ rcv' = [rcv EXCEPT ![t] = IF ch.cap = 0 THEN [@ EXCEPT !.at = "uncount", !.got = TRUE] ELSE NoRecv]

\* the queue stayed empty for a tick
PullMissed(t) ==
    /\ rcv[t].at = "pull" /\ ch.queue = <<>>
    /\ Receives(t, IF ch.cap = 0 THEN "uncount" ELSE "empty") /\ UNCHANGED <<ch, snd, hist>>

\* mutant: a closed channel ends the receive, whatever its queue holds
OverClosed(t, again) ==
    /\ UNCHANGED snd
    /\ IF ch.closed THEN Receives(t, "idle") /\ hist' = [hist EXCEPT !.ended = TRUE]
       ELSE (Receives(t, again) \/ (rcv[t].timed /\ Receives(t, "idle"))) /\ UNCHANGED hist

\* the call ends, returns for its time, or goes round again
Over(t, again) ==
    /\ UNCHANGED snd
    /\ IF ch.closed /\ ch.queue = <<>> THEN Receives(t, "idle") /\ hist' = [hist EXCEPT !.ended = TRUE]
       ELSE (Receives(t, again) \/ (rcv[t].timed /\ Receives(t, "idle"))) /\ UNCHANGED hist

\* isClosedAndEmpty
Empty(t) == rcv[t].at = "empty" /\ Over(t, "pull") /\ UNCHANGED ch

\* mutant: a receiver that got nothing stays counted
UncountGot(t) ==
    /\ rcv[t].at = "uncount" /\ ch' = [ch EXCEPT !.waiters = IF rcv[t].got THEN @ - 1 ELSE @]
    /\ IF rcv[t].got THEN Receives(t, "give") /\ UNCHANGED <<snd, hist>> ELSE Over(t, "count")

Uncount(t) ==
    /\ rcv[t].at = "uncount" /\ ch' = [ch EXCEPT !.waiters = IF @ # 0 THEN @ - 1 ELSE 0]
    /\ IF rcv[t].got THEN Receives(t, "give") /\ UNCHANGED <<snd, hist>> ELSE Over(t, "count")

\* the semaphore is binary: a second acknowledgement is lost
Give(t) ==
    /\ rcv[t].at = "give" /\ ch' = [ch EXCEPT !.ack = TRUE]
    /\ Receives(t, "idle") /\ UNCHANGED <<snd, hist>>

Close == ~ch.closed /\ ch' = [ch EXCEPT !.closed = TRUE] /\ UNCHANGED <<snd, rcv, hist>>

Next ==
    \/ \E t \in Senders, timed \in BOOLEAN : Send(t, timed)
    \/ \E t \in Senders : \/ Turn(t) \/ Check(t) \/ Look(t) \/ Push(t) \/ PushMissed(t)
                          \/ TakeAck(t) \/ AckMissed(t) \/ Waited(t)
    \/ \E t \in Receivers, timed \in BOOLEAN : Recv(t, timed)
    \/ \E t \in Receivers : Count(t) \/ Pull(t) \/ PullMissed(t) \/ Empty(t) \/ Uncount(t) \/ Give(t)
    \/ Close

Spec == Init /\ [][Next]_vars

----------------------------------------------------------------------------
\* A send that returned ok was received, or lies in a buffered channel's queue;
\* an unbuffered one may have taken the acknowledgement of a value that its own
\* sender had given up before (lines 217, 262). A send that failed or timed out
\* left nothing behind, but for an unbuffered one that gave up a value it had
\* already put (220, 262).
SendsHonest ==
    /\ \A m \in hist.ok : \/ m \in hist.taken
                          \/ m \in ToSet(ch.queue) /\ (ch.cap # 0 \/ hist.deserted # {})
    /\ (hist.failed \cup hist.timedOut) \cap (hist.taken \cup ToSet(ch.queue)) \subseteq hist.deserted

\* A value its sender gave up is not lost: it has been received or will be.
DesertedIsThere == hist.deserted \subseteq hist.taken \cup ToSet(ch.queue)

\* A receiver is told that the channel has ended only when all that was put
\* before the close has been received. A sender that looked before the close and
\* put after it is not covered (145).
EndIsEnd == hist.ended => hist.early \subseteq hist.taken

\* The receivers an unbuffered sender counts on are those that look at the queue.
ReceiversCounted == ch.waiters = Cardinality({t \in Receivers : ch.cap = 0 /\ rcv[t].at \in {"pull", "uncount"}})
=============================================================================
