------------------------------ MODULE Channel ------------------------------
(***************************************************************************)
(* gstd/src/sync/Channel.zig: a typed channel, buffered (a ring of         *)
(* Capacity slots) or unbuffered (one slot handed from a sender to a       *)
(* receiver), on a mutex and two condition variables.                      *)
(*                                                                         *)
(* Every call runs under `mutex` except while it waits on a condition      *)
(* variable, so what it does between two waits is one action.  A message   *)
(* is the pair of its sender and the number of the sender's call.          *)
(***************************************************************************)
EXTENDS Integers, Sequences, FiniteSets, TLC

CONSTANTS
    Senders,
    Receivers,
    Capacity,   \* ring slots; 0: unbuffered
    None,
    MaxCalls    \* bound: calls each thread makes

Threads  == Senders \cup Receivers
Msgs     == Senders \X (1..MaxCalls)
Buffered == Capacity > 0

ASSUME ChannelAssumption ==
    /\ IsFiniteSet(Senders)
    /\ IsFiniteSet(Receivers)
    /\ Senders \cap Receivers = {}
    /\ None \notin Threads \cup Msgs
    /\ Capacity \in Nat
    /\ MaxCalls \in Nat

VARIABLES
    ring, head, tail, len,  \* the buffer
    slot, slotFull,         \* the hand-over of an unbuffered channel
    closed,
    sendMutex,              \* the holder of send_mutex
    phase,      \* [Threads -> where the thread's call is]
    timed,      \* threads whose call has a timeout
    late,       \* threads whose deadline has passed
    asleep,     \* threads waiting on can_send (senders), can_recv (receivers)
    expired,    \* threads whose timed wait has run out, not yet back in mutex
    calls,      \* [Threads -> calls made]
    got,        \* history: the values received, in the order of the receives
    acked,      \* history: messages whose send returned ok
    failed      \* history: messages whose send returned not ok or Timeout

bufferVars  == <<ring, head, tail, len>>
slotVars    == <<slot, slotFull>>
historyVars == <<got, acked, failed>>
vars == <<bufferVars, slotVars, closed, sendMutex, phase, timed, late, asleep,
          expired, calls, historyVars>>

Init ==
    /\ ring = [i \in 0..(Capacity - 1) |-> None]
    /\ head = 0 /\ tail = 0 /\ len = 0
    /\ slot = None /\ slotFull = FALSE
    /\ closed = FALSE
    /\ sendMutex = None
    /\ phase = [t \in Threads |-> "idle"]
    /\ timed = {} /\ late = {} /\ asleep = {} /\ expired = {}
    /\ calls = [t \in Threads |-> 0]
    /\ got = <<>> /\ acked = {} /\ failed = {}

(***************************************************************************)
(* Waiting and waking.                                                     *)
(***************************************************************************)
Msg(s)    == <<s, calls[s]>>
Runs(t)   == phase[t] # "idle" /\ phase[t] # "lock" /\ t \notin asleep
\* the thread has the mutex and evaluates its loop condition
Checks(t) == Runs(t) /\ t \notin expired

Items == IF Buffered THEN len ELSE IF slotFull THEN 1 ELSE 0

\* the conditions of the four wait loops
MustWait(t) ==
    /\ ~closed
    /\ CASE phase[t] = "recv"   -> Items = 0
         [] phase[t] = "send"   -> IF Buffered THEN len = Capacity ELSE slotFull
         [] phase[t] = "handed" -> slotFull
         [] OTHER -> FALSE

\* mutant: a signal reaches nobody
WakeNobody(side) == {asleep}

\* condition.signal: one waiter wakes up, if there is one
WakeOne(side) ==
    IF asleep \cap side = {} THEN {asleep} ELSE {asleep \ {t} : t \in asleep \cap side}
Signal(side) == asleep' \in WakeOne(side)

\* the call returns
Return(t) ==
    /\ phase' = [phase EXCEPT ![t] = "idle"]
    /\ expired' = expired \ {t}
    /\ timed' = timed \ {t}
    /\ late' = late \ {t}
    /\ sendMutex' = IF sendMutex = t THEN None ELSE sendMutex

Resume == UNCHANGED <<phase, expired, timed, late, sendMutex>>

\* mutant: the deadline is computed anew before each wait
SleepRestarting(t) ==
    /\ Checks(t) /\ MustWait(t)
    /\ asleep' = asleep \cup {t}
    /\ late' = late \ {t}
    /\ UNCHANGED <<bufferVars, slotVars, closed, calls, historyVars>>
    /\ UNCHANGED <<phase, expired, timed, sendMutex>>

\* waitForSend / waitForRecv with time left
Sleep(t) ==
    /\ Checks(t) /\ MustWait(t) /\ t \notin late
    /\ asleep' = asleep \cup {t}
    /\ UNCHANGED <<bufferVars, slotVars, closed, calls, historyVars>> /\ Resume

\* The deadline (makeDeadline) passes.  It is computed under `mutex`, for an
\* unbuffered send after its wait for send_mutex.
PassDeadline(t) ==
    /\ t \in timed \ late
    /\ phase[t] # "lock"
    /\ late' = late \cup {t}
    /\ UNCHANGED <<bufferVars, slotVars, closed, sendMutex, phase, timed, asleep,
                   expired, calls, historyVars>>

\* timedWait gives up; a signal sent from now on goes to another waiter
Expire(t) ==
    /\ t \in asleep \cap late
    /\ asleep' = asleep \ {t}
    /\ expired' = expired \cup {t}
    /\ UNCHANGED <<bufferVars, slotVars, closed, sendMutex, phase, timed, late, calls,
                   historyVars>>

\* a condition variable may wake a waiter without a signal
WakeSpuriously(t) ==
    /\ t \in asleep
    /\ asleep' = asleep \ {t}
    /\ UNCHANGED <<bufferVars, slotVars, closed, calls, historyVars>> /\ Resume

\* the wait reports Timeout, or there is no time left to wait
TimeOut(t) ==
    /\ Runs(t)
    /\ t \in expired \/ (t \in late /\ MustWait(t))
    /\ slotFull' = (slotFull /\ phase[t] # "handed")
    /\ failed' = IF t \in Senders THEN failed \cup {Msg(t)} ELSE failed
    /\ Return(t)
    /\ UNCHANGED <<bufferVars, slot, closed, asleep, calls, got, acked>>

(***************************************************************************)
(* Calls.                                                                  *)
(***************************************************************************)
Call(t, withDeadline, start) ==
    /\ phase[t] = "idle"
    /\ calls[t] < MaxCalls
    /\ calls' = [calls EXCEPT ![t] = @ + 1]
    /\ timed' = IF withDeadline THEN timed \cup {t} ELSE timed
    /\ phase' = [phase EXCEPT ![t] = start]
    /\ UNCHANGED <<bufferVars, slotVars, closed, sendMutex, late, asleep, expired, historyVars>>

\* send, sendTimeout; recv, recvTimeout
CallSend(t) == \E d \in BOOLEAN : Call(t, d, IF Buffered THEN "send" ELSE "lock")
CallRecv(t) == \E d \in BOOLEAN : Call(t, d, "recv")

\* unbuffered senders take turns
LockSend(t) ==
    /\ phase[t] = "lock"
    /\ sendMutex = None
    /\ sendMutex' = t
    /\ phase' = [phase EXCEPT ![t] = "send"]
    /\ UNCHANGED <<bufferVars, slotVars, closed, timed, late, asleep, expired, calls,
                   historyVars>>

\* mutant: a sender woken once does not look again
PushUnchecked(t) ==
    /\ Checks(t) /\ phase[t] = "send" /\ Buffered /\ ~closed
    /\ ring' = [ring EXCEPT ![tail] = Msg(t)]
    /\ tail' = (tail + 1) % Capacity
    /\ len' = len + 1
    /\ Signal(Receivers)
    /\ acked' = acked \cup {Msg(t)}
    /\ Return(t)
    /\ UNCHANGED <<head, slotVars, closed, calls, got, failed>>

\* mutant: the value is stored before the channel is found closed
PushThenCheck(t) ==
    /\ Checks(t) /\ phase[t] = "send" /\ Buffered /\ len < Capacity
    /\ ring' = [ring EXCEPT ![tail] = Msg(t)]
    /\ tail' = (tail + 1) % Capacity
    /\ len' = len + 1
    /\ Signal(Receivers)
    /\ acked' = IF closed THEN acked ELSE acked \cup {Msg(t)}
    /\ failed' = IF closed THEN failed \cup {Msg(t)} ELSE failed
    /\ Return(t)
    /\ UNCHANGED <<head, slotVars, closed, calls, got>>

\* sendBuffered: append to the ring
Push(t) ==
    /\ Checks(t) /\ phase[t] = "send" /\ Buffered /\ ~closed /\ ~MustWait(t)
    /\ ring' = [ring EXCEPT ![tail] = Msg(t)]
    /\ tail' = (tail + 1) % Capacity
    /\ len' = len + 1
    /\ Signal(Receivers)
    /\ acked' = acked \cup {Msg(t)}
    /\ Return(t)
    /\ UNCHANGED <<head, slotVars, closed, calls, got, failed>>

\* sendUnbuffered: fill the slot and go to wait for it to be emptied; a call
\* without time left takes its value back in the same critical section
Offer(t) ==
    /\ Checks(t) /\ phase[t] = "send" /\ ~Buffered /\ ~closed /\ ~MustWait(t)
    /\ slot' = Msg(t)
    /\ \/ /\ t \notin late
          /\ slotFull' = TRUE
          /\ phase' = [phase EXCEPT ![t] = "handed"]
          /\ \E a \in WakeOne(Receivers) : asleep' = a \cup {t}
          /\ UNCHANGED <<sendMutex, timed, late, expired, failed>>
       \/ /\ t \in late
          /\ slotFull' = FALSE
          /\ Signal(Receivers)
          /\ failed' = failed \cup {Msg(t)}
          /\ Return(t)
    /\ UNCHANGED <<bufferVars, closed, calls, got, acked>>

\* mutant: woken up means delivered
HandedTrusting(t) ==
    /\ Checks(t) /\ phase[t] = "handed" /\ ~closed
    /\ acked' = acked \cup {Msg(t)}
    /\ Return(t)
    /\ UNCHANGED <<bufferVars, slotVars, closed, asleep, calls, got, failed>>

\* sendUnbuffered: the slot has been emptied
Handed(t) ==
    /\ Checks(t) /\ phase[t] = "handed" /\ ~closed /\ ~MustWait(t)
    /\ acked' = acked \cup {Msg(t)}
    /\ Return(t)
    /\ UNCHANGED <<bufferVars, slotVars, closed, asleep, calls, got, failed>>

\* either kind of send finds the channel closed
SendClosed(t) ==
    /\ Checks(t) /\ phase[t] \in {"send", "handed"} /\ closed
    /\ failed' = failed \cup {Msg(t)}
    /\ Return(t)
    /\ UNCHANGED <<bufferVars, slotVars, closed, asleep, calls, got, acked>>

\* mutant: the newest item first
TakeNewest(t) ==
    /\ Checks(t) /\ phase[t] = "recv" /\ Buffered /\ len > 0
    /\ got' = Append(got, ring[(tail + Capacity - 1) % Capacity])
    /\ tail' = (tail + Capacity - 1) % Capacity
    /\ len' = len - 1
    /\ Signal(Senders)
    /\ Return(t)
    /\ UNCHANGED <<ring, head, slotVars, closed, calls, acked, failed>>

\* recvBuffered: the oldest item of the ring, also when the channel is closed
Take(t) ==
    /\ Checks(t) /\ phase[t] = "recv" /\ Buffered /\ len > 0
    /\ got' = Append(got, ring[head])
    /\ head' = (head + 1) % Capacity
    /\ len' = len - 1
    /\ Signal(Senders)
    /\ Return(t)
    /\ UNCHANGED <<ring, tail, slotVars, closed, calls, acked, failed>>

\* mutant: the slot is not emptied
PickKeeping(t) ==
    /\ Checks(t) /\ phase[t] = "recv" /\ ~Buffered /\ slotFull
    /\ got' = Append(got, slot)
    /\ Signal(Senders)
    /\ Return(t)
    /\ UNCHANGED <<bufferVars, slotVars, closed, calls, acked, failed>>

\* recvUnbuffered: empty the slot
Pick(t) ==
    /\ Checks(t) /\ phase[t] = "recv" /\ ~Buffered /\ slotFull
    /\ got' = Append(got, slot)
    /\ slotFull' = FALSE
    /\ Signal(Senders)
    /\ Return(t)
    /\ UNCHANGED <<bufferVars, slot, closed, calls, acked, failed>>

\* either kind of recv finds the channel closed and empty
RecvClosed(t) ==
    /\ Checks(t) /\ phase[t] = "recv" /\ closed /\ Items = 0
    /\ Return(t)
    /\ UNCHANGED <<bufferVars, slotVars, closed, asleep, calls, historyVars>>

\* mutant: close signals instead of broadcasting
CloseSignalling ==
    /\ ~closed
    /\ closed' = TRUE
    /\ slotFull' = FALSE
    /\ Signal(Receivers)
    /\ UNCHANGED <<bufferVars, slot, calls, historyVars>> /\ Resume

Close ==
    /\ ~closed
    /\ closed' = TRUE
    /\ slotFull' = FALSE
    /\ asleep' = {}
    /\ UNCHANGED <<bufferVars, slot, calls, historyVars>> /\ Resume

(***************************************************************************)
(* The specification.                                                      *)
(***************************************************************************)
SendStep(t) == LockSend(t) \/ Push(t) \/ Offer(t) \/ Handed(t) \/ SendClosed(t)
RecvStep(t) == Take(t) \/ Pick(t) \/ RecvClosed(t)
WaitStep(t) == Sleep(t) \/ TimeOut(t)
Step(t)     == WaitStep(t) \/ (t \in Senders /\ SendStep(t)) \/ (t \in Receivers /\ RecvStep(t))

\* every thread has returned from its last call: nothing is left to do
Done ==
    /\ closed
    /\ \A t \in Threads : phase[t] = "idle" /\ calls[t] = MaxCalls
    /\ UNCHANGED vars

Next ==
    \/ \E t \in Threads : Step(t) \/ PassDeadline(t) \/ Expire(t) \/ WakeSpuriously(t)
    \/ \E t \in Senders : CallSend(t)
    \/ \E t \in Receivers : CallRecv(t)
    \/ Close
    \/ Done

Spec == Init /\ [][Next]_vars

\* A thread that can go on does so; clocks advance.  Nobody has to call, to
\* close or to be woken without a signal.
FairSpec ==
    /\ Spec
    /\ \A t \in Threads : WF_vars(Step(t)) /\ WF_vars(PassDeadline(t)) /\ WF_vars(Expire(t))

(***************************************************************************)
(* Properties.                                                             *)
(***************************************************************************)
Phases == {"idle", "lock", "send", "handed", "recv"}

\* Every variable has its type; a sender is never in a receive and vice versa.
TypeOK ==
    /\ ring \in [0..(Capacity - 1) -> Msgs \cup {None}]
    /\ head \in Nat /\ tail \in Nat /\ len \in 0..Capacity
    /\ slot \in Msgs \cup {None} /\ slotFull \in BOOLEAN
    /\ closed \in BOOLEAN
    /\ sendMutex \in Senders \cup {None}
    /\ phase \in [Threads -> Phases]
    /\ \A t \in Threads : phase[t] = "recv" => t \in Receivers
    /\ \A t \in Threads : phase[t] \in {"lock", "send", "handed"} => t \in Senders
    /\ timed \subseteq Threads /\ late \subseteq timed /\ expired \subseteq late
    /\ asleep \subseteq Threads
    /\ calls \in [Threads -> 0..MaxCalls]
    /\ got \in Seq(Msgs) /\ acked \subseteq Msgs /\ failed \subseteq Msgs

\* what the channel holds, oldest first
Contents ==
    IF Buffered THEN [i \in 1..len |-> ring[(head + i - 1) % Capacity]]
    ELSE IF slotFull THEN <<slot>> ELSE <<>>

Abstract == INSTANCE ChannelQueue WITH
    Messages <- Msgs, Buffer <- Capacity, queue <- Contents, taken <- got

\* The ring, its indices and the slot implement the bounded FIFO queue: values
\* are received in the order they were accepted, none twice, none lost, none
\* accepted after close, and close keeps what is buffered (lines 112-203).
ImplementsQueue == Abstract!QSpec

\* No receiver sleeps while an item is there for it: as long as one sleeps, as
\* many receivers as there are items are awake and will look (the signal at 128
\* and 169 is enough, also when a wakeup is stolen by a receiver that just came
\* in, or when the woken receiver's own deadline has passed).
AwakeReceivers == {r \in Receivers : phase[r] = "recv" /\ r \notin asleep /\ r \notin expired}
WakeupsCoverItems ==
    asleep \cap Receivers # {} => Cardinality(AwakeReceivers) >= Items

\* The same for senders and free ring slots (the signal at 148); an unbuffered
\* sender sleeps only while its own value lies in the slot (line 201).
AwakeSenders == {s \in Senders : phase[s] = "send" /\ s \notin asleep /\ s \notin expired}
WakeupsCoverSpace ==
    IF Buffered
    THEN asleep \cap Senders # {} => Cardinality(AwakeSenders) >= Capacity - len
    ELSE \A s \in asleep \cap Senders : phase[s] = "handed" /\ slotFull /\ slot = Msg(s)

\* An unbuffered send that returned ok was received; a buffered one was
\* received or is in the ring, even after close (lines 129 and 183).
AckedIsDelivered ==
    \A m \in acked : \/ \E i \in DOMAIN got : got[i] = m
                     \/ Buffered /\ \E i \in DOMAIN Contents : Contents[i] = m

\* "its behaviour agrees with Go's channel semantics": a send that reported
\* failure has not been received.
FailedNotDelivered == \A m \in failed : \A i \in DOMAIN got : got[i] # m

\* Close lets every call return, whoever waits and on whichever side.
CloseReleasesAll == closed ~> \A t \in Threads : phase[t] = "idle"

\* A receiver does not wait for ever beside an item.
NoStrandedReceiver ==
    \A r \in Receivers : (phase[r] = "recv" /\ Items > 0) ~> (phase[r] # "recv" \/ Items = 0)

\* A call with a timeout returns, whatever the other side does, once an unbuffered
\* send has its turn: its wait for send_mutex (line 153) knows no deadline.
TimedCallReturns == \A t \in Threads : (t \in timed /\ phase[t] # "lock") ~> (t \notin timed)

----------------------------------------------------------------------------
\* no call prefers one task to another: for the runs without liveness
Symmetry == Permutations(Senders) \cup Permutations(Receivers)
=============================================================================
