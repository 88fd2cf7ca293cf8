---------------------------- MODULE ChannelQueue ----------------------------
(***************************************************************************)
(* What a channel promises to its users: a bounded first-in first-out      *)
(* queue of messages that can be closed.  Messages are taken in the order  *)
(* in which they were put, each once.  Closing stops the puts; what is     *)
(* buffered may still be taken, while the pending message of an unbuffered *)
(* channel is dropped.  Only an unbuffered send can withdraw its message.  *)
(***************************************************************************)
EXTENDS Naturals, Sequences

CONSTANTS
    Messages,   \* what may be sent
    Buffer      \* the capacity given to make; 0: unbuffered

Bound == IF Buffer = 0 THEN 1 ELSE Buffer

VARIABLES
    queue,      \* messages put and not taken
    taken,      \* messages received so far, in the order of the receives
    closed

qvars == <<queue, taken, closed>>

QInit ==
    /\ queue = <<>>
    /\ taken = <<>>
    /\ closed = FALSE

Put(m) ==
    /\ ~closed
    /\ Len(queue) < Bound
    /\ queue' = Append(queue, m)
    /\ UNCHANGED <<taken, closed>>

Take ==
    /\ queue # <<>>
    /\ taken' = Append(taken, Head(queue))
    /\ queue' = Tail(queue)
    /\ UNCHANGED closed

Withdraw ==
    /\ Buffer = 0
    /\ queue # <<>>
    /\ queue' = <<>>
    /\ UNCHANGED <<taken, closed>>

Close ==
    /\ closed' = TRUE
    /\ queue' = IF Buffer = 0 THEN <<>> ELSE queue
    /\ UNCHANGED taken

QNext == (\E m \in Messages : Put(m)) \/ Take \/ Withdraw \/ Close

QSpec == QInit /\ [][QNext]_qvars
=============================================================================
