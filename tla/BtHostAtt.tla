-------------------------------- MODULE BtHostAtt --------------------------------
(* Attribute requests and their packets in the Bluetooth host, Hci.zig of          *)
(* embed/lib/bt/host: callers and the receive task share the controller's buffers  *)
(* by credits, each role has one slot for a response, and the only task that       *)
(* brings credits and responses is the one that receives.                          *)
EXTENDS Naturals, Sequences, FiniteSets

CONSTANTS Callers, Roles,
          Ops,                          \* of requests; a response names its request's
          Total,                        \* the controller's buffers
          MaxRequests, MaxUnasked        \* bounds

VARIABLES host,   \* credits, the roles whose link is up, requests so far
          slot,   \* the response slot of each role
          caller, \* where each caller is, with its request
          recv,   \* where the receive task is
          ctrl,   \* the controller: links, packets in its buffers, events for the host
          peer,   \* the other side of each link: requests it has yet to answer
          mixed,  \* requests whose slot was used by another, or owed an answer of the same kind
          off     \* credits given twice, and credits lost
vars == <<host, slot, caller, recv, ctrl, peer, mixed, off>>

NoRequest == [n |-> 0, role |-> "", op |-> ""]
AttTypeOK ==
    /\ host.credits \in 0..Total /\ host.up \subseteq Roles
    /\ slot \in [Roles -> [waiting : BOOLEAN, ready : BOOLEAN, op : Ops \cup {""}, answer : 0..MaxRequests]]
    /\ \A c \in Callers : caller[c].pc \in {"idle", "acquires", "writes", "waits"}
    /\ recv.pc \in {"reads", "acquires", "writes"}

Init ==
    /\ host = [credits |-> Total, up |-> Roles, n |-> 0]
    /\ slot = [r \in Roles |-> [waiting |-> FALSE, ready |-> FALSE, op |-> "", answer |-> 0]]
    /\ caller = [c \in Callers |-> [pc |-> "idle", req |-> NoRequest, got |-> 0]]
    /\ recv = [pc |-> "reads", role |-> ""]
    /\ ctrl = [up |-> Roles, held |-> <<>>, events |-> <<>>, unasked |-> 0]
    /\ peer = [r \in Roles |-> <<>>] /\ mixed = {} /\ off = [twice |-> 0, lost |-> 0]

Plus(a, b) == IF a + b > Total THEN Total ELSE a + b
Goes(c, pc) == caller' = [caller EXCEPT ![c].pc = pc]
\* who has a credit in hand and has not written yet
InHand == Cardinality({c \in Callers : caller[c].pc = "writes"}) + (IF recv.pc = "writes" THEN 1 ELSE 0)
Due    == Len(SelectSeq(ctrl.events, LAMBDA e : e.k = "done"))
Event(k, r, q) == [k |-> k, role |-> r, req |-> q]

----------------------------------------------------------------------------
(* sendAttRequest.                                                          *)
\* requests that the slot of this role is used for, or that were given up
\* without an answer that may still come
Unfinished(r) == {c \in Callers : caller[c].pc # "idle" /\ caller[c].req.role = r}
Owed(r, op) ==
    \/ \E i \in DOMAIN peer[r] : peer[r][i].op = op
    \/ \E i \in DOMAIN ctrl.held : ctrl.held[i].role = r /\ ctrl.held[i].op = op
    \/ \E i \in DOMAIN ctrl.events : LET e == ctrl.events[i] IN e.k = "answer" /\ e.role = r /\ e.req.op = op

\* idle callers are interchangeable, and roles and kinds are as long as nothing
\* has happened on them
Begins(c) == /\ caller[c].pc = "idle" /\ host.n < MaxRequests
             /\ c = CHOOSE d \in Callers : caller[d].pc = "idle"
Choices(S) == IF host.n + ctrl.unasked = 0 THEN {CHOOSE x \in S : TRUE} ELSE S

\* mutant: a response that is still there is left for the next request
RequestUncleared(c) ==
    /\ Begins(c) /\ UNCHANGED <<recv, ctrl, peer, off>>
    /\ \E r \in Choices(host.up), op \in Choices(Ops) :
         LET q == [n |-> host.n + 1, role |-> r, op |-> op] IN
         /\ slot' = [slot EXCEPT ![r].waiting = TRUE, ![r].op = op]
         /\ host' = [host EXCEPT !.n = @ + 1] /\ caller' = [caller EXCEPT ![c] = [pc |-> "acquires", req |-> q, got |-> 0]]
         /\ mixed' = mixed \cup {caller[d].req.n : d \in Unfinished(r)}
                       \cup (IF Unfinished(r) # {} \/ Owed(r, op) THEN {q.n} ELSE {})

Request(c) ==
    /\ Begins(c) /\ UNCHANGED <<recv, ctrl, peer, off>>
    /\ \E r \in Choices(host.up), op \in Choices(Ops) :
         LET q == [n |-> host.n + 1, role |-> r, op |-> op] IN
         /\ slot' = [slot EXCEPT ![r] = [@ EXCEPT !.waiting = TRUE, !.ready = FALSE, !.op = op]]
         /\ host' = [host EXCEPT !.n = @ + 1] /\ caller' = [caller EXCEPT ![c] = [pc |-> "acquires", req |-> q, got |-> 0]]
         /\ mixed' = mixed \cup {caller[d].req.n : d \in Unfinished(r)}
                       \cup (IF Unfinished(r) # {} \/ Owed(r, op) THEN {q.n} ELSE {})

\* acquireAclCredit: a credit, or the error, or a second without one
Acquire(c) ==
    /\ caller[c].pc = "acquires" /\ UNCHANGED <<recv, ctrl, peer, mixed, off>>
    /\ \/ /\ host.credits > 0 /\ host' = [host EXCEPT !.credits = @ - 1]
          /\ Goes(c, "writes") /\ UNCHANGED slot
       \/ Goes(c, "idle") /\ slot' = [slot EXCEPT ![caller[c].req.role].waiting = FALSE] /\ UNCHANGED host

\* the controller takes the packet; it drops one whose link is down, and does not
\* report it
Sent(q) ==
    IF q.role \in ctrl.up
    THEN ctrl' = [ctrl EXCEPT !.held = Append(@, q)] /\ UNCHANGED off
    ELSE UNCHANGED ctrl /\ off' = [off EXCEPT !.lost = @ + 1]

\* mutant: a write that fails keeps its credit
WriteKeeping(c) ==
    /\ caller[c].pc = "writes" /\ UNCHANGED <<host, recv, peer, mixed>>
    /\ \/ Sent(caller[c].req) /\ Goes(c, "waits") /\ UNCHANGED slot
       \/ Goes(c, "idle") /\ slot' = [slot EXCEPT ![caller[c].req.role].waiting = FALSE] /\ UNCHANGED <<ctrl, off>>

Write(c) ==
    /\ caller[c].pc = "writes" /\ UNCHANGED <<recv, peer, mixed>>
    /\ \/ Sent(caller[c].req) /\ Goes(c, "waits") /\ UNCHANGED <<host, slot>>
       \/ /\ host' = [host EXCEPT !.credits = Plus(@, 1)] /\ Goes(c, "idle") /\ UNCHANGED <<ctrl, off>>
          /\ slot' = [slot EXCEPT ![caller[c].req.role].waiting = FALSE]

\* a response, or an error, the end of the link, or the end of the time
Finish(c) ==
    LET r == caller[c].req.role IN
    /\ caller[c].pc = "waits" /\ UNCHANGED <<host, recv, ctrl, peer, mixed, off>>
    /\ \/ /\ slot[r].ready /\ caller' = [caller EXCEPT ![c].pc = "idle", ![c].got = slot[r].answer]
          /\ slot' = [slot EXCEPT ![r] = [@ EXCEPT !.ready = FALSE, !.waiting = FALSE]]
       \* the time may end when the response has just come
       \/ Goes(c, "idle") /\ slot' = [slot EXCEPT ![r].waiting = FALSE]

----------------------------------------------------------------------------
(* The receive task.                                                        *)
\* mutant: any response will do
AcceptAny(e) == slot[e.role].waiting

\* whoever waits in the slot, for a response of this kind
Accept(e) == slot[e.role].waiting /\ slot[e.role].op = e.req.op

\* all credits come back, those of packets on other links and in hand a second time
Refill(r) ==
    /\ host' = [host EXCEPT !.credits = Total, !.up = @ \ {r}]
    /\ off' = [twice |-> InHand + Len(ctrl.held) + Due, lost |-> 0]

Receive ==
    /\ recv.pc = "reads" /\ ctrl.events # <<>> /\ UNCHANGED <<caller, peer, mixed>>
    /\ ctrl' = [ctrl EXCEPT !.events = Tail(@)]
    /\ LET e == Head(ctrl.events) IN
       \/ /\ e.k = "done" /\ host' = [host EXCEPT !.credits = Plus(@, 1)] /\ UNCHANGED <<slot, recv, off>>
       \/ e.k = "down" /\ Refill(e.role) /\ UNCHANGED <<slot, recv>>
       \/ e.k = "up" /\ host' = [host EXCEPT !.up = @ \cup {e.role}] /\ UNCHANGED <<slot, recv, off>>
       \/ /\ e.k = "answer" /\ UNCHANGED <<host, recv, off>>
          /\ slot' = IF e.role \in host.up /\ Accept(e)
                     THEN [slot EXCEPT ![e.role] = [@ EXCEPT !.answer = e.req.n, !.ready = TRUE, !.waiting = FALSE]] ELSE slot
       \/ /\ e.k = "indication" /\ UNCHANGED <<host, slot, off>>
          /\ recv' = IF e.role \in host.up THEN [pc |-> "acquires", role |-> e.role] ELSE recv

\* the confirmation takes a credit that only this task can bring: without one it
\* is given up after a second
Confirm ==
    /\ recv.pc = "acquires" /\ UNCHANGED <<slot, caller, ctrl, peer, mixed, off>>
    /\ \/ host.credits > 0 /\ host' = [host EXCEPT !.credits = @ - 1] /\ recv' = [recv EXCEPT !.pc = "writes"]
       \/ recv' = [recv EXCEPT !.pc = "reads"] /\ UNCHANGED host

ConfirmWrite ==
    /\ recv.pc = "writes" /\ recv' = [recv EXCEPT !.pc = "reads"] /\ UNCHANGED <<slot, caller, peer, mixed>>
    /\ \/ Sent([NoRequest EXCEPT !.role = recv.role]) /\ UNCHANGED host
       \/ host' = [host EXCEPT !.credits = Plus(@, 1)] /\ UNCHANGED <<ctrl, off>>

----------------------------------------------------------------------------
(* The controller and the peers (external).                                 *)
Transmit ==
    /\ ctrl.held # <<>> /\ UNCHANGED <<host, slot, caller, recv, mixed, off>>
    /\ LET q == Head(ctrl.held) IN
       /\ ctrl' = [ctrl EXCEPT !.held = Tail(@), !.events = Append(@, Event("done", q.role, NoRequest))]
       /\ peer' = IF q.n = 0 THEN peer ELSE [peer EXCEPT ![q.role] = Append(@, q)]

Answer(r) ==
    /\ peer[r] # <<>> /\ r \in ctrl.up /\ UNCHANGED <<host, slot, caller, recv, mixed, off>>
    /\ peer' = [peer EXCEPT ![r] = Tail(@)]
    /\ ctrl' = [ctrl EXCEPT !.events = Append(@, Event("answer", r, Head(peer[r])))]

Indicate(r) ==
    /\ r \in ctrl.up /\ ctrl.unasked < MaxUnasked
    /\ ctrl' = [ctrl EXCEPT !.events = Append(@, Event("indication", r, NoRequest)), !.unasked = @ + 1]
    /\ UNCHANGED <<host, slot, caller, recv, peer, mixed, off>>

\* the packets of the link are gone without a word
LinkDown(r) ==
    /\ r \in ctrl.up /\ ctrl.unasked < MaxUnasked /\ peer' = [peer EXCEPT ![r] = <<>>]
    /\ ctrl' = [ctrl EXCEPT !.up = @ \ {r}, !.unasked = @ + 1, !.held = SelectSeq(@, LAMBDA q : q.role # r),
                            !.events = Append(@, Event("down", r, NoRequest))]
    /\ UNCHANGED <<host, slot, caller, recv, mixed, off>>

LinkUp(r) ==
    /\ r \notin ctrl.up /\ ctrl' = [ctrl EXCEPT !.up = @ \cup {r}, !.events = Append(@, Event("up", r, NoRequest))]
    /\ UNCHANGED <<host, slot, caller, recv, peer, mixed, off>>

Next == \/ Receive \/ Confirm \/ ConfirmWrite \/ Transmit
        \/ \E c \in Callers : Request(c) \/ Acquire(c) \/ Write(c) \/ Finish(c)
        \/ \E r \in Roles : Answer(r) \/ Indicate(r) \/ LinkDown(r) \/ LinkUp(r)

Spec == Init /\ [][Next]_vars

----------------------------------------------------------------------------
\* What a request returns is the answer to it, unless another used its slot at the
\* same time (line 292), or an earlier one that was given up is still owed an
\* answer of the same kind, which comes late.
AnswersMatch ==
    \A c \in Callers : caller[c].got # 0 => caller[c].got = caller[c].req.n \/ caller[c].req.n \in mixed

\* Whoever waits for a response is in its slot, or the response is, unless another
\* has used the slot.
WaitersListed ==
    \A c \in Callers :
        LET q == caller[c].req IN
        caller[c].pc = "waits" /\ q.n \notin mixed =>
            /\ slot[q.role].op = q.op /\ (slot[q.role].waiting \/ slot[q.role].ready)
            /\ slot[q.role].ready => slot[q.role].answer = q.n

\* Every credit is with the host, a sender, the controller or on its way back, but
\* for those of packets written after the end of their link was heard of (line
\* 276 does not look): only the end of another link brings them back.
CreditsKept ==
    (\A i \in DOMAIN ctrl.events : ctrl.events[i].k # "down") =>
        host.credits + InHand + Len(ctrl.held) + Due >= Total - off.lost

\* The controller is not given more packets than it has buffers, but for those
\* that the end of a link allows for although others are held (line 432).
PacketsFit == InHand + Len(ctrl.held) + host.credits <= Total + off.twice
=============================================================================
