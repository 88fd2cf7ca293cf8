---------------------------- MODULE CmuxSession ----------------------------
(***************************************************************************)
(* glib/lib/net/cmux/Session.zig, Conn.zig and Cmux.zig: two peers that    *)
(* multiplex channels over one bearer.                                     *)
(*                                                                         *)
(* Each side has a session, a worker thread that handles the frames of the *)
(* peer, and client threads that dial, accept, read, write and close.  A   *)
(* critical section of the session's or of a channel's mutex blocks on     *)
(* nothing and is one step; sending a frame is a step of its own, and the  *)
(* bearer may be full.  A side is also the name of its worker.  Every      *)
(* allocation is a new channel; the memory is gone when its count is 0.    *)
(***************************************************************************)
EXTENDS Integers, Sequences, FiniteSets

CONSTANTS
    Clients,    \* client threads
    HomeOf,     \* [Clients -> Sides]
    May,        \* bound: [Clients -> what its first, its second, ... call may be]
    Dlcis,      \* the channel numbers in use; 0 is the control channel
    MaxQueue,   \* Options.max_accept_queue
    RxCap,      \* Options.read_buffer_size, in writes
    BearerCap,  \* frames the bearer holds in one direction
    Faults,     \* <<side, "read" or "write">>: where an open bearer may fail
    None,
    MaxFaults,  \* bound: failures of open bearers
    MaxDials    \* bound: dials of both sides

Sides   == {"initiator", "responder"}
Threads == Clients \cup Sides
AllCalls == {"dial", "accept", "read", "write", "close", "deinit", "shutdown", "destroy"}

ASSUME CmuxAssumption ==
    /\ IsFiniteSet(Clients) /\ Clients \cap Sides = {}
    /\ HomeOf \in [Clients -> Sides]
    /\ May \in [Clients -> Seq(SUBSET AllCalls)]
    /\ 0 \notin Dlcis
    /\ MaxQueue \in Nat \ {0} /\ RxCap \in Nat \ {0} /\ BearerCap \in Nat \ {0}
    /\ Faults \subseteq Sides \X {"read", "write"} /\ MaxFaults \in Nat
    /\ MaxDials \in Nat

VARIABLES
    closed,     \* [Sides -> BOOLEAN]: beginClose has run
    ready,      \* [Sides -> BOOLEAN]: the control channel is up
    table,      \* [Sides -> [Dlcis -> channel, 0 if none]]
    queue,      \* [Sides -> accept_queue]
    chan,       \* the channels allocated so far
    wire,       \* [Sides -> frames sent and not yet read]
    shut,       \* [Sides -> BOOLEAN]: the side has closed the bearer
    faults,     \* failures of open bearers: the channel whose DISC was lost, or 0
    alive,      \* [Sides -> BOOLEAN]: deinit has not been called
    work,       \* [Threads -> where the thread is, and with what]
    asleep,     \* threads waiting on a condition variable
    dials,      \* dials begun
    calls       \* [Clients -> calls made]

sessionVars == <<closed, ready, table, queue>>
bearerVars  == <<wire, shut, faults>>
countVars   == <<dials, calls>>
vars == <<sessionVars, chan, bearerVars, alive, work, asleep, countVars>>

Peer(s) == CHOOSE p \in Sides : p # s
Home(t) == IF t \in Sides THEN t ELSE HomeOf[t]
Channels == DOMAIN chan

Frame(type, d, tag) == [type |-> type, dlci |-> d, tag |-> tag]
Idle == [at |-> "idle", ch |-> 0, dlci |-> 0, frame |-> None, then |-> "idle"]

\* the session handshake begins with the initiator's SABM on DLCI 0
Init ==
    /\ closed = [s \in Sides |-> FALSE]
    /\ ready = [s \in Sides |-> FALSE]
    /\ table = [s \in Sides |-> [d \in Dlcis |-> 0]]
    /\ queue = [s \in Sides |-> <<>>]
    /\ chan = <<>>
    /\ wire = [s \in Sides |-> IF s = "initiator" THEN <<Frame("sabm", 0, 0)>> ELSE <<>>]
    /\ shut = [s \in Sides |-> FALSE]
    /\ faults = <<>>
    /\ alive = [s \in Sides |-> TRUE]
    /\ work = [t \in Threads |-> IF t \in Sides THEN [Idle EXCEPT !.at = "listen"] ELSE Idle]
    /\ asleep = {}
    /\ dials = 0
    /\ calls = [t \in Clients |-> 0]

(***************************************************************************)
(* Threads, waiting and waking.                                            *)
(***************************************************************************)
At(t, l) == work[t].at = l /\ t \notin asleep
Holds(t) == chan[work[t].ch]
Goto(t, l) == work' = [work EXCEPT ![t] =
    CASE l = "idle" -> Idle
      [] l = "listen" -> [Idle EXCEPT !.at = "listen"]
      [] OTHER -> [work[t] EXCEPT !.at = l]]

\* mutant: nobody is woken who waits on accept_cond
AcceptingNobody(s) == {}

\* broadcast on a channel's cond, on accept_cond and on session_cond
OnChannel(c) == {t \in asleep : work[t].ch = c}
Accepting(s) == {t \in asleep : work[t].at = "accept" /\ Home(t) = s}
Starting(s) == {t \in asleep : work[t].at = "ready" /\ Home(t) = s}
Wake(sleepers) == asleep' = asleep \ sleepers

\* the conditions of the wait loops
MustWait(t) ==
    LET s == Home(t) IN
    CASE work[t].at = "ready"  -> ~ready[s] /\ ~closed[s]
      [] work[t].at = "accept" -> queue[s] = <<>> /\ ~closed[s]
      [] work[t].at = "await"  -> Holds(t).phase = "closing_local" /\ Holds(t).registered
      [] work[t].at = "opened" -> Holds(t).phase = "opening"
      [] work[t].at = "read"   -> Holds(t).phase = "open" /\ Holds(t).rx = <<>>
      [] work[t].at = "rx"     -> Holds(t).phase = "open" /\ Len(Holds(t).rx) >= RxCap
      [] OTHER -> FALSE

Sleep(t) ==
    /\ t \notin asleep /\ MustWait(t)
    /\ asleep' = asleep \cup {t}
    /\ UNCHANGED <<sessionVars, chan, bearerVars, alive, work, countVars>>

WakeSpuriously(t) ==
    /\ t \in asleep
    /\ Wake({t})
    /\ UNCHANGED <<sessionVars, chan, bearerVars, alive, work, countVars>>

\* the thread has evaluated its wait loop and goes on
Proceeds(t, l) == At(t, l) /\ ~MustWait(t)

(***************************************************************************)
(* The bearer: frames in order, a bounded number on their way.  A closed   *)
(* bearer refuses writes; towards a peer that has closed, a write is lost  *)
(* or refused.  An open one may refuse a write too, for an error of its    *)
(* own or a deadline that passes, and the session stays open.  If a part   *)
(* of the frame is out by then, the peer's readFrame does not decode what  *)
(* comes: that is a read of the peer that fails.                           *)
(***************************************************************************)
\* an open bearer fails: `c` is what is lost
Fault(s, op, c) ==
    /\ <<s, op>> \in Faults /\ Len(faults) < MaxFaults
    /\ faults' = Append(faults, c)

\* the thread t sends f
Transmit(t, f, ok) ==
    LET s == Home(t) IN
    /\ UNCHANGED shut
    /\ \/ ~ok /\ (shut[s] \/ shut[Peer(s)]) /\ UNCHANGED <<wire, faults>>
       \/ ok /\ ~shut[s] /\ shut[Peer(s)] /\ UNCHANGED <<wire, faults>>
       \/ /\ ok /\ ~shut[s] /\ ~shut[Peer(s)]
          /\ Len(wire[s]) < BearerCap
          /\ wire' = [wire EXCEPT ![s] = Append(@, f)]
          /\ UNCHANGED faults
       \/ /\ ~ok /\ ~shut[s]
          /\ Fault(s, "write", IF work[t].at = "disc" THEN work[t].ch ELSE 0)
          /\ UNCHANGED wire

\* bearer.close: what the peer has sent is read by nobody
HangUp(t) ==
    /\ At(t, "hangup")
    /\ shut' = [shut EXCEPT ![Home(t)] = TRUE]
    /\ wire' = [wire EXCEPT ![Peer(Home(t))] = <<>>]
    /\ Goto(t, work[t].then)
    /\ UNCHANGED <<sessionVars, chan, faults, alive, asleep, countVars>>

(***************************************************************************)
(* Channels and the session's close.                                       *)
(***************************************************************************)
\* createChannelLocked; `from` is the channel of the peer whose SABM it answers
NewChannel(s, d, phase, refs, from) ==
    [side |-> s, dlci |-> d, phase |-> phase, refs |-> refs, registered |-> TRUE,
     rx |-> <<>>, conn |-> "none", from |-> from, sent |-> 0, got |-> <<>>]

\* the channels in the session's table
Tabled(s) == {table[s][d] : d \in Dlcis} \ {0}

\* mutant: a queued channel's reference is forgotten
RefsFromTable(s, c) == IF c \in Tabled(s) THEN 1 ELSE 0

\* the references that the table and the accept queue hold
RefsFrom(s, c) ==
    (IF c \in Tabled(s) THEN 1 ELSE 0) + Cardinality({i \in DOMAIN queue[s] : queue[s][i] = c})

Open(c) == chan[c].phase \in {"opening", "open"}

\* closeChannel: from here `then` is where the thread goes on
CloseChannel(t) ==
    LET c == work[t].ch IN
    /\ At(t, "close")
    /\ chan' = IF Open(c) THEN [chan EXCEPT ![c].phase = "closing_local"] ELSE chan
    /\ Wake(IF Open(c) THEN OnChannel(c) ELSE {})
    /\ Goto(t, IF Open(c) /\ chan[c].registered THEN "disc" ELSE work[t].then)
    /\ UNCHANGED <<sessionVars, bearerVars, alive, countVars>>

\* the error of the write is dropped: the channel is closing and registered
SendDisc(t) ==
    /\ At(t, "disc")
    /\ \E ok \in BOOLEAN : Transmit(t, Frame("disc", Holds(t).dlci, 0), ok)
    /\ Goto(t, work[t].then)
    /\ UNCHANGED <<sessionVars, chan, alive, asleep, countVars>>

\* releaseChannel
Release(t) ==
    \E l \in {"release", "keep", "letgo"} :
        /\ At(t, l)
        /\ chan' = [chan EXCEPT ![work[t].ch].refs = @ - 1]
        /\ Goto(t, CASE l = "release" -> "idle" [] l = "keep" -> "retain" [] OTHER -> "look")
        /\ UNCHANGED <<sessionVars, bearerVars, alive, asleep, countVars>>

Ended == {"closed", "rejected"}

\* beginClose, when it is the first
BeginClose(s) ==
    /\ closed' = [closed EXCEPT ![s] = TRUE]
    /\ chan' = [c \in Channels |->
            IF c \in Tabled(s) /\ chan[c].phase \notin Ended
            THEN [chan[c] EXCEPT !.phase = "closed"] ELSE chan[c]]
    /\ Wake(Accepting(s) \cup Starting(s) \cup UNION {OnChannel(c) : c \in Tabled(s)})
    /\ UNCHANGED <<ready, table, queue>>

\* close: DISC on DLCI 0, then the bearer
Shutdown(t) ==
    /\ At(t, "shutdown")
    /\ IF closed[Home(t)]
       THEN Goto(t, work[t].then) /\ UNCHANGED <<sessionVars, chan, asleep>>
       ELSE BeginClose(Home(t)) /\ Goto(t, "bye")
    /\ UNCHANGED <<bearerVars, alive, countVars>>

SayBye(t) ==
    /\ At(t, "bye")
    /\ \E ok \in BOOLEAN : Transmit(t, Frame("disc", 0, 0), ok)
    /\ Goto(t, "hangup")
    /\ UNCHANGED <<sessionVars, chan, alive, asleep, countVars>>

(***************************************************************************)
(* Calls of the clients.                                                   *)
(***************************************************************************)
MaxCalls(t) == Len(May[t])

Call(t, op) ==
    /\ At(t, "idle") /\ calls[t] < MaxCalls(t) /\ op \in May[t][calls[t] + 1]
    /\ alive[Home(t)]
    /\ calls' = [calls EXCEPT ![t] = @ + 1]

Begin(t, l, c, then) ==
    work' = [work EXCEPT ![t] = [Idle EXCEPT !.at = l, !.ch = c, !.then = then]]

\* dialChannel(d)
Dial(t, d) ==
    /\ Call(t, "dial")
    /\ dials < MaxDials /\ dials' = dials + 1
    /\ work' = [work EXCEPT ![t] = [Idle EXCEPT !.at = "ready", !.dlci = d]]
    /\ UNCHANGED <<sessionVars, chan, bearerVars, alive, asleep>>

\* waitForSessionReady
DialReady(t) ==
    /\ Proceeds(t, "ready")
    /\ Goto(t, IF ready[Home(t)] THEN "look" ELSE "idle")
    /\ UNCHANGED <<sessionVars, chan, bearerVars, alive, asleep, countVars>>

\* the session is closed, or the number is taken
DialRefused(t) ==
    LET s == Home(t) c == table[s][work[t].dlci] IN
    /\ At(t, "look")
    /\ closed[s] \/ (c # 0 /\ Open(c))
    /\ Goto(t, "idle")
    /\ UNCHANGED <<sessionVars, chan, bearerVars, alive, asleep, countVars>>

\* The channel of that number is being closed: wait for the end of it.  One
\* that has ended and is still in the table is polled.
DialBehind(t) ==
    LET s == Home(t) c == table[s][work[t].dlci] IN
    /\ At(t, "look")
    /\ ~closed[s] /\ c # 0 /\ chan[c].phase = "closing_local"
    /\ chan' = [chan EXCEPT ![c].refs = @ + 1]
    /\ work' = [work EXCEPT ![t].at = "await", ![t].ch = c]
    /\ UNCHANGED <<sessionVars, bearerVars, alive, asleep, countVars>>

DialAwaited(t) ==
    /\ Proceeds(t, "await")
    /\ Goto(t, "letgo")
    /\ UNCHANGED <<sessionVars, chan, bearerVars, alive, asleep, countVars>>

\* mutant: a channel that has ended is replaced before it is unregistered
DialCreateEager(t) ==
    LET s == Home(t) d == work[t].dlci IN
    /\ At(t, "look")
    /\ ~closed[s] /\ (table[s][d] # 0 => chan[table[s][d]].phase \in Ended)
    /\ chan' = Append(chan, NewChannel(s, d, "opening", 2, 0))
    /\ table' = [table EXCEPT ![s][d] = Len(chan) + 1]
    /\ work' = [work EXCEPT ![t].at = "sabm", ![t].ch = Len(chan) + 1]
    /\ UNCHANGED <<closed, ready, queue, bearerVars, alive, asleep, countVars>>

\* mutant: the session is not asked again whether it is closed
DialCreateLate(t) ==
    LET s == Home(t) d == work[t].dlci IN
    /\ At(t, "look")
    /\ table[s][d] = 0
    /\ chan' = Append(chan, NewChannel(s, d, "opening", 2, 0))
    /\ table' = [table EXCEPT ![s][d] = Len(chan) + 1]
    /\ work' = [work EXCEPT ![t].at = "sabm", ![t].ch = Len(chan) + 1]
    /\ UNCHANGED <<closed, ready, queue, bearerVars, alive, asleep, countVars>>

\* createChannelLocked and retainChannel, one for the table and one for the call
DialCreate(t) ==
    LET s == Home(t) d == work[t].dlci IN
    /\ At(t, "look")
    /\ ~closed[s] /\ table[s][d] = 0
    /\ chan' = Append(chan, NewChannel(s, d, "opening", 2, 0))
    /\ table' = [table EXCEPT ![s][d] = Len(chan) + 1]
    /\ work' = [work EXCEPT ![t].at = "sabm", ![t].ch = Len(chan) + 1]
    /\ UNCHANGED <<closed, ready, queue, bearerVars, alive, asleep, countVars>>

\* errdefer closeChannel, then the deferred releaseChannel
GiveUp(t) == work' = [work EXCEPT ![t].at = "close", ![t].then = "release"]

DialSabm(t) ==
    /\ At(t, "sabm")
    /\ \E ok \in BOOLEAN :
        /\ Transmit(t, Frame("sabm", work[t].dlci, work[t].ch), ok)
        /\ IF ok THEN Goto(t, "opened") ELSE GiveUp(t)
    /\ UNCHANGED <<sessionVars, chan, alive, asleep, countVars>>

\* waitForOpen; the deferred release follows
DialOpened(t) ==
    /\ Proceeds(t, "opened")
    /\ IF Holds(t).phase = "open" THEN Goto(t, "keep") ELSE GiveUp(t)
    /\ UNCHANGED <<sessionVars, chan, bearerVars, alive, asleep, countVars>>

\* Conn.init retains what dialChannel has returned without a reference.  If
\* the memory is gone the behaviour is undefined: the thread is not followed.
DialConn(t) ==
    LET c == work[t].ch IN
    /\ At(t, "retain")
    /\ IF chan[c].refs = 0
       THEN Goto(t, "lost") /\ UNCHANGED chan
       ELSE /\ chan' = [chan EXCEPT ![c].refs = @ + 1, ![c].conn = "open"]
            /\ Goto(t, "idle")
    /\ UNCHANGED <<sessionVars, bearerVars, alive, asleep, countVars>>

\* Listener.accept
Accept(t) ==
    /\ Call(t, "accept")
    /\ Begin(t, "accept", 0, "idle")
    /\ UNCHANGED <<sessionVars, chan, bearerVars, alive, asleep, dials>>

\* ArrayList.swapRemove: the last one takes the place of the removed one
SwapRemove(q, i) ==
    [j \in 1..(Len(q) - 1) |-> IF j = i THEN q[Len(q)] ELSE q[j]]

\* acceptChannel: a queued channel that is no longer open is let go
AcceptChannel(t) ==
    LET s == Home(t) c == Head(queue[s]) IN
    /\ Proceeds(t, "accept") /\ queue[s] # <<>>
    /\ queue' = [queue EXCEPT ![s] = SwapRemove(@, 1)]
    /\ IF chan[c].phase = "open"
       THEN /\ work' = [work EXCEPT ![t].at = "conn", ![t].ch = c]
            /\ UNCHANGED chan
       ELSE chan' = [chan EXCEPT ![c].refs = @ - 1] /\ UNCHANGED work
    /\ UNCHANGED <<closed, ready, table, bearerVars, alive, asleep, countVars>>

AcceptClosed(t) ==
    /\ Proceeds(t, "accept") /\ queue[Home(t)] = <<>>
    /\ Goto(t, "idle")
    /\ UNCHANGED <<sessionVars, chan, bearerVars, alive, asleep, countVars>>

AcceptConn(t) ==
    /\ At(t, "conn")
    /\ chan' = [chan EXCEPT ![work[t].ch].refs = @ + 1, ![work[t].ch].conn = "open"]
    /\ Goto(t, "release")
    /\ UNCHANGED <<sessionVars, bearerVars, alive, asleep, countVars>>

(***************************************************************************)
(* Calls on a connection.  A connection may be read, written and closed by *)
(* several threads at once; deinit is its owner's last call.               *)
(***************************************************************************)
Conns(s) == {c \in Channels : chan[c].side = s /\ chan[c].conn \in {"open", "closed"}}

Read(t, c) ==
    /\ Call(t, "read") /\ chan[c].conn = "open"
    /\ Begin(t, "read", c, "idle")
    /\ UNCHANGED <<sessionVars, chan, bearerVars, alive, asleep, dials>>

\* readChannel: what has arrived, or the end of the stream
ReadChannel(t) ==
    LET c == work[t].ch IN
    /\ Proceeds(t, "read")
    /\ \E n \in 0..Len(chan[c].rx) :
        /\ (n = 0) <=> (chan[c].rx = <<>>)
        /\ chan' = [chan EXCEPT ![c].got = @ \o SubSeq(chan[c].rx, 1, n),
                                ![c].rx = SubSeq(@, n + 1, Len(@))]
        /\ Wake(IF n = 0 THEN {} ELSE OnChannel(c))
    /\ Goto(t, "idle")
    /\ UNCHANGED <<sessionVars, bearerVars, alive, countVars>>

\* writeChannel looks at the phase once ...
Write(t, c) ==
    /\ Call(t, "write") /\ chan[c].conn = "open"
    /\ IF chan[c].phase = "open" THEN Begin(t, "write", c, "idle") ELSE UNCHANGED work
    /\ UNCHANGED <<sessionVars, chan, bearerVars, alive, asleep, dials>>

\* ... and sends
SendData(t) ==
    LET c == work[t].ch IN
    /\ At(t, "write")
    /\ \E ok \in BOOLEAN :
        /\ Transmit(t, Frame("uih", chan[c].dlci, <<c, chan[c].sent + 1>>), ok)
        /\ chan' = IF ok THEN [chan EXCEPT ![c].sent = @ + 1] ELSE chan
    /\ Goto(t, "idle")
    /\ UNCHANGED <<sessionVars, alive, asleep, countVars>>

\* Conn.close
Close(t, c) ==
    /\ Call(t, "close") /\ chan[c].conn = "open"
    /\ chan' = [chan EXCEPT ![c].conn = "closed"]
    /\ Begin(t, "close", c, "idle")
    /\ UNCHANGED <<sessionVars, bearerVars, alive, asleep, dials>>

\* Conn.deinit closes and gives the reference of the Conn back
Deinit(t, c) ==
    /\ Call(t, "deinit")
    /\ \A u \in Clients \ {t} : work[u].ch # c
    /\ Begin(t, IF chan[c].conn = "open" THEN "close" ELSE "release", c, "release")
    /\ chan' = [chan EXCEPT ![c].conn = "gone"]
    /\ UNCHANGED <<sessionVars, bearerVars, alive, asleep, dials>>

\* Cmux.close
CloseSession(t) ==
    /\ Call(t, "shutdown")
    /\ Begin(t, "shutdown", 0, "idle")
    /\ UNCHANGED <<sessionVars, chan, bearerVars, alive, asleep, dials>>

\* Cmux.deinit: the owner's last call, when the connections are gone
Destroy(t) ==
    /\ Call(t, "destroy")
    /\ Conns(Home(t)) = {}
    /\ \A u \in Clients : Home(u) = Home(t) => work[u].at = "idle"
    /\ alive' = [alive EXCEPT ![Home(t)] = FALSE]
    /\ Begin(t, "shutdown", 0, "join")
    /\ UNCHANGED <<sessionVars, chan, bearerVars, asleep, dials>>

\* the worker has ended: give back the references of the queue and the table
Sweep(t) ==
    LET s == Home(t) IN
    /\ At(t, "join") /\ work[s].at = "done"
    /\ chan' = [c \in Channels |-> [chan[c] EXCEPT !.refs = @ - RefsFrom(s, c)]]
    /\ table' = [table EXCEPT ![s] = [d \in Dlcis |-> 0]]
    /\ queue' = [queue EXCEPT ![s] = <<>>]
    /\ Goto(t, "idle")
    /\ UNCHANGED <<closed, ready, bearerVars, alive, asleep, countVars>>

(***************************************************************************)
(* The worker: readFrame and handleFrame.                                  *)
(***************************************************************************)
\* the next frame of the peer is f, and is taken off the bearer
Receive(s, type, control) ==
    /\ At(s, "listen") /\ ~shut[s]
    /\ wire[Peer(s)] # <<>>
    /\ Head(wire[Peer(s)]).type = type
    /\ (Head(wire[Peer(s)]).dlci = 0) = control
    /\ wire' = [wire EXCEPT ![Peer(s)] = Tail(@)]
    /\ UNCHANGED <<shut, faults, alive, countVars>>

Incoming(s) == Head(wire[Peer(s)])
\* lookupChannel of the frame's DLCI; only the worker takes a channel out of
\* the table, so it needs no reference of its own
Looked(s) == table[s][Incoming(s).dlci]

\* the worker goes on with `at`, with the channel c and a frame to send
Handle(s, at, c, f, then) ==
    work' = [work EXCEPT ![s] = [Idle EXCEPT !.at = at, !.ch = c, !.frame = f, !.then = then]]
Ignore == UNCHANGED <<sessionVars, chan, work, asleep>>
Answer(s, type) == Frame(type, Incoming(s).dlci, 0)

\* handleSessionFrame: SABM and UA make the session ready
HandleSessionUp(s) ==
    \E type \in {"sabm", "ua"} :
        /\ Receive(s, type, TRUE)
        /\ ready' = [ready EXCEPT ![s] = TRUE]
        /\ Wake(Starting(s))
        /\ IF type = "sabm" THEN Handle(s, "reply", 0, Answer(s, "ua"), "listen")
                            ELSE UNCHANGED work
        /\ UNCHANGED <<closed, table, queue, chan>>

\* the peer closes its session: answer, then end this one
HandleSessionDisc(s) ==
    /\ Receive(s, "disc", TRUE)
    /\ Handle(s, "reply", 0, Answer(s, "ua"), "leave")
    /\ UNCHANGED <<sessionVars, chan, asleep>>

\* mutant: one more than max_accept_queue
RoomForOneMore(s) == Len(queue[s]) <= MaxQueue

Room(s) == Len(queue[s]) < MaxQueue

\* handleOpenRequest.  The channel is in the accept queue before its UA is
\* sent, and accept_cond is signalled after it.
HandleOpenRequest(s) ==
    LET d == Incoming(s).dlci
        c == Len(chan) + 1 IN
    /\ Receive(s, "sabm", FALSE)
    /\ IF closed[s] THEN Ignore
       ELSE IF table[s][d] # 0
       THEN /\ Handle(s, "reply", 0, Answer(s, "dm"), "listen")
            /\ UNCHANGED <<sessionVars, chan, asleep>>
       ELSE /\ chan' = Append(chan, NewChannel(s, d, IF Room(s) THEN "open" ELSE "closed",
                                               IF Room(s) THEN 2 ELSE 1, Incoming(s).tag))
            /\ table' = [table EXCEPT ![s][d] = c]
            /\ queue' = IF Room(s) THEN [queue EXCEPT ![s] = Append(@, c)] ELSE queue
            /\ IF Room(s) THEN Handle(s, "reply", 0, Answer(s, "ua"), "offer")
                       ELSE Handle(s, "unregister", c, Answer(s, "dm"), "listen")
            /\ UNCHANGED <<closed, ready, asleep>>

\* mutant: nobody is told of the new phase
SetPhaseSilently(c, p) ==
    /\ chan' = [chan EXCEPT ![c].phase = p]
    /\ UNCHANGED asleep

\* the channel's phase becomes p, and what waits on it looks again
SetPhase(c, p) ==
    /\ chan' = [chan EXCEPT ![c].phase = p]
    /\ Wake(OnChannel(c))

\* mutant: any UA opens the channel
AckedOpens(p) == "open"

\* UA answers the SABM of an opening channel, or the DISC of a closing one
Acked(p) == CASE p = "opening" -> "open" [] p = "closing_local" -> "closed" [] OTHER -> p

HandleOpenAck(s) ==
    LET c == Looked(s) IN
    /\ Receive(s, "ua", FALSE)
    /\ IF c = 0 THEN Ignore
       ELSE /\ SetPhase(c, Acked(chan[c].phase))
            /\ IF chan[c].phase = "closing_local"
               THEN Handle(s, "unregister", c, None, "listen") ELSE UNCHANGED work
            /\ UNCHANGED sessionVars

HandleDisc(s) ==
    LET c == Looked(s) IN
    /\ Receive(s, "disc", FALSE)
    /\ IF c = 0
       THEN /\ Handle(s, "reply", 0, Answer(s, "dm"), "listen")
            /\ UNCHANGED <<chan, asleep>>
       ELSE SetPhase(c, "closed") /\ Handle(s, "unregister", c, Answer(s, "ua"), "listen")
    /\ UNCHANGED sessionVars

HandleReject(s) ==
    LET c == Looked(s) IN
    /\ Receive(s, "dm", FALSE)
    /\ IF c = 0 THEN Ignore
       ELSE /\ SetPhase(c, "rejected")
            /\ Handle(s, "unregister", c, None, "listen")
            /\ UNCHANGED sessionVars

\* handleData waits, and with it every channel of the session, until the
\* reader has made room
HandleData(s) ==
    LET c == Looked(s) IN
    /\ Receive(s, "uih", FALSE)
    /\ IF c = 0 THEN UNCHANGED work ELSE Handle(s, "rx", c, Incoming(s), "listen")
    /\ UNCHANGED <<sessionVars, chan, asleep>>

\* mutant: what does not fit is dropped
StoreDataDropping(s) ==
    LET c == work[s].ch IN
    /\ At(s, "rx")
    /\ IF chan[c].phase = "open" /\ Len(chan[c].rx) < RxCap
       THEN /\ chan' = [chan EXCEPT ![c].rx = Append(@, work[s].frame.tag)]
            /\ Wake(OnChannel(c))
       ELSE UNCHANGED <<chan, asleep>>
    /\ Goto(s, "listen")
    /\ UNCHANGED <<sessionVars, bearerVars, alive, countVars>>

StoreData(s) ==
    LET c == work[s].ch IN
    /\ Proceeds(s, "rx")
    /\ IF chan[c].phase = "open"
       THEN /\ chan' = [chan EXCEPT ![c].rx = Append(@, work[s].frame.tag)]
            /\ Wake(OnChannel(c))
       ELSE UNCHANGED <<chan, asleep>>
    /\ Goto(s, "listen")
    /\ UNCHANGED <<sessionVars, bearerVars, alive, countVars>>

\* unregisterChannel: out of the table and out of the accept queue, with the
\* reference that each held
Unregister(s) ==
    LET c == work[s].ch
        there == table[s][chan[c].dlci] = c
        at == {i \in DOMAIN queue[s] : queue[s][i] = c} IN
    /\ At(s, "unregister")
    /\ table' = IF there THEN [table EXCEPT ![s][chan[c].dlci] = 0] ELSE table
    /\ queue' = IF at = {} THEN queue
                ELSE [queue EXCEPT ![s] = SwapRemove(@, CHOOSE i \in at : TRUE)]
    /\ chan' = [chan EXCEPT ![c].registered = @ /\ ~there, ![c].refs = @ - RefsFrom(s, c)]
    /\ Wake(OnChannel(c))
    /\ IF work[s].frame = None THEN Goto(s, "listen")
       ELSE work' = [work EXCEPT ![s].at = "reply", ![s].ch = 0]
    /\ UNCHANGED <<closed, ready, bearerVars, alive, countVars>>

\* sendControl of an answer; a failure ends the session
Reply(s) ==
    /\ At(s, "reply")
    /\ \E ok \in BOOLEAN :
        /\ Transmit(s, work[s].frame, ok)
        /\ Goto(s, IF ok THEN work[s].then ELSE "finish")
    /\ UNCHANGED <<sessionVars, chan, alive, asleep, countVars>>

\* accept_cond.broadcast after the UA
Offer(s) ==
    /\ At(s, "offer")
    /\ Wake(Accepting(s))
    /\ Goto(s, "listen")
    /\ UNCHANGED <<sessionVars, chan, bearerVars, alive, countVars>>

\* readFrame ends: the bearer is closed on either side, or it fails, or what
\* comes is no frame
Fail(s) ==
    /\ At(s, "listen")
    /\ \/ (shut[s] \/ (shut[Peer(s)] /\ wire[Peer(s)] = <<>>)) /\ UNCHANGED faults
       \/ Fault(s, "read", 0)
    /\ Goto(s, "finish")
    /\ UNCHANGED <<sessionVars, chan, wire, shut, alive, asleep, countVars>>

\* beginClose of failSession and finishWorker, after which the worker ends,
\* and of handleSessionFrame, after which it reads on
Finish(s) ==
    \E l \in {"finish", "leave"} :
        LET next == IF l = "leave" THEN "listen" ELSE "done" IN
        /\ At(s, l)
        /\ IF closed[s]
           THEN Goto(s, next) /\ UNCHANGED <<sessionVars, chan, asleep>>
           ELSE /\ BeginClose(s)
                /\ work' = [work EXCEPT ![s].at = "hangup", ![s].then = next]
        /\ UNCHANGED <<bearerVars, alive, countVars>>

(***************************************************************************)
(* The system.                                                             *)
(***************************************************************************)
DialStep(t) ==
    \/ DialReady(t) \/ DialRefused(t) \/ DialBehind(t) \/ DialAwaited(t)
    \/ DialCreate(t) \/ DialSabm(t) \/ DialOpened(t) \/ DialConn(t)

Step(t) ==
    \/ Sleep(t) \/ HangUp(t) \/ CloseChannel(t) \/ SendDisc(t) \/ Release(t)
    \/ Shutdown(t) \/ SayBye(t)
    \/ DialStep(t)
    \/ AcceptChannel(t) \/ AcceptClosed(t) \/ AcceptConn(t)
    \/ ReadChannel(t) \/ SendData(t) \/ Sweep(t)

Start(t) ==
    \/ \E d \in Dlcis : Dial(t, d)
    \/ Accept(t) \/ CloseSession(t) \/ Destroy(t)
    \/ \E c \in Conns(Home(t)) : Read(t, c) \/ Write(t, c) \/ Close(t, c) \/ Deinit(t, c)

Work(s) ==
    \/ HandleSessionUp(s) \/ HandleSessionDisc(s)
    \/ HandleOpenRequest(s) \/ HandleOpenAck(s) \/ HandleDisc(s) \/ HandleReject(s)
    \/ HandleData(s) \/ StoreData(s) \/ Unregister(s) \/ Reply(s) \/ Offer(s)
    \/ Fail(s) \/ Finish(s) \/ Sleep(s) \/ HangUp(s)

Next ==
    \/ \E t \in Clients : Start(t) \/ Step(t)
    \/ \E s \in Sides : Work(s)
    \/ \E t \in Threads : WakeSpuriously(t)

Spec == Init /\ [][Next]_vars

\* A thread that can go on goes on.  Nobody has to call, and an open bearer
\* does not have to fail: a write that finds it full may wait for ever.
FairSpec ==
    /\ Spec
    /\ \A t \in Clients : WF_vars(Step(t) /\ UNCHANGED faults)
    /\ \A s \in Sides : WF_vars(Work(s) /\ UNCHANGED faults)

(***************************************************************************)
(* Properties.                                                             *)
(***************************************************************************)
Phases == {"opening", "open", "closing_local", "closed", "rejected"}
Labels == {"idle", "listen", "done", "lost", "hangup", "close", "disc", "release", "keep",
           "letgo", "shutdown", "bye", "ready", "look", "await", "sabm", "opened", "retain",
           "accept", "conn", "read", "write", "join", "reply", "offer", "unregister", "rx",
           "finish", "leave"}
Tokens == Channels \X Nat

TypeOK ==
    /\ closed \in [Sides -> BOOLEAN] /\ ready \in [Sides -> BOOLEAN]
    /\ shut \in [Sides -> BOOLEAN] /\ alive \in [Sides -> BOOLEAN]
    /\ table \in [Sides -> [Dlcis -> Channels \cup {0}]]
    /\ \A s \in Sides : queue[s] \in Seq(Channels) /\ Len(queue[s]) <= MaxQueue
    /\ \A c \in Channels :
        /\ chan[c].phase \in Phases /\ chan[c].refs \in Nat /\ chan[c].registered \in BOOLEAN
        /\ chan[c].rx \in Seq(Tokens) /\ Len(chan[c].rx) <= RxCap
    /\ \A s \in Sides : Len(wire[s]) <= BearerCap
    /\ \A t \in Threads : work[t].at \in Labels /\ work[t].ch \in Channels \cup {0}
    /\ asleep \subseteq Threads
    /\ dials \in 0..MaxDials /\ \A t \in Clients : calls[t] \in 0..MaxCalls(t)

\* Who holds a reference to a channel: the table, each place in the accept
\* queue, the connection, and the calls that have retained it.
Retaining == {"await", "letgo", "sabm", "opened", "keep", "conn", "release"}
Holders(c) ==
    {<<"table", s>> : s \in {x \in Sides : c \in Tabled(x)}}
    \cup (UNION {{<<"queue", s, i>> : i \in {j \in DOMAIN queue[s] : queue[s][j] = c}} : s \in Sides})
    \cup {<<"conn">> : x \in {y \in {c} : chan[y].conn \in {"open", "closed"}}}
    \cup {<<"call", t>> : t \in {x \in Clients :
            /\ work[x].ch = c
            /\ work[x].at \in Retaining
                \/ (work[x].at \in {"close", "disc"} /\ work[x].then = "release")}}

\* The count of a channel is the number of its holders: nothing is freed
\* under a holder, and nothing is left over (releaseChannel, unregisterChannel,
\* Session.deinit).
RefsExact == \A c \in Channels : chan[c].refs = Cardinality(Holders(c))

\* Table, `registered` and accept queue agree (createChannelLocked,
\* unregisterChannel): a channel is registered as long as the table leads to
\* it, a queued channel is queued once, on its own side.
TableConsistent ==
    \A s \in Sides : alive[s] =>
        /\ \A c \in Channels : chan[c].side = s =>
            (chan[c].registered <=> table[s][chan[c].dlci] = c)
        /\ \A i, j \in DOMAIN queue[s] : queue[s][i] = queue[s][j] => i = j
        /\ \A i \in DOMAIN queue[s] : chan[queue[s][i]].side = s

\* After beginClose no channel of the side is open, and none becomes open: a
\* dial and the peer's SABM that race with it included.
ClosedIsFinal ==
    \A s \in Sides, c \in Channels : closed[s] /\ chan[c].side = s => chan[c].phase \in Ended

\* A thread sleeps only while its wait loop would wait again, so no broadcast
\* is missing; accept_cond is signalled once the worker has sent the UA.
SleepersMustWait ==
    \A t \in asleep :
        \/ MustWait(t)
        \/ work[t].at = "accept" /\ work[Home(t)].at \in {"reply", "offer", "finish"}

\* What a channel has received of a channel of the peer, its number's channel
\* there, is a run of what that one wrote: in order, each once, with no gap.
\* From the first write on that finds the channel open, everything has arrived
\* or is on its way, in the worker's hand or on the bearer, and what is on its
\* way comes after it (handleData waits and drops nothing).
Stream(c) == chan[c].got \o chan[c].rx
Arrived(c) == {Stream(c)[i] : i \in DOMAIN Stream(c)}
Data(s) == {i \in DOMAIN wire[s] : wire[s][i].type = "uih"}
OnWire(s) == {wire[s][i].tag : i \in Data(s)}
InHand(s) == IF work[Peer(s)].at = "rx" THEN {work[Peer(s)].frame.tag} ELSE {}
Underway(s) == InHand(s) \cup OnWire(s)
Before(x, y) == x[1] = y[1] => x[2] < y[2]

SentInOrder(s) ==
    /\ \A i, j \in Data(s) : i < j => Before(wire[s][i].tag, wire[s][j].tag)
    /\ \A x \in InHand(s), y \in OnWire(s) : Before(x, y)
WrittenByPartner(c) ==
    \A x \in Arrived(c) :
        /\ x[1] \in Channels
        /\ chan[x[1]].side = Peer(chan[c].side) /\ chan[x[1]].dlci = chan[c].dlci
        /\ x[2] \in 1..chan[x[1]].sent
ArrivedInRuns(c) ==
    /\ \A i, j \in DOMAIN Stream(c) : i < j => Before(Stream(c)[i], Stream(c)[j])
    /\ \A x, y \in Arrived(c) :
        x[1] = y[1] => \A n \in x[2]..y[2] : <<x[1], n>> \in Arrived(c)
RestUnderway(c) ==
    LET far == Peer(chan[c].side) IN
    \A x \in Arrived(c) :
        /\ \A y \in Underway(far) : Before(x, y)
        /\ \A n \in x[2]..chan[x[1]].sent : <<x[1], n>> \in Arrived(c) \cup Underway(far)

StreamContiguous ==
    /\ \A s \in Sides : SentInOrder(s)
    /\ \A c \in Channels :
        /\ WrittenByPartner(c) /\ ArrivedInRuns(c)
        /\ chan[c].phase = "open" => RestUnderway(c)

\* Ends are final: a session that is closed opens no channel, an ended channel
\* stays ended, a closing one does not come back, an open one does not open
\* again, whatever SABM, UA, DM or DISC is still on its way.
EndsAreFinal ==
    [][/\ ClosedIsFinal'
       /\ \A c \in Channels :
            /\ chan[c].phase \in Ended => chan'[c].phase \in Ended
            /\ chan[c].phase = "closing_local" => chan'[c].phase \notin {"opening", "open"}
            /\ chan[c].phase = "open" => chan'[c].phase # "opening"]_vars

\* The tests of Cmux.zig write at either end and read the same bytes at the
\* other: what a channel has received is the beginning of what its partner
\* wrote.
Partners(c, w) == chan[w].from = c \/ chan[c].from = w
StreamIntact ==
    \A c \in Channels : \A i \in DOMAIN Stream(c) :
        Partners(c, Stream(c)[i][1]) /\ Stream(c)[i][2] = i

\* Every call returns, whatever both sides dial, close and reject meanwhile;
\* a blocked accept or read returns once either side closes its session
\* (closeReleasesBlockedAccept, closeReleasesBlockedRead).  What else a call
\* can wait for, for ever, is one of three: the end of a channel whose DISC an
\* open bearer refused (closeChannel), a reader that never reads (handleData),
\* or two full bearers that neither worker reads, since it has an answer to
\* send or has ended while a close stands before the bearer (sendControl).
Unheard(t) == work[t].at = "await" /\ \E i \in DOMAIN faults : faults[i] = work[t].ch
Unread == \E s \in Sides : work[s].at = "rx" /\ MustWait(s)
Jam ==
    \A s \in Sides :
        ~shut[s] /\ Len(wire[s]) = BearerCap /\ work[s].at \in {"reply", "done"}

CallsReturn ==
    \/ <>[]Unread
    \/ <>[]Jam
    \/ \A t \in Clients :
        /\ work[t].at # "idle"
        /\ work[t].at \in {"accept", "read"} => \E s \in Sides : closed[s]
        ~> work[t].at \in {"idle", "lost"} \/ Unheard(t)
=============================================================================
