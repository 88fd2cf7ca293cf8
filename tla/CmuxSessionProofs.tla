-------------------------- MODULE CmuxSessionProofs --------------------------
(* Theorems about CmuxSession.                                              *)
EXTENDS CmuxSession, FiniteSetTheorems, TLAPS

----------------------------------------------------------------------------
(* The inductive invariant.                                                 *)
Types4 == {"sabm", "ua", "disc", "dm"}
Answers == [type : Types4, dlci : Dlcis \cup {0}, tag : Nat]
Frames == Answers \cup [type : {"uih"}, dlci : Dlcis, tag : Nat \X Nat]
ChannelType ==
    [side : Sides, dlci : Dlcis, phase : Phases, refs : Int, registered : BOOLEAN, rx : Seq(Nat \X Nat),
     conn : {"none", "open", "closed", "gone"}, from : Nat, sent : Nat, got : Seq(Nat \X Nat)]
PlaceType ==
    [at : Labels, ch : Nat, dlci : Dlcis \cup {0}, frame : Frames \cup {None}, then : Labels]

Types ==
    /\ closed \in [Sides -> BOOLEAN] /\ ready \in [Sides -> BOOLEAN]
    /\ shut \in [Sides -> BOOLEAN] /\ alive \in [Sides -> BOOLEAN]
    /\ table \in [Sides -> [Dlcis -> Nat]] /\ queue \in [Sides -> Seq(Nat)]
    /\ chan \in Seq(ChannelType) /\ wire \in [Sides -> Seq(Frames)]
    /\ work \in [Threads -> PlaceType] /\ asleep \subseteq Threads
    /\ dials \in Nat /\ calls \in [Clients -> Nat]

\* Queues, buffers and the bearer keep to their bounds, and what is written to a
\* channel names the channel that wrote it.
Bounded ==
    /\ \A s \in Sides : Len(queue[s]) <= MaxQueue /\ Len(wire[s]) <= BearerCap
    /\ \A c \in Channels : /\ Len(chan[c].rx) <= RxCap
                           /\ \A i \in DOMAIN chan[c].rx : chan[c].rx[i][1] \in Channels
    /\ \A s \in Sides : \A i \in DOMAIN wire[s] : wire[s][i].type = "uih" => wire[s][i].tag[1] \in Channels
    /\ \A s \in Sides : work[s].at = "rx" =>
         work[s].frame \in Frames /\ work[s].frame.type = "uih" /\ work[s].frame.tag[1] \in Channels
    /\ dials <= MaxDials /\ \A t \in Clients : calls[t] <= MaxCalls(t)

\* where a worker can be, and a client
WorkerPlace(s) ==
    /\ work[s].at \in {"listen", "done", "hangup", "reply", "offer", "unregister", "rx", "finish", "leave"}
    /\ work[s].at = "hangup" => work[s].then \in {"listen", "done"}
    /\ work[s].at = "reply" => work[s].then \in {"listen", "offer", "leave"} /\ work[s].frame \in Answers
    /\ work[s].at \in {"unregister", "rx"} =>
         work[s].then = "listen" /\ work[s].ch \in Channels /\ chan[work[s].ch].side = s
    /\ work[s].at = "unregister" => chan[work[s].ch].phase \in Ended /\ work[s].frame \in Answers \cup {None}

Handling == {"close", "disc", "release", "keep", "letgo", "await", "sabm", "opened", "retain", "conn", "read", "write"}
Dialling == {"ready", "look", "await", "letgo", "sabm", "opened"}
Making   == {"sabm", "opened", "keep", "retain", "conn"}
Ending   == {"shutdown", "bye", "hangup"}

ClientPlace(t) ==
    /\ work[t].at \in Handling \cup Dialling \cup Ending \cup {"idle", "lost", "accept", "join"}
    /\ work[t].at \in Handling => work[t].ch \in Channels /\ chan[work[t].ch].side = HomeOf[t]
    /\ work[t].at \in Dialling => work[t].dlci \in Dlcis
    /\ work[t].at \in {"close", "disc"} => work[t].then \in {"idle", "release"}
    /\ work[t].at \in Ending => work[t].then \in {"idle", "join"}
    /\ work[t].at = "join" \/ (work[t].at \in Ending /\ work[t].then = "join") => ~alive[HomeOf[t]]
    /\ work[t].at \in {"bye", "hangup", "join"} => closed[HomeOf[t]]

Placed ==
    /\ \A t \in Threads : work[t].ch \in Channels \cup {0}
    /\ \A s \in Sides : WorkerPlace(s)
    /\ \A t \in Clients : ClientPlace(t)

\* A channel is in the table under its own number and side, and a channel that is
\* registered is there as long as the session has not been taken down.
Listed ==
    /\ \A s \in Sides, d \in Dlcis : table[s][d] # 0 =>
         /\ table[s][d] \in Channels
         /\ chan[table[s][d]].side = s /\ chan[table[s][d]].dlci = d /\ chan[table[s][d]].registered
    /\ \A c \in Channels : chan[c].registered /\ alive[chan[c].side] => table[chan[c].side][chan[c].dlci] = c

\* The accept queue holds channels of its side, each once.
Queued ==
    \A s \in Sides :
        /\ \A i \in DOMAIN queue[s] : queue[s][i] \in Channels /\ chan[queue[s][i]].side = s
        /\ \A i, j \in DOMAIN queue[s] : queue[s][i] = queue[s][j] => i = j

\* What has not ended is in the table, so that beginClose reaches it.
LiveListed ==
    \A c \in Channels : chan[c].phase \notin Ended =>
        ~closed[chan[c].side] /\ table[chan[c].side][chan[c].dlci] = c

\* A channel gets its connection once: from the call that dialled it, or from the
\* one that took it out of the queue.
InQueue(c) == \E s \in Sides : \E i \in DOMAIN queue[s] : queue[s][i] = c
MadeOnce ==
    /\ \A t, u \in Clients :
         work[t].at \in Making /\ work[u].at \in Making /\ work[t].ch = work[u].ch => t = u
    /\ \A t \in Clients : work[t].at \in Making => ~InQueue(work[t].ch) /\ chan[work[t].ch].conn = "none"
    /\ \A c \in Channels : InQueue(c) => chan[c].conn = "none"

\* The references, counted by kind.
Retains(t) ==
    work[t].at \in Retaining \/ (work[t].at \in {"close", "disc"} /\ work[t].then = "release")
Callers(c) == {t \in Clients : work[t].ch = c /\ Retains(t)}
InTable(c) == \E s \in Sides : \E d \in Dlcis : table[s][d] = c
HasConn(c) == chan[c].conn \in {"open", "closed"}
One(b) == IF b THEN 1 ELSE 0
Counted ==
    \A c \in Channels :
        chan[c].refs = One(InTable(c)) + One(InQueue(c)) + One(HasConn(c)) + Cardinality(Callers(c))

\* Who sleeps must wait. Only who sleeps in accept may have a channel in the queue:
\* the worker is about to answer it and will then broadcast, or end the session.
Offering(s) == work[s].at \in {"offer", "finish"} \/ (work[s].at = "reply" /\ work[s].then = "offer")
AsleepRight ==
    \A t \in asleep :
        \/ MustWait(t)
        \/ work[t].at = "accept" /\ ~closed[Home(t)] /\ Offering(Home(t))

CmuxInv == Types /\ Bounded /\ Placed /\ Listed /\ Queued /\ LiveListed /\ MadeOnce /\ Counted /\ AsleepRight
----------------------------------------------------------------------------
(* Sides, channels and threads.                                             *)
LEMMA SidesOf ==
    /\ \A s \in Sides : Peer(s) \in Sides /\ Peer(s) # s
    /\ \A t \in Threads : Home(t) \in Sides
    /\ \A s \in Sides : s \in Threads /\ Home(s) = s /\ s \notin Clients
    /\ \A t \in Clients : t \in Threads /\ Home(t) = HomeOf[t] /\ t \notin Sides
<1>1. ASSUME NEW s \in Sides
      PROVE  Peer(s) \in Sides /\ Peer(s) # s
  <2>1. \E p \in Sides : p # s
    BY DEF Sides
  <2> QED BY <2>1 DEF Peer
<1> QED BY <1>1, CmuxAssumption DEF Home, Threads

\* A function on 1..n is a sequence.
LEMMA SeqOf ==
    ASSUME NEW n \in Nat, NEW T, NEW f \in [1..n -> T]
    PROVE  f \in Seq(T) /\ Len(f) = n
OBVIOUS

\* Channels are the numbers of the channels allocated so far, and 0 is none.
LEMMA ChannelsAre ==
    ASSUME Types
    PROVE  /\ Len(chan) \in Nat /\ Channels = 1..Len(chan) /\ 0 \notin Channels
           /\ \A c \in Channels : c \in Nat /\ chan[c] \in ChannelType
BY DEF Types, Channels

\* One channel's record is replaced.
LEMMA OneChannel ==
    ASSUME Types, NEW c \in Channels, NEW r \in ChannelType, chan' = [chan EXCEPT ![c] = r]
    PROVE  /\ chan' \in Seq(ChannelType) /\ Len(chan') = Len(chan) /\ Channels' = Channels
           /\ chan'[c] = r /\ \A d \in Channels \ {c} : chan'[d] = chan[d]
BY DEF Types, Channels

\* What Goto leaves behind.
LEMMA Gone ==
    ASSUME Types, NEW t \in Threads, NEW l \in Labels, Goto(t, l)
    PROVE  /\ work' \in [Threads -> PlaceType]
           /\ \A u \in Threads \ {t} : work'[u] = work[u]
           /\ work'[t].at = l
           /\ l \in {"idle", "listen"} => work'[t].ch = 0
           /\ l \notin {"idle", "listen"} =>
                /\ work'[t].ch = work[t].ch /\ work'[t].dlci = work[t].dlci
                /\ work'[t].then = work[t].then /\ work'[t].frame = work[t].frame
<1>1. /\ Idle \in PlaceType /\ [Idle EXCEPT !.at = "listen"] \in PlaceType /\ Idle.ch = 0 /\ Idle.at = "idle"
      /\ [Idle EXCEPT !.at = "listen"].at = "listen" /\ [Idle EXCEPT !.at = "listen"].ch = 0
  BY DEF Idle, PlaceType, Labels
<1>2. work[t] \in PlaceType
  BY DEF Types
<1>3. CASE l = "idle"
  <2>1. work' = [work EXCEPT ![t] = Idle]
    BY <1>3 DEF Goto
  <2> QED BY <1>1, <1>3, <2>1 DEF Types
<1>4. CASE l = "listen"
  <2>1. work' = [work EXCEPT ![t] = [Idle EXCEPT !.at = "listen"]]
    BY <1>4 DEF Goto
  <2> QED BY <1>1, <1>4, <2>1 DEF Types
<1>5. CASE l \notin {"idle", "listen"}
  <2>1. work' = [work EXCEPT ![t] = [work[t] EXCEPT !.at = l]]
    BY <1>5 DEF Goto
  <2>2. [work[t] EXCEPT !.at = l] \in PlaceType
    BY <1>2 DEF PlaceType
  <2> QED BY <1>2, <1>5, <2>1, <2>2 DEF Types, PlaceType
<1> QED BY <1>3, <1>4, <1>5

\* The wires when a thread of s transmits f: it is on the bearer, or lost, or
\* refused.
Sends(s, f, ok) ==
    /\ shut' = shut /\ ok \in BOOLEAN
    /\ \/ wire' = wire /\ (ok => ~shut[s] /\ shut[Peer(s)])
       \/ /\ ok /\ ~shut[s] /\ ~shut[Peer(s)] /\ Len(wire[s]) < BearerCap
          /\ wire' = [wire EXCEPT ![s] = Append(@, f)]

LEMMA Transmits ==
    ASSUME NEW t \in Threads, NEW f, NEW ok \in BOOLEAN, Transmit(t, f, ok)
    PROVE  Sends(Home(t), f, ok)
BY DEF Transmit, Sends

\* What is sent is on the bearer, or lost.
LEMMA Sent ==
    ASSUME Types, Bounded, NEW s \in Sides, NEW f \in Frames, NEW ok, Sends(s, f, ok)
    PROVE  /\ wire' \in [Sides -> Seq(Frames)] /\ shut' = shut /\ ok \in BOOLEAN
           /\ \A r \in Sides : Len(wire'[r]) <= BearerCap
           /\ \A r \in Sides : \A i \in DOMAIN wire'[r] :
                 (r = s /\ wire'[r][i] = f) \/ (i \in DOMAIN wire[r] /\ wire'[r][i] = wire[r][i])
<1>1. CASE wire' = wire
  BY <1>1 DEF Sends, Types, Bounded
<1>2. CASE ok /\ Len(wire[s]) < BearerCap /\ wire' = [wire EXCEPT ![s] = Append(@, f)]
  <2>1. wire[s] \in Seq(Frames) /\ wire'[s] = Append(wire[s], f) /\ \A r \in Sides \ {s} : wire'[r] = wire[r]
    BY <1>2 DEF Types
  <2>2. /\ wire'[s] \in Seq(Frames) /\ Len(wire'[s]) <= BearerCap
        /\ \A i \in DOMAIN wire'[s] : wire'[s][i] = f \/ (i \in DOMAIN wire[s] /\ wire'[s][i] = wire[s][i])
    BY <1>2, <2>1, CmuxAssumption
  <2> QED BY <1>2, <2>1, <2>2 DEF Types, Bounded, Sends
<1> QED BY <1>1, <1>2 DEF Sends
----------------------------------------------------------------------------
(* Steps that leave the table, the accept queues and the closing alone.     *)

\* What the bearer and the counters hold after the step.
Carried ==
    /\ wire' \in [Sides -> Seq(Frames)] /\ shut' \in [Sides -> BOOLEAN]
    /\ \A s \in Sides : /\ Len(wire'[s]) <= BearerCap
                        /\ \A i \in DOMAIN wire'[s] : wire'[s][i].type = "uih" => wire'[s][i].tag[1] \in Channels
    /\ dials' \in Nat /\ dials' <= MaxDials
    /\ calls' \in [Clients -> Nat] /\ \A t \in Clients : calls'[t] <= MaxCalls(t)

\* The thread t moves, to a place where it can be.
Moves(t) ==
    /\ work' \in [Threads -> PlaceType] /\ \A u \in Threads \ {t} : work'[u] = work[u]
    /\ work'[t].ch \in Channels' \cup {0}
    /\ t \in Sides => /\ WorkerPlace(t)'
                      /\ work'[t].at = "rx" =>
                           work'[t].frame \in Frames /\ work'[t].frame.type = "uih" /\ work'[t].frame.tag[1] \in Channels
    /\ t \in Clients => ClientPlace(t)'

\* The channels stay what they are, and none that has ended comes back.
KeepsChannels ==
    /\ chan' \in Seq(ChannelType) /\ Len(chan') = Len(chan)
    /\ \A c \in Channels :
        /\ chan'[c].side = chan[c].side /\ chan'[c].dlci = chan[c].dlci
        /\ chan'[c].registered = chan[c].registered
        /\ chan[c].phase \in Ended => chan'[c].phase \in Ended
        /\ Len(chan'[c].rx) <= RxCap /\ \A i \in DOMAIN chan'[c].rx : chan'[c].rx[i][1] \in Channels

\* A connection is made by the call that is making it.
Makes(t) ==
    /\ t \in Clients /\ work'[t].at \in Making =>
         /\ work[t].at \in Making /\ work'[t].ch = work[t].ch
         /\ chan'[work[t].ch].conn = chan[work[t].ch].conn
    /\ \A c \in Channels : chan[c].conn = "none" /\ chan'[c].conn # "none" =>
         t \in Clients /\ work[t].at \in Making /\ work[t].ch = c

\* The references that t takes and gives back are its own and the connection's.
Calls(t, c) == t \in Clients /\ work[t].ch = c /\ Retains(t)
Counts(t) ==
    \A c \in Channels :
        chan'[c].refs - One(HasConn(c))' - One(Calls(t, c))' = chan[c].refs - One(HasConn(c)) - One(Calls(t, c))

\* Who sleeps on has nothing to look at.
Unmoved(u) ==
    /\ work[u].at = "ready" => ready'[Home(u)] = ready[Home(u)]
    /\ work[u].at \in {"await", "opened", "read", "rx"} =>
         LET c == work[u].ch IN
         /\ chan'[c].phase = chan[c].phase /\ chan'[c].registered = chan[c].registered /\ chan'[c].rx = chan[c].rx
    /\ work[u].at \in {"ready", "accept"} => closed'[Home(u)] = closed[Home(u)]
    /\ work[u].at = "accept" /\ Offering(Home(u)) => Offering(Home(u))'
Rests(t) == asleep' \subseteq asleep /\ t \notin asleep' /\ \A u \in asleep' : Unmoved(u)

\* A session that has been taken down stays down.
Fades == alive' \in [Sides -> BOOLEAN] /\ \A s \in Sides : alive'[s] => alive[s]

\* A session that closes ends what its table leads to.
Closes ==
    /\ closed' \in [Sides -> BOOLEAN] /\ \A s \in Sides : closed[s] => closed'[s]
    /\ \A s \in Sides, c \in Channels : closed'[s] /\ ~closed[s] /\ chan[c].side = s /\ table[s][chan[c].dlci] = c =>
          chan'[c].phase \in Ended

Calm(t) ==
    /\ UNCHANGED <<table, queue>> /\ Fades /\ Closes /\ ready' \in [Sides -> BOOLEAN]
    /\ Carried /\ Moves(t) /\ KeepsChannels /\ Makes(t) /\ Counts(t) /\ Rests(t)

\* The size of a set, with and without one element.
LEMMA WithoutOne ==
    ASSUME NEW S, IsFiniteSet(S), NEW t
    PROVE  Cardinality(S) \in Nat /\ Cardinality(S \ {t}) \in Nat
           /\ Cardinality(S) = Cardinality(S \ {t}) + One(t \in S)
<1>1. CASE t \in S
  <2>1. Cardinality(S) \in Nat /\ Cardinality(S \ {t}) \in Nat /\ Cardinality(S \ {t}) = Cardinality(S) - 1
    BY <1>1, FS_RemoveElement, FS_CardinalityType
  <2>2. One(t \in S) = 1
    BY <1>1 DEF One
  <2> QED BY <2>1, <2>2
<1>2. CASE t \notin S
  <2>1. S \ {t} = S /\ Cardinality(S) \in Nat
    BY <1>2, FS_CardinalityType
  <2>2. One(t \in S) = 0
    BY <1>2 DEF One
  <2> QED BY <2>1, <2>2
<1> QED BY <1>1, <1>2

\* The callers but one are the callers but that one.
LEMMA CallersCount ==
    ASSUME NEW t, NEW c
    PROVE  /\ Cardinality(Callers(c)) \in Nat /\ Cardinality(Callers(c) \ {t}) \in Nat
           /\ Cardinality(Callers(c)) = Cardinality(Callers(c) \ {t}) + One(Calls(t, c))
<1>1. IsFiniteSet(Callers(c)) /\ (t \in Callers(c) <=> Calls(t, c))
  BY CmuxAssumption, FS_Subset DEF Callers, Calls
<1> QED BY <1>1, WithoutOne DEF One

\* The callers of a channel after a step, with and without one of them.
LEMMA CallersCountNext ==
    ASSUME NEW t, NEW c
    PROVE  /\ Cardinality(Callers(c)') \in Nat /\ Cardinality(Callers(c)' \ {t}) \in Nat
           /\ Cardinality(Callers(c)') = Cardinality(Callers(c)' \ {t}) + One(Calls(t, c))'
<1>1. IsFiniteSet(Callers(c)') /\ (t \in Callers(c)' <=> Calls(t, c)')
  BY CmuxAssumption, FS_Subset DEF Callers, Calls
<1> QED BY <1>1, WithoutOne DEF One

\* The calls of the other threads hold what they held.
LEMMA OthersCall ==
    ASSUME NEW t \in Threads, NEW c, \A u \in Threads \ {t} : work'[u] = work[u]
    PROVE  Callers(c)' \ {t} = Callers(c) \ {t}
BY SidesOf DEF Callers, Retains

\* A calm step keeps the invariant.
LEMMA CalmKeeps ==
    ASSUME CmuxInv, NEW t \in Threads, Calm(t)
    PROVE  CmuxInv'
<1>c. /\ Channels' = Channels /\ Channels = 1..Len(chan) /\ 0 \notin Channels
      /\ table' = table /\ queue' = queue
      /\ closed' \in [Sides -> BOOLEAN] /\ \A s \in Sides : closed[s] => closed'[s]
      /\ alive' \in [Sides -> BOOLEAN] /\ \A s \in Sides : alive'[s] => alive[s]
      /\ \A u \in Threads \ {t} : work'[u] = work[u]
      /\ \A c \in Channels : chan[c] \in ChannelType /\ chan'[c] \in ChannelType
  BY DEF CmuxInv, Types, Calm, KeepsChannels, Channels, Moves, Fades, Closes
<1>1. Types'
  BY <1>c DEF CmuxInv, Types, Calm, Carried, Moves, KeepsChannels, Rests
<1>2. Bounded'
  <2>1. \A s \in Sides : work'[s].at = "rx" =>
          work'[s].frame \in Frames /\ work'[s].frame.type = "uih" /\ work'[s].frame.tag[1] \in Channels'
    BY <1>c, SidesOf DEF CmuxInv, Bounded, Calm, Moves
  <2>2. /\ \A s \in Sides : Len(queue'[s]) <= MaxQueue
    BY <1>c DEF CmuxInv, Bounded
  <2> QED BY <1>c, <2>1, <2>2 DEF Bounded, Calm, Carried, KeepsChannels
<1>3. Placed'
  <2>1. ASSUME NEW u \in Threads PROVE (work[u].ch \in Channels \cup {0})'
    BY <1>c, <2>1 DEF CmuxInv, Placed, Calm, Moves
  <2>2. ASSUME NEW u \in Sides PROVE WorkerPlace(u)'
    <3>1. CASE u = t
      BY <2>2, <3>1 DEF Calm, Moves
    <3>2. CASE u # t
      <4>1. WorkerPlace(u) /\ work'[u] = work[u]
        BY <1>c, <2>2, <3>2, SidesOf DEF CmuxInv, Placed
      <4> QED BY <1>c, <2>2, <4>1 DEF WorkerPlace, Calm, KeepsChannels
    <3> QED BY <3>1, <3>2
  <2>3. ASSUME NEW u \in Clients PROVE ClientPlace(u)'
    <3>1. CASE u = t
      BY <2>3, <3>1 DEF Calm, Moves
    <3>2. CASE u # t
      <4>1. ClientPlace(u) /\ work'[u] = work[u]
        BY <1>c, <2>3, <3>2, SidesOf DEF CmuxInv, Placed
      <4>2. HomeOf[u] \in Sides
        BY CmuxAssumption
      <4> QED BY <1>c, <4>1, <4>2 DEF ClientPlace, Calm, KeepsChannels
    <3> QED BY <3>1, <3>2
  <2> QED BY <2>1, <2>2, <2>3 DEF Placed
<1>4. Listed'
  <2>1. \A c \in Channels : /\ chan'[c].side = chan[c].side /\ chan'[c].dlci = chan[c].dlci
                             /\ chan'[c].registered = chan[c].registered /\ chan[c].side \in Sides
    BY <1>c DEF Calm, KeepsChannels, ChannelType
  <2> QED BY <1>c, <2>1 DEF CmuxInv, Listed
<1>5. Queued'
  BY <1>c DEF CmuxInv, Queued, Calm, KeepsChannels
<1>6. LiveListed'
  <2>1. ASSUME NEW c \in Channels, chan'[c].phase \notin Ended
        PROVE  ~closed'[chan[c].side] /\ table[chan[c].side][chan[c].dlci] = c
    <3>1. chan[c].phase \notin Ended /\ chan[c].side \in Sides
      BY <1>c, <2>1 DEF Calm, KeepsChannels, ChannelType
    <3>2. ~closed[chan[c].side] /\ table[chan[c].side][chan[c].dlci] = c
      BY <3>1 DEF CmuxInv, LiveListed
    <3> QED BY <1>c, <2>1, <3>1, <3>2 DEF Calm, Closes
  <2> QED BY <1>c, <2>1 DEF LiveListed, Calm, KeepsChannels
<1>7. MadeOnce'
  <2>1. \A c : InQueue(c)' <=> InQueue(c)
    BY <1>c DEF InQueue
  <2>2. /\ \A u \in Clients : work'[u].at \in Making => work[u].at \in Making /\ work'[u].ch = work[u].ch
    BY <1>c, SidesOf DEF Calm, Makes
  <2>3. \A u \in Clients : work[u].at \in Making => work[u].ch \in Channels
    BY DEF CmuxInv, Placed, ClientPlace, Making, Handling
  <2>4. ASSUME NEW u \in Clients, work'[u].at \in Making PROVE chan'[work[u].ch].conn = "none"
    <3>1. chan[work[u].ch].conn = "none" /\ work[u].ch \in Channels
      BY <2>2, <2>3, <2>4 DEF CmuxInv, MadeOnce
    <3>2. CASE u = t
      BY <2>2, <2>4, <3>1, <3>2 DEF Calm, Makes
    <3>3. CASE u # t
      BY <2>2, <2>4, <3>1, <3>3 DEF Calm, Makes, CmuxInv, MadeOnce
    <3> QED BY <3>2, <3>3
  <2>5. ASSUME NEW c \in Channels, InQueue(c) PROVE chan'[c].conn = "none"
    BY <2>5 DEF Calm, Makes, CmuxInv, MadeOnce
  <2> QED BY <1>c, <2>1, <2>2, <2>4, <2>5 DEF MadeOnce, CmuxInv
<1>8. Counted'
  <2> SUFFICES ASSUME NEW c \in Channels
               PROVE  chan'[c].refs = One(InTable(c))' + One(InQueue(c))' + One(HasConn(c))' + Cardinality(Callers(c)')
    BY <1>c DEF Counted, One
  <2>1. /\ One(InTable(c))' = One(InTable(c)) /\ One(InQueue(c))' = One(InQueue(c))
        /\ One(InTable(c)) \in Int /\ One(InQueue(c)) \in Int
    BY <1>c DEF One, InTable, InQueue
  <2>2. Callers(c)' \ {t} = Callers(c) \ {t}
    BY <1>c, OthersCall
  <2>3. chan[c].refs \in Int /\ chan'[c].refs \in Int
    BY <1>c DEF ChannelType
  <2>4. chan'[c].refs - One(HasConn(c))' - One(Calls(t, c))' = chan[c].refs - One(HasConn(c)) - One(Calls(t, c))
    BY DEF Calm, Counts
  <2>5. chan[c].refs = One(InTable(c)) + One(InQueue(c)) + One(HasConn(c)) + Cardinality(Callers(c))
    BY DEF CmuxInv, Counted
  <2>6. /\ One(HasConn(c))' \in Int /\ One(Calls(t, c))' \in Int /\ One(HasConn(c)) \in Int /\ One(Calls(t, c)) \in Int
    BY DEF One
  <2>7. /\ Cardinality(Callers(c)) \in Int /\ Cardinality(Callers(c)') \in Int
        /\ Cardinality(Callers(c)') - One(Calls(t, c))' = Cardinality(Callers(c)) - One(Calls(t, c))
    <3>1. /\ Cardinality(Callers(c)) \in Nat /\ Cardinality(Callers(c) \ {t}) \in Nat
          /\ Cardinality(Callers(c)) = Cardinality(Callers(c) \ {t}) + One(Calls(t, c))
      BY CallersCount
    <3>2. /\ Cardinality(Callers(c)') \in Nat /\ Cardinality(Callers(c)' \ {t}) \in Nat
          /\ Cardinality(Callers(c)') = Cardinality(Callers(c)' \ {t}) + One(Calls(t, c))'
      BY CallersCountNext
    <3>3. Cardinality(Callers(c)' \ {t}) = Cardinality(Callers(c) \ {t})
      BY <2>2, Zenon
    <3> QED BY <3>1, <3>2, <3>3 DEF One
  <2> QED BY <2>1, <2>3, <2>4, <2>5, <2>7 DEF One
<1>9. AsleepRight'
  <2> SUFFICES ASSUME NEW u \in asleep'
               PROVE  MustWait(u)' \/ (work'[u].at = "accept" /\ ~closed'[Home(u)] /\ Offering(Home(u))')
    BY DEF AsleepRight, Home
  <2>1. u \in asleep /\ u \in Threads /\ u # t /\ Unmoved(u) /\ work'[u] = work[u] /\ Home(u) \in Sides
    BY <1>c, SidesOf DEF Calm, Rests, CmuxInv, Types
  <2>2. CASE MustWait(u)
    BY <1>c, <2>1, <2>2 DEF MustWait, Unmoved, Holds, Home
  <2>3. CASE work[u].at = "accept" /\ ~closed[Home(u)] /\ Offering(Home(u))
    BY <1>c, <2>1, <2>3 DEF Unmoved
  <2> QED BY <2>1, <2>2, <2>3 DEF AsleepRight, CmuxInv
<1> QED BY <1>1, <1>2, <1>3, <1>4, <1>5, <1>6, <1>7, <1>8, <1>9 DEF CmuxInv
----------------------------------------------------------------------------
(* What the bearer carries.                                                 *)
LEMMA CarriedStill ==
    ASSUME Types, Bounded, UNCHANGED <<wire, shut, countVars>>
    PROVE  Carried
BY DEF Types, Bounded, Carried, countVars

LEMMA CarriedSame ==
    ASSUME Types, Bounded, UNCHANGED <<bearerVars, countVars>>
    PROVE  Carried
BY CarriedStill DEF bearerVars

\* A frame that is sent keeps the wires well formed.
LEMMA CarriedSent ==
    ASSUME Types, Bounded, NEW s \in Sides, NEW f \in Frames, NEW ok, Sends(s, f, ok),
           f.type = "uih" => f.tag[1] \in Channels, UNCHANGED countVars
    PROVE  Carried
<1>1. /\ wire' \in [Sides -> Seq(Frames)] /\ shut' = shut
      /\ \A r \in Sides : Len(wire'[r]) <= BearerCap
      /\ \A r \in Sides : \A i \in DOMAIN wire'[r] :
            (r = s /\ wire'[r][i] = f) \/ (i \in DOMAIN wire[r] /\ wire'[r][i] = wire[r][i])
  BY Sent
<1> QED BY <1>1 DEF Types, Bounded, Carried, countVars

\* The beginning of a call keeps the wires and the counters in bounds.
LEMMA CarriedCall ==
    ASSUME Types, Bounded, NEW t \in Clients, NEW op, Call(t, op), UNCHANGED bearerVars,
           dials' = dials \/ (dials < MaxDials /\ dials' = dials + 1)
    PROVE  Carried
<1>1. /\ calls' \in [Clients -> Nat] /\ \A u \in Clients : calls'[u] <= MaxCalls(u)
  <2>1. /\ calls \in [Clients -> Nat] /\ calls[t] < MaxCalls(t) /\ calls' = [calls EXCEPT ![t] = calls[t] + 1]
        /\ \A u \in Clients : MaxCalls(u) \in Nat /\ calls[u] <= MaxCalls(u)
    BY CmuxAssumption DEF Types, Bounded, Call, MaxCalls
  <2> QED BY <2>1
<1>2. dials' \in Nat /\ dials' <= MaxDials
  BY CmuxAssumption DEF Types, Bounded
<1> QED BY <1>1, <1>2 DEF Types, Bounded, Carried, bearerVars

\* The frame a worker takes off the wire is a frame, and the rest still is.
LEMMA CarriedRead ==
    ASSUME Types, Bounded, NEW s \in Sides, NEW type, NEW control, Receive(s, type, control)
    PROVE  /\ Carried /\ alive' = alive /\ work[s].at = "listen" /\ s \notin asleep
           /\ Incoming(s) \in Frames /\ Incoming(s).type = type /\ (Incoming(s).dlci = 0) = control
           /\ Incoming(s).type = "uih" => Incoming(s).tag[1] \in Channels
<1>1. Peer(s) \in Sides
  BY SidesOf
<1>2. wire[Peer(s)] \in Seq(Frames) /\ wire[Peer(s)] # <<>>
  BY <1>1 DEF Types, Receive
<1>3. /\ Head(wire[Peer(s)]) = wire[Peer(s)][1] /\ 1 \in DOMAIN wire[Peer(s)]
      /\ wire[Peer(s)][1] \in Frames
      /\ Tail(wire[Peer(s)]) \in Seq(Frames) /\ Len(Tail(wire[Peer(s)])) = Len(wire[Peer(s)]) - 1
      /\ Len(wire[Peer(s)]) \in Nat
      /\ \A i \in DOMAIN Tail(wire[Peer(s)]) :
            i + 1 \in DOMAIN wire[Peer(s)] /\ Tail(wire[Peer(s)])[i] = wire[Peer(s)][i + 1]
  BY <1>2
<1>4. /\ wire' = [wire EXCEPT ![Peer(s)] = Tail(wire[Peer(s)])] /\ shut' = shut /\ alive' = alive
      /\ dials' = dials /\ calls' = calls /\ work[s].at = "listen" /\ s \notin asleep
      /\ Head(wire[Peer(s)]).type = type /\ (Head(wire[Peer(s)]).dlci = 0) = control
  BY DEF Receive, At, countVars
<1>5. /\ wire' \in [Sides -> Seq(Frames)] /\ wire'[Peer(s)] = Tail(wire[Peer(s)])
      /\ \A r \in Sides \ {Peer(s)} : wire'[r] = wire[r]
  BY <1>1, <1>3, <1>4 DEF Types
<1>6. \A r \in Sides : Len(wire'[r]) <= BearerCap
  <2>1. Len(wire[Peer(s)]) <= BearerCap
    BY <1>1 DEF Bounded
  <2>2. Len(wire'[Peer(s)]) <= BearerCap
    BY <1>3, <1>5, <2>1, CmuxAssumption
  <2> QED BY <1>5, <2>2 DEF Bounded
<1>7. \A r \in Sides : \A i \in DOMAIN wire'[r] : wire'[r][i].type = "uih" => wire'[r][i].tag[1] \in Channels
  <2>1. ASSUME NEW i \in DOMAIN wire'[Peer(s)], wire'[Peer(s)][i].type = "uih"
        PROVE  wire'[Peer(s)][i].tag[1] \in Channels
    <3>1. i + 1 \in DOMAIN wire[Peer(s)] /\ wire'[Peer(s)][i] = wire[Peer(s)][i + 1]
      BY <1>3, <1>5, <2>1
    <3> QED BY <1>1, <2>1, <3>1 DEF Bounded
  <2> QED BY <1>5, <2>1 DEF Bounded
<1> QED BY <1>1, <1>3, <1>4, <1>5, <1>6, <1>7 DEF Carried, Types, Bounded, Incoming

----------------------------------------------------------------------------
(* Steps that touch no channel, and steps that touch one.                   *)
LEMMA ClientFades ==
    ASSUME CmuxInv, NEW t \in Clients, t \notin asleep, Fades,
           UNCHANGED <<sessionVars, chan, asleep>>, Carried, Moves(t),
           Retains(t)' = Retains(t), Retains(t) => work'[t].ch = work[t].ch,
           work'[t].at \in Making => work[t].at \in Making /\ work'[t].ch = work[t].ch
    PROVE  CmuxInv'
<1>1. /\ UNCHANGED <<closed, table, queue>> /\ ready' = ready /\ chan' = chan /\ asleep' = asleep
      /\ t \in Threads /\ t \notin Sides
  BY SidesOf DEF sessionVars
<1>2. KeepsChannels
  BY <1>1 DEF CmuxInv, Types, Bounded, KeepsChannels, Channels
<1>3. Makes(t)
  BY <1>1 DEF Makes
<1>4. Counts(t)
  <2> SUFFICES ASSUME NEW c \in Channels
               PROVE  chan'[c].refs - One(HasConn(c))' - One(Calls(t, c))' = chan[c].refs - One(HasConn(c)) - One(Calls(t, c))
    BY DEF Counts
  <2>1. Calls(t, c)' <=> Calls(t, c)
    BY DEF Calls
  <2>2. One(Calls(t, c))' = One(Calls(t, c)) /\ One(HasConn(c))' = One(HasConn(c))
    BY <1>1, <2>1 DEF One, HasConn
  <2> QED BY <1>1, <2>2
<1>5. Rests(t)
  <2>1. \A s \in Sides : work'[s] = work[s]
    BY <1>1, SidesOf DEF Moves
  <2>2. ASSUME NEW u \in asleep PROVE Unmoved(u)
    <3>1. Home(u) \in Sides
      BY SidesOf DEF CmuxInv, Types
    <3>2. Offering(Home(u)) => Offering(Home(u))'
      BY <2>1, <3>1 DEF Offering, Home
    <3> QED BY <1>1, <3>2 DEF Unmoved
  <2> QED BY <1>1, <2>2 DEF Rests
<1>6. ready' \in [Sides -> BOOLEAN] /\ Closes
  BY <1>1 DEF CmuxInv, Types, Closes
<1> QED BY <1>1, <1>2, <1>3, <1>4, <1>5, <1>6, CalmKeeps DEF Calm

\* A client that only changes its place keeps the invariant.
LEMMA ClientWalks ==
    ASSUME CmuxInv, NEW t \in Clients, t \notin asleep,
           UNCHANGED <<sessionVars, chan, alive, asleep>>, Carried, Moves(t),
           Retains(t)' = Retains(t), Retains(t) => work'[t].ch = work[t].ch,
           work'[t].at \in Making => work[t].at \in Making /\ work'[t].ch = work[t].ch
    PROVE  CmuxInv'
<1>1. Fades
  BY DEF Fades, CmuxInv, Types
<1> QED BY <1>1, ClientFades

\* The worker's sleepers in accept sleep on while it has something to offer.
LEMMA WorkerWalks ==
    ASSUME CmuxInv, NEW s \in Sides, s \notin asleep',
           UNCHANGED <<closed, table, queue, chan, alive>>, ready' \in [Sides -> BOOLEAN],
           asleep' \subseteq asleep, Carried, Moves(s),
           \A u \in asleep' : work[u].at = "ready" => ready'[Home(u)] = ready[Home(u)],
           \A u \in asleep' : work[u].at = "accept" /\ Home(u) = s /\ Offering(s) => Offering(s)'
    PROVE  CmuxInv'
<1>1. s \in Threads /\ s \notin Clients
  BY SidesOf
<1>2. KeepsChannels
  BY DEF CmuxInv, Types, Bounded, KeepsChannels, Channels
<1>3. Makes(s)
  BY <1>1 DEF Makes
<1>4. Counts(s)
  <2> SUFFICES ASSUME NEW c \in Channels
               PROVE  chan'[c].refs - One(HasConn(c))' - One(Calls(s, c))' = chan[c].refs - One(HasConn(c)) - One(Calls(s, c))
    BY DEF Counts
  <2>1. One(Calls(s, c))' = One(Calls(s, c)) /\ One(HasConn(c))' = One(HasConn(c))
    BY <1>1 DEF One, HasConn, Calls
  <2> QED BY <2>1
<1>5. Rests(s)
  <2>2. ASSUME NEW u \in asleep' PROVE Unmoved(u)
    <3>1. Home(u) \in Sides /\ (Home(u) # s => work'[Home(u)] = work[Home(u)])
      BY SidesOf DEF CmuxInv, Types, Moves
    <3>2. CASE Home(u) # s
      <4>1. Offering(Home(u)) => Offering(Home(u))'
        BY <3>1, <3>2 DEF Offering, Home
      <4> QED BY <4>1, <2>2 DEF Unmoved
    <3>3. CASE Home(u) = s
      <4>1. work[u].at = "accept" /\ Offering(Home(u)) => Offering(Home(u))'
        BY <2>2, <3>3 DEF Offering, Home
      <4> QED BY <4>1, <2>2 DEF Unmoved
    <3> QED BY <3>2, <3>3
  <2> QED BY <2>2 DEF Rests
<1>6. Fades
  BY DEF Fades, CmuxInv, Types
<1>7. Closes
  BY <1>1 DEF Closes, CmuxInv, Types
<1> QED BY <1>1, <1>2, <1>3, <1>4, <1>5, <1>6, <1>7, CalmKeeps DEF Calm

\* The channel c becomes r. Who waits on it looks again, unless r shows nothing new.
Becomes(t, c, r) ==
    /\ chan' = [chan EXCEPT ![c] = r]
    /\ r.side = chan[c].side /\ r.dlci = chan[c].dlci /\ r.registered = chan[c].registered
    /\ chan[c].phase \in Ended => r.phase \in Ended
    /\ Len(r.rx) <= RxCap /\ \A i \in DOMAIN r.rx : r.rx[i][1] \in Channels
    /\ (r.phase = chan[c].phase /\ r.rx = chan[c].rx) \/ asleep' \cap OnChannel(c) = {}

\* A thread that changes its place and one channel keeps it.
LEMMA TouchesOne ==
    ASSUME CmuxInv, NEW t \in Threads, NEW c \in Channels, NEW r \in ChannelType, Becomes(t, c, r),
           UNCHANGED <<sessionVars, alive>>, Carried, Moves(t), Makes(t), t \notin asleep', asleep' \subseteq asleep,
           t \in Sides /\ Offering(t) => Offering(t)',
           \A d \in Channels \ {c} : Calls(t, d)' <=> Calls(t, d),
           chan'[c].refs - One(HasConn(c))' - One(Calls(t, c))' = chan[c].refs - One(HasConn(c)) - One(Calls(t, c))
    PROVE  CmuxInv'
<1>1. /\ UNCHANGED <<closed, table, queue, alive>> /\ ready' = ready /\ ready' \in [Sides -> BOOLEAN]
      /\ chan' \in Seq(ChannelType) /\ Len(chan') = Len(chan) /\ Channels' = Channels
      /\ chan'[c] = r /\ \A d \in Channels \ {c} : chan'[d] = chan[d]
  BY OneChannel DEF Becomes, sessionVars, CmuxInv, Types
<1>2. KeepsChannels
  BY <1>1 DEF CmuxInv, Bounded, KeepsChannels, Becomes
<1>4. Counts(t)
  <2>1. ASSUME NEW d \in Channels \ {c}
        PROVE  chan'[d].refs - One(HasConn(d))' - One(Calls(t, d))' = chan[d].refs - One(HasConn(d)) - One(Calls(t, d))
    <3>1. One(Calls(t, d))' = One(Calls(t, d)) /\ One(HasConn(d))' = One(HasConn(d))
      BY <1>1, <2>1 DEF One, HasConn
    <3> QED BY <1>1, <2>1, <3>1
  <2> QED BY <2>1 DEF Counts
<1>5. Rests(t)
  <2>2. ASSUME NEW u \in asleep' PROVE Unmoved(u)
    <3>0. u \in asleep /\ u \in Threads /\ Home(u) \in Sides
      BY SidesOf DEF CmuxInv, Types
    <3>1. Offering(Home(u)) => Offering(Home(u))'
      <4>1. CASE Home(u) = t
        BY <3>0, <4>1 DEF Offering, Home
      <4>2. CASE Home(u) # t
        <5>1. work'[Home(u)] = work[Home(u)]
          BY <3>0, <4>2, SidesOf DEF Moves
        <5> QED BY <5>1 DEF Offering, Home
      <4> QED BY <4>1, <4>2
    <3>2. ASSUME work[u].at \in {"await", "opened", "read", "rx"}
          PROVE  work[u].ch \in Channels
      <4>1. CASE u \in Clients
        <5>1. ClientPlace(u)
          BY <4>1 DEF CmuxInv, Placed
        <5>2. work[u].at # "rx"
          BY <5>1 DEF ClientPlace, Handling, Dialling, Ending
        <5> QED BY <3>2, <5>1, <5>2 DEF ClientPlace, Handling
      <4>2. CASE u \in Sides
        BY <3>2, <4>2 DEF CmuxInv, Placed, WorkerPlace
      <4> QED BY <3>0, <4>1, <4>2 DEF Threads
    <3>3. ASSUME work[u].at \in {"await", "opened", "read", "rx"}
          PROVE  LET d == work[u].ch IN
                 chan'[d].phase = chan[d].phase /\ chan'[d].registered = chan[d].registered /\ chan'[d].rx = chan[d].rx
      <4>1. CASE work[u].ch = c
        BY <1>1, <2>2, <3>0, <3>3, <4>1 DEF Becomes, OnChannel
      <4>2. CASE work[u].ch # c
        BY <1>1, <3>2, <3>3, <4>2
      <4> QED BY <4>1, <4>2
    <3> QED BY <1>1, <3>1, <3>3 DEF Unmoved
  <2> QED BY <2>2 DEF Rests
<1>6. Fades
  BY DEF Fades, CmuxInv, Types
<1>7. Closes
  BY <1>1 DEF Closes, CmuxInv, Types
<1> QED BY <1>1, <1>2, <1>4, <1>5, <1>6, <1>7, CalmKeeps DEF Calm
----------------------------------------------------------------------------
(* Clients that move on.                                                    *)
Places == Handling \cup Dialling \cup Ending \cup {"idle", "lost", "accept", "join"}

\* The places of clients are among the labels.
LEMMA PlacesAre == Places \subseteq Labels /\ Retaining \cup {"close", "disc"} \subseteq Places
                   /\ "listen" \notin Places
BY DEF Places, Handling, Dialling, Ending, Labels, Retaining

\* Goto takes a client to a place that fits it.
LEMMA ClientGoes ==
    ASSUME CmuxInv, NEW t \in Clients, NEW l \in Places, Goto(t, l),
           Channels' = Channels, \A c \in Channels : chan'[c].side = chan[c].side,
           closed' = closed, alive' = alive,
           l \in Handling => work[t].at \in Handling,
           l \in Dialling => work[t].at \in Dialling,
           l \in {"close", "disc"} => work[t].then \in {"idle", "release"},
           l \in Ending => work[t].then \in {"idle", "join"},
           l = "join" \/ (l \in Ending /\ work[t].then = "join") => ~alive[HomeOf[t]],
           l \in {"bye", "hangup", "join"} => closed[HomeOf[t]]
    PROVE  /\ Moves(t) /\ work'[t].at = l
           /\ l = "idle" => work'[t].ch = 0
           /\ l # "idle" => work'[t].ch = work[t].ch /\ work'[t].then = work[t].then
<1>1. /\ l \in Labels /\ l # "listen" /\ t \in Threads /\ t \notin Sides /\ ClientPlace(t) /\ Types
      /\ work[t].ch \in Channels \cup {0}
  BY PlacesAre, SidesOf DEF CmuxInv, Placed
<1>2. /\ work' \in [Threads -> PlaceType] /\ work'[t].at = l
      /\ \A u \in Threads \ {t} : work'[u] = work[u]
      /\ l = "idle" => work'[t].ch = 0
      /\ l # "idle" => /\ work'[t].ch = work[t].ch /\ work'[t].dlci = work[t].dlci
                       /\ work'[t].then = work[t].then
  BY <1>1, Gone
<1>3. ClientPlace(t)'
  <2>1. l \in Handling \cup Dialling \cup Ending => l # "idle"
    BY DEF Handling, Dialling, Ending
  <2>2. l \in Handling => work'[t].ch \in Channels /\ chan'[work'[t].ch].side = HomeOf[t]
    BY <1>1, <1>2, <2>1 DEF ClientPlace
  <2>3. l \in Dialling => work'[t].dlci \in Dlcis
    BY <1>1, <1>2, <2>1 DEF ClientPlace
  <2>4. l \in {"close", "disc"} => work'[t].then \in {"idle", "release"}
    BY <1>2
  <2>5. l \in Ending => work'[t].then \in {"idle", "join"}
    BY <1>2, <2>1
  <2>6. l = "join" \/ (l \in Ending /\ work'[t].then = "join") => ~alive'[HomeOf[t]]
    BY <1>2, <2>1
  <2>7. l \in {"bye", "hangup", "join"} => closed'[HomeOf[t]]
    OBVIOUS
  <2> QED BY <1>2, <2>2, <2>3, <2>4, <2>5, <2>6, <2>7 DEF ClientPlace, Places
<1>4. work'[t].ch \in Channels' \cup {0}
  BY <1>1, <1>2
<1> QED BY <1>1, <1>2, <1>3, <1>4 DEF Moves

\* So does Begin.
LEMMA ClientBegins ==
    ASSUME CmuxInv, NEW t \in Clients, NEW l \in Places \ Dialling, NEW c \in Channels \cup {0},
           NEW then \in {"idle", "release", "join"}, Begin(t, l, c, then),
           Channels' = Channels, \A d \in Channels : chan'[d].side = chan[d].side,
           l \in Handling => c \in Channels /\ chan[c].side = HomeOf[t],
           l \in {"close", "disc"} => then \in {"idle", "release"},
           l \in Ending => then \in {"idle", "join"},
           l = "join" \/ (l \in Ending /\ then = "join") => ~alive'[HomeOf[t]],
           l \notin {"bye", "hangup", "join"}
    PROVE  Moves(t) /\ work'[t].at = l /\ work'[t].ch = c /\ work'[t].then = then
<1>1. /\ l \in Labels /\ t \in Threads /\ t \notin Sides /\ work \in [Threads -> PlaceType]
      /\ c \in Nat /\ then \in Labels
  BY PlacesAre, SidesOf, ChannelsAre DEF CmuxInv, Types, Labels
<1>0. PICK r : r = [Idle EXCEPT !.at = l, !.ch = c, !.then = then]
  OBVIOUS
<1>2. r \in PlaceType /\ r.at = l /\ r.ch = c /\ r.then = then
  <2>1. r = [at |-> l, ch |-> c, dlci |-> 0, frame |-> None, then |-> then]
    BY <1>0 DEF Idle
  <2> DEFINE D == Dlcis \cup {0}
             F == Frames \cup {None}
  <2>2. 0 \in D /\ None \in F
    OBVIOUS
  <2> HIDE DEF D, F
  <2>3. r \in [at : Labels, ch : Nat, dlci : D, frame : F, then : Labels]
    BY ONLY <1>1, <2>1, <2>2
  <2> QED BY <2>1, <2>3 DEF PlaceType, D, F
<1>3. work' = [work EXCEPT ![t] = r]
  BY <1>0 DEF Begin
<1>5. /\ work' \in [Threads -> PlaceType] /\ \A u \in Threads \ {t} : work'[u] = work[u]
      /\ work'[t].at = l /\ work'[t].ch = c /\ work'[t].then = then
  BY <1>1, <1>2, <1>3
<1>6. ClientPlace(t)'
  BY <1>5 DEF ClientPlace, Places
<1> QED BY <1>1, <1>5, <1>6 DEF Moves

\* What a client that is somewhere has in its hands.
LEMMA Hands ==
    ASSUME CmuxInv, NEW t \in Clients
    PROVE  /\ t \in Threads /\ t \notin Sides /\ Home(t) = HomeOf[t] /\ HomeOf[t] \in Sides
           /\ work \in [Threads -> PlaceType] /\ work[t].at \in Places /\ work[t].ch \in Channels \cup {0}
           /\ work[t].at \in Handling => work[t].ch \in Channels /\ chan[work[t].ch].side = HomeOf[t]
                                         /\ chan[work[t].ch] \in ChannelType
           /\ work[t].at \in Dialling => work[t].dlci \in Dlcis
           /\ work[t].at \in {"close", "disc"} => work[t].then \in {"idle", "release"}
           /\ work[t].at \in Ending => work[t].then \in {"idle", "join"}
           /\ work[t].at = "join" \/ (work[t].at \in Ending /\ work[t].then = "join") => ~alive[HomeOf[t]]
           /\ work[t].at \in {"bye", "hangup", "join"} => closed[HomeOf[t]]
<1>1. ClientPlace(t) /\ Types
  BY DEF CmuxInv, Placed
<1>2. work \in [Threads -> PlaceType] /\ \A c \in Channels : chan[c] \in ChannelType
  BY <1>1, ChannelsAre DEF Types
<1>3. t \in Threads /\ t \notin Sides /\ Home(t) = HomeOf[t] /\ HomeOf[t] \in Sides
  BY SidesOf, CmuxAssumption
<1>4. work[t].ch \in Channels \cup {0}
  BY <1>3 DEF CmuxInv, Placed
<1> QED BY <1>1, <1>2, <1>3, <1>4 DEF ClientPlace, Places
----------------------------------------------------------------------------
(* Client steps that touch no channel.                                      *)
LEMMA CarriedHangUp ==
    ASSUME Types, Bounded, NEW t \in Threads, HangUp(t)
    PROVE  Carried
<1>1. Home(t) \in Sides /\ Peer(Home(t)) \in Sides
  BY SidesOf
<1>2. /\ shut' = [shut EXCEPT ![Home(t)] = TRUE]
      /\ wire' = [wire EXCEPT ![Peer(Home(t))] = <<>>] /\ dials' = dials /\ calls' = calls
  BY DEF HangUp, countVars
<1>3. /\ wire' \in [Sides -> Seq(Frames)] /\ wire'[Peer(Home(t))] = <<>>
      /\ \A s \in Sides \ {Peer(Home(t))} : wire'[s] = wire[s]
  BY <1>1, <1>2 DEF Types
<1>4. Len(<<>>) = 0 /\ DOMAIN <<>> = {}
  OBVIOUS
<1>5. \A s \in Sides : /\ Len(wire'[s]) <= BearerCap
                       /\ \A i \in DOMAIN wire'[s] : wire'[s][i].type = "uih" => wire'[s][i].tag[1] \in Channels
  <2>1. Len(wire'[Peer(Home(t))]) <= BearerCap /\ DOMAIN wire'[Peer(Home(t))] = {}
    BY <1>3, <1>4, CmuxAssumption
  <2> QED BY <1>3, <2>1 DEF Bounded
<1> QED BY <1>1, <1>2, <1>3, <1>5 DEF Carried, Types, Bounded

\* Frames of the types with no data.
LEMMA FramesAre ==
    /\ \A type \in Types4, d \in Dlcis \cup {0}, n \in Nat :
          /\ Frame(type, d, n) \in Answers /\ Frame(type, d, n) \in Frames
          /\ Frame(type, d, n).type # "uih"
    /\ \A d \in Dlcis, w \in Nat, n \in Nat :
          Frame("uih", d, <<w, n>>) \in Frames /\ Frame("uih", d, <<w, n>>).tag[1] = w
BY DEF Frame, Frames, Answers, Types4

\* beginClose of the bearer by a client.
LEMMA ClientHangUp == ASSUME CmuxInv, NEW t \in Clients, HangUp(t) PROVE CmuxInv'
<1>1. /\ At(t, "hangup") /\ Goto(t, work[t].then) /\ UNCHANGED <<sessionVars, chan, alive, asleep>>
      /\ Channels' = Channels /\ closed' = closed /\ alive' = alive
  BY DEF HangUp, sessionVars, Channels
<1>2. work[t].then \in {"idle", "join"} /\ closed[HomeOf[t]] /\ (work[t].then = "join" => ~alive[HomeOf[t]])
  BY <1>1, Hands DEF At, Ending
<1>3. work[t].then \in Places /\ work[t].then \notin Handling \cup Dialling \cup Ending \cup Making
      /\ work[t].then \notin Retaining \cup {"close", "disc"}
  BY <1>2 DEF Places, Handling, Dialling, Ending, Making, Retaining
<1>4. Moves(t) /\ work'[t].at = work[t].then
  BY <1>1, <1>2, <1>3, ClientGoes
<1>5. Retains(t)' = FALSE /\ Retains(t) = FALSE
  BY <1>1, <1>3, <1>4 DEF Retains, Retaining, At
<1>6. Carried
  BY CarriedHangUp, Hands DEF CmuxInv
<1> QED BY <1>1, <1>3, <1>4, <1>5, <1>6, ClientWalks DEF At

\* A client sends DISC for the channel it closes.
LEMMA ClientSendDisc == ASSUME CmuxInv, NEW t \in Clients, SendDisc(t) PROVE CmuxInv'
<1>1. /\ At(t, "disc") /\ Goto(t, work[t].then) /\ UNCHANGED <<sessionVars, chan, alive, asleep>>
      /\ Channels' = Channels /\ closed' = closed /\ alive' = alive /\ UNCHANGED countVars
  BY DEF SendDisc, sessionVars, Channels
<1>2. /\ work[t].then \in {"idle", "release"} /\ work[t].at \in Handling
      /\ work[t].ch \in Channels /\ chan[work[t].ch] \in ChannelType
  BY <1>1, Hands DEF At, Handling
<1>3. work[t].then \in Places /\ work[t].then \notin Dialling \cup Ending \cup Making
  BY <1>2 DEF Places, Handling, Dialling, Ending, Making
<1>4. Moves(t) /\ work'[t].at = work[t].then /\ (work[t].then # "idle" => work'[t].ch = work[t].ch)
  BY <1>1, <1>2, <1>3, ClientGoes DEF Ending
<1>5. Retains(t)' = (work[t].then = "release") /\ Retains(t) = (work[t].then = "release")
  BY <1>1, <1>2, <1>4 DEF Retains, Retaining, At
<1>6. Carried
  <2>1. PICK ok \in BOOLEAN : Sends(Home(t), Frame("disc", chan[work[t].ch].dlci, 0), ok)
    BY Hands, Transmits DEF SendDisc, Holds
  <2>2. Home(t) \in Sides
    BY Hands
  <2>3. chan[work[t].ch].dlci \in Dlcis
    BY ONLY <1>2 DEF ChannelType
  <2> QED BY <1>1, <2>1, <2>2, <2>3, FramesAre, CarriedSent DEF CmuxInv, Types4
<1> QED BY <1>1, <1>2, <1>3, <1>4, <1>5, <1>6, ClientWalks DEF At

\* A client sends the DISC of the session.
LEMMA ClientSayBye == ASSUME CmuxInv, NEW t \in Clients, SayBye(t) PROVE CmuxInv'
<1>1. /\ At(t, "bye") /\ Goto(t, "hangup") /\ UNCHANGED <<sessionVars, chan, alive, asleep>>
      /\ Channels' = Channels /\ closed' = closed /\ alive' = alive /\ UNCHANGED countVars
  BY DEF SayBye, sessionVars, Channels
<1>2. work[t].then \in {"idle", "join"} /\ closed[HomeOf[t]] /\ (work[t].then = "join" => ~alive[HomeOf[t]])
  BY <1>1, Hands DEF At, Ending
<1>3. "hangup" \in Places /\ "hangup" \notin Handling \cup Dialling \cup Making
  BY DEF Places, Handling, Dialling, Ending, Making
<1>4. Moves(t) /\ work'[t].at = "hangup"
  BY <1>1, <1>2, <1>3, ClientGoes
<1>5. Retains(t)' = FALSE /\ Retains(t) = FALSE
  BY <1>1, <1>4 DEF Retains, Retaining, At
<1>6. Carried
  <2>1. PICK ok \in BOOLEAN : Sends(Home(t), Frame("disc", 0, 0), ok)
    BY Hands, Transmits DEF SayBye
  <2> QED BY <1>1, <2>1, Hands, FramesAre, CarriedSent DEF CmuxInv, Types4
<1> QED BY <1>1, <1>3, <1>4, <1>5, <1>6, ClientWalks DEF At

\* A client goes from one place to another and does nothing else.
LEMMA ClientPasses ==
    ASSUME CmuxInv, NEW t \in Clients, NEW l \in Places, At(t, work[t].at), Goto(t, l),
           UNCHANGED <<sessionVars, chan, bearerVars, alive, asleep, countVars>>,
           l \in Handling => work[t].at \in Handling,
           l \in Dialling => work[t].at \in Dialling,
           l \in Making => work[t].at \in Making,
           l \in Retaining <=> Retains(t), l \notin {"close", "disc"},
           l \in Ending => work[t].then \in {"idle", "join"},
           l = "join" \/ (l \in Ending /\ work[t].then = "join") => ~alive[HomeOf[t]],
           l \in {"bye", "hangup", "join"} => closed[HomeOf[t]]
    PROVE  CmuxInv'
<1>1. Channels' = Channels /\ chan' = chan /\ closed' = closed /\ alive' = alive /\ t \notin asleep
  BY DEF sessionVars, Channels, At
<1>2. /\ Moves(t) /\ work'[t].at = l /\ (l = "idle" => work'[t].ch = 0)
      /\ l # "idle" => work'[t].ch = work[t].ch
  BY <1>1, ClientGoes
<1>3. Retains(t)' = Retains(t) /\ "idle" \notin Making \cup Retaining
  BY <1>2 DEF Retains, Retaining, Making
<1>4. Carried
  BY CarriedSame DEF CmuxInv
<1> QED BY <1>1, <1>2, <1>3, <1>4, ClientWalks

\* The steps of clients that only move on.
LEMMA ClientPassing ==
    ASSUME CmuxInv, NEW t \in Clients,
           \/ (Shutdown(t) /\ closed[Home(t)]) \/ DialReady(t) \/ DialRefused(t) \/ DialAwaited(t) \/ AcceptClosed(t)
    PROVE  CmuxInv'
<1>1. CASE Shutdown(t) /\ closed[Home(t)]
  <2>1. /\ At(t, "shutdown") /\ Goto(t, work[t].then)
        /\ UNCHANGED <<sessionVars, chan, bearerVars, alive, asleep, countVars>>
    BY <1>1 DEF Shutdown
  <2>2. /\ work[t].then \in {"idle", "join"} /\ closed[HomeOf[t]] /\ (work[t].then = "join" => ~alive[HomeOf[t]])
        /\ work[t].at = "shutdown"
    BY <1>1, <2>1, Hands DEF At, Ending
  <2>3. /\ work[t].then \in Places /\ work[t].then \notin Handling \cup Dialling \cup Ending \cup Making
        /\ work[t].then \notin Retaining \cup {"close", "disc"} /\ ~Retains(t)
    BY <2>2 DEF Places, Handling, Dialling, Ending, Making, Retaining, Retains
  <2> QED BY <2>1, <2>2, <2>3, ClientPasses
<1>2. CASE DialReady(t)
  <2>1. PICK l \in {"look", "idle"} : Goto(t, l)
    BY <1>2 DEF DialReady
  <2>2. /\ At(t, "ready") /\ work[t].at = "ready"
        /\ UNCHANGED <<sessionVars, chan, bearerVars, alive, asleep, countVars>>
    BY <1>2 DEF DialReady, Proceeds, At
  <2>3. /\ l \in Places /\ l \notin Handling \cup Ending \cup Making \cup {"join", "bye", "close", "disc"}
        /\ work[t].at \in Dialling /\ l \notin Retaining /\ ~Retains(t)
    BY <2>1, <2>2 DEF Places, Handling, Dialling, Ending, Making, Retaining, Retains
  <2> QED BY <2>1, <2>2, <2>3, ClientPasses DEF Ending
<1>3. CASE DialRefused(t)
  <2>1. /\ At(t, "look") /\ Goto(t, "idle") /\ work[t].at = "look"
        /\ UNCHANGED <<sessionVars, chan, bearerVars, alive, asleep, countVars>>
    BY <1>3 DEF DialRefused, At
  <2>2. /\ "idle" \in Places /\ "idle" \notin Handling \cup Dialling \cup Ending \cup Making \cup Retaining
        /\ ~Retains(t)
    BY <2>1 DEF Places, Handling, Dialling, Ending, Making, Retaining, Retains
  <2> QED BY <2>1, <2>2, ClientPasses
<1>4. CASE DialAwaited(t)
  <2>1. /\ At(t, "await") /\ Goto(t, "letgo") /\ work[t].at = "await"
        /\ UNCHANGED <<sessionVars, chan, bearerVars, alive, asleep, countVars>>
    BY <1>4 DEF DialAwaited, Proceeds, At
  <2>2. /\ "letgo" \in Places /\ "letgo" \notin Ending \cup Making /\ "letgo" \in Retaining
        /\ work[t].at \in Handling \cap Dialling /\ Retains(t)
    BY <2>1 DEF Places, Handling, Dialling, Ending, Making, Retaining, Retains
  <2> QED BY <2>1, <2>2, ClientPasses
<1>5. CASE AcceptClosed(t)
  <2>1. /\ At(t, "accept") /\ Goto(t, "idle") /\ work[t].at = "accept"
        /\ UNCHANGED <<sessionVars, chan, bearerVars, alive, asleep, countVars>>
    BY <1>5 DEF AcceptClosed, Proceeds, At
  <2>2. /\ "idle" \in Places /\ "idle" \notin Handling \cup Dialling \cup Ending \cup Making \cup Retaining
        /\ ~Retains(t)
    BY <2>1 DEF Places, Handling, Dialling, Ending, Making, Retaining, Retains
  <2> QED BY <2>1, <2>2, ClientPasses
<1> QED BY <1>1, <1>2, <1>3, <1>4, <1>5

\* A client that gives up goes on to close the channel and release it.
LEMMA GivesUp ==
    ASSUME CmuxInv, NEW t \in Clients, work[t].at \in Handling, GiveUp(t),
           Channels' = Channels, \A c \in Channels : chan'[c].side = chan[c].side
    PROVE  Moves(t) /\ work'[t].at = "close" /\ work'[t].ch = work[t].ch /\ work'[t].then = "release"
<1>1. /\ t \in Threads /\ t \notin Sides /\ work[t] \in PlaceType /\ work \in [Threads -> PlaceType]
      /\ work[t].ch \in Channels /\ chan[work[t].ch].side = HomeOf[t]
  BY Hands
<1> DEFINE r == [work[t] EXCEPT !.at = "close", !.then = "release"]
<1>2. /\ r \in PlaceType /\ r.at = "close" /\ r.then = "release" /\ r.ch = work[t].ch
  BY <1>1 DEF PlaceType, Labels
<1>3. work' = [work EXCEPT ![t] = r]
  BY <1>1 DEF GiveUp
<1> HIDE DEF r
<1>4. /\ work' \in [Threads -> PlaceType] /\ \A u \in Threads \ {t} : work'[u] = work[u] /\ work'[t] = r
      /\ work'[t].at = "close" /\ work'[t].ch = work[t].ch /\ work'[t].then = "release"
  BY <1>1, <1>2, <1>3
<1>5. ClientPlace(t)'
  BY <1>1, <1>4 DEF ClientPlace, Handling, Dialling, Ending
<1> QED BY <1>1, <1>4, <1>5 DEF Moves

\* A dial sends its SABM.
LEMMA ClientDialSabm == ASSUME CmuxInv, NEW t \in Clients, DialSabm(t) PROVE CmuxInv'
<1>1. /\ At(t, "sabm") /\ work[t].at = "sabm" /\ t \notin asleep
      /\ UNCHANGED <<sessionVars, chan, alive, asleep, countVars>>
      /\ Channels' = Channels /\ closed' = closed /\ alive' = alive /\ chan' = chan
  BY DEF DialSabm, sessionVars, Channels, At
<1>2. /\ work[t].ch \in Channels /\ work[t].dlci \in Dlcis /\ Home(t) \in Sides /\ work[t].ch \in Nat
      /\ work[t].at \in Handling \cap Dialling \cap Making /\ Retains(t) /\ Types /\ Bounded
  <2>1. work[t].at \in Handling \cap Dialling \cap Making /\ Retains(t)
    BY <1>1 DEF Handling, Dialling, Making, Retains, Retaining
  <2> QED BY <2>1, Hands, ChannelsAre DEF CmuxInv
<1>3. PICK ok \in BOOLEAN : /\ Sends(Home(t), Frame("sabm", work[t].dlci, work[t].ch), ok)
                            /\ IF ok THEN Goto(t, "opened") ELSE GiveUp(t)
  BY Hands, Transmits DEF DialSabm
<1>4. Carried
  BY <1>1, <1>2, <1>3, FramesAre, CarriedSent DEF Types4
<1>5. CASE ok
  <2>1. "opened" \in Places /\ "opened" \notin Ending
    BY DEF Places, Handling, Ending
  <2>2. Moves(t) /\ work'[t].at = "opened" /\ work'[t].ch = work[t].ch
    BY <1>1, <1>2, <1>3, <1>5, <2>1, ClientGoes
  <2>3. Retains(t)' = Retains(t)
    BY <1>2, <2>2 DEF Retains, Retaining
  <2> QED BY <1>1, <1>2, <1>4, <2>2, <2>3, ClientWalks
<1>6. CASE ~ok
  <2>1. Moves(t) /\ work'[t].at = "close" /\ work'[t].ch = work[t].ch /\ work'[t].then = "release"
    BY <1>1, <1>2, <1>3, <1>6, GivesUp
  <2>2. Retains(t)' = Retains(t)
    BY <1>2, <2>1 DEF Retains, Retaining
  <2> QED BY <1>1, <1>2, <1>4, <2>1, <2>2, ClientWalks
<1> QED BY <1>5, <1>6

\* A dial looks at the answer.
LEMMA ClientDialOpened == ASSUME CmuxInv, NEW t \in Clients, DialOpened(t) PROVE CmuxInv'
<1>1. /\ At(t, "opened") /\ work[t].at = "opened" /\ t \notin asleep
      /\ UNCHANGED <<sessionVars, chan, alive, asleep>> /\ UNCHANGED <<bearerVars, countVars>>
      /\ Channels' = Channels /\ closed' = closed /\ alive' = alive /\ chan' = chan
      /\ Goto(t, "keep") \/ GiveUp(t)
  BY DEF DialOpened, Proceeds, sessionVars, Channels, At
<1>2. work[t].at \in Handling \cap Dialling \cap Making /\ Retains(t) /\ Types /\ Bounded
  BY <1>1 DEF Handling, Dialling, Making, Retains, Retaining, CmuxInv
<1>4. Carried
  BY <1>1, <1>2, CarriedSame
<1>5. CASE Goto(t, "keep")
  <2>1. "keep" \in Places /\ "keep" \notin Ending
    BY DEF Places, Handling, Ending
  <2>2. Moves(t) /\ work'[t].at = "keep" /\ work'[t].ch = work[t].ch
    BY <1>1, <1>2, <1>5, <2>1, ClientGoes
  <2>3. Retains(t)' = Retains(t)
    BY <1>2, <2>2 DEF Retains, Retaining
  <2> QED BY <1>1, <1>2, <1>4, <2>2, <2>3, ClientWalks
<1>6. CASE GiveUp(t)
  <2>1. Moves(t) /\ work'[t].at = "close" /\ work'[t].ch = work[t].ch /\ work'[t].then = "release"
    BY <1>1, <1>2, <1>6, GivesUp
  <2>2. Retains(t)' = Retains(t)
    BY <1>2, <2>1 DEF Retains, Retaining
  <2> QED BY <1>1, <1>2, <1>4, <2>1, <2>2, ClientWalks
<1> QED BY <1>1, <1>5, <1>6

\* A client begins a call that touches no channel.
LEMMA ClientStarts ==
    ASSUME CmuxInv, NEW t \in Clients, NEW op, Call(t, op), NEW l \in {"accept", "read", "write", "shutdown"},
           NEW c \in Channels \cup {0}, Begin(t, l, c, "idle"),
           l \in {"read", "write"} => c \in Channels /\ chan[c].side = HomeOf[t],
           UNCHANGED <<sessionVars, chan, bearerVars, alive, asleep, dials>>
    PROVE  CmuxInv'
<1>1. /\ Channels' = Channels /\ chan' = chan /\ t \notin asleep /\ work[t].at = "idle" /\ Types /\ Bounded
      /\ UNCHANGED <<sessionVars, chan, alive, asleep>> /\ UNCHANGED bearerVars /\ dials' = dials
  BY DEF sessionVars, Channels, Call, At, CmuxInv
<1>2. /\ l \in Places \ Dialling /\ (l \in Handling => l \in {"read", "write"})
      /\ l \notin Making \cup Retaining \cup {"close", "disc", "join", "bye", "hangup"}
      /\ ~Retains(t)
  BY <1>1 DEF Places, Handling, Dialling, Ending, Making, Retaining, Retains
<1>3. Moves(t) /\ work'[t].at = l
  BY <1>1, <1>2, ClientBegins
<1>4. Retains(t)' = Retains(t)
  BY <1>2, <1>3 DEF Retains
<1>5. Carried
  BY <1>1, CarriedCall
<1> QED BY <1>1, <1>2, <1>3, <1>4, <1>5, ClientWalks

\* The calls that only take a client to its first place.
LEMMA ClientStarting ==
    ASSUME CmuxInv, NEW t \in Clients,
           \/ Accept(t) \/ CloseSession(t) \/ \E c \in Conns(Home(t)) : Read(t, c) \/ Write(t, c)
    PROVE  CmuxInv'
<1>0. 0 \in Channels \cup {0} /\ Home(t) = HomeOf[t]
  BY Hands
<1>1. CASE Accept(t)
  BY <1>0, <1>1, ClientStarts DEF Accept
<1>2. CASE CloseSession(t)
  BY <1>0, <1>2, ClientStarts DEF CloseSession
<1>3. ASSUME NEW c \in Conns(Home(t)), Read(t, c) PROVE CmuxInv'
  <2>1. c \in Channels /\ chan[c].side = HomeOf[t]
    BY <1>0, <1>3 DEF Conns
  <2> QED BY <1>3, <2>1, ClientStarts DEF Read
<1>4. ASSUME NEW c \in Conns(Home(t)), Write(t, c) PROVE CmuxInv'
  <2>1. c \in Channels /\ chan[c].side = HomeOf[t]
    BY <1>0, <1>4 DEF Conns
  <2>2. CASE Begin(t, "write", c, "idle")
    BY <1>4, <2>1, <2>2, ClientStarts DEF Write
  <2>3. CASE work' = work
    <3>1. /\ Call(t, "write") /\ t \notin asleep /\ UNCHANGED <<sessionVars, chan, alive, asleep>>
          /\ UNCHANGED bearerVars /\ dials' = dials /\ Channels' = Channels /\ closed' = closed /\ alive' = alive
      BY <1>4 DEF Write, Call, At, sessionVars, Channels
    <3>2. Moves(t)
      BY <2>3, <3>1, Hands DEF Moves, CmuxInv, Placed, ClientPlace
    <3>3. Carried
      BY <3>1, CarriedCall DEF CmuxInv
    <3>4. Retains(t)' = Retains(t)
      BY <2>3 DEF Retains
    <3> QED BY <2>3, <3>1, <3>2, <3>3, <3>4, ClientWalks
  <2> QED BY <1>4, <2>2, <2>3 DEF Write
<1> QED BY <1>1, <1>2, <1>3, <1>4

\* dial begins.
LEMMA ClientDial == ASSUME CmuxInv, NEW t \in Clients, NEW d \in Dlcis, Dial(t, d) PROVE CmuxInv'
<1>1. /\ Call(t, "dial") /\ work[t].at = "idle" /\ t \notin asleep /\ dials < MaxDials /\ dials' = dials + 1
      /\ UNCHANGED <<sessionVars, chan, alive, asleep>> /\ UNCHANGED bearerVars
      /\ Channels' = Channels /\ closed' = closed /\ alive' = alive /\ chan' = chan
  BY DEF Dial, Call, At, sessionVars, Channels
<1>2. t \in Threads /\ t \notin Sides /\ work \in [Threads -> PlaceType]
  BY Hands
<1> DEFINE r == [Idle EXCEPT !.at = "ready", !.dlci = d]
<1>3. r \in PlaceType /\ r.at = "ready" /\ r.ch = 0 /\ r.dlci = d
  BY DEF Idle, PlaceType, Labels
<1>4. work' = [work EXCEPT ![t] = r]
  BY DEF Dial
<1> HIDE DEF r
<1>5. /\ work' \in [Threads -> PlaceType] /\ \A u \in Threads \ {t} : work'[u] = work[u]
      /\ work'[t].at = "ready" /\ work'[t].ch = 0 /\ work'[t].dlci = d
  BY <1>2, <1>3, <1>4
<1>6. ClientPlace(t)'
  BY <1>5 DEF ClientPlace, Handling, Dialling, Ending
<1>7. Moves(t)
  BY <1>2, <1>5, <1>6 DEF Moves
<1>8. Retains(t)' = FALSE /\ Retains(t) = FALSE /\ work'[t].at \notin Making
  BY <1>1, <1>5 DEF Retains, Retaining, Making
<1>9. Carried
  BY <1>1, CarriedCall DEF CmuxInv
<1> QED BY <1>1, <1>7, <1>8, <1>9, ClientWalks
----------------------------------------------------------------------------
(* Client steps that touch one channel.                                     *)

\* The client t changes its channel, and what it holds of it.
LEMMA ClientTouches ==
    ASSUME CmuxInv, NEW t \in Clients, t \notin asleep, NEW c \in Channels, NEW r \in ChannelType, Becomes(t, c, r),
           UNCHANGED <<sessionVars, alive>>, asleep' \subseteq asleep, Carried, Moves(t), Makes(t),
           work[t].ch = c \/ ~Retains(t), work'[t].ch = c \/ ~Retains(t)',
           NEW k \in Int, NEW h \in Int, NEW h1 \in Int, NEW m \in Int, NEW m1 \in Int,
           r.refs = chan[c].refs + k, k = (h1 - h) + (m1 - m),
           h = One(chan[c].conn \in {"open", "closed"}), h1 = One(r.conn \in {"open", "closed"}),
           m = One(work[t].ch = c /\ Retains(t)), m1 = One(work'[t].ch = c /\ Retains(t)')
    PROVE  CmuxInv'
<1>1. t \in Threads /\ t \notin Sides /\ t \notin asleep' /\ chan[c].refs \in Int
  BY SidesOf, ChannelsAre DEF CmuxInv, ChannelType
<1>2. \A d \in Channels \ {c} : Calls(t, d)' <=> Calls(t, d)
  <2>1. ASSUME NEW d \in Channels \ {c} PROVE ~Calls(t, d) /\ ~Calls(t, d)'
    <3>1. d # c
      BY <2>1
    <3>2. ~Calls(t, d)
      BY <3>1 DEF Calls
    <3>3. ~(work'[t].ch = d /\ Retains(t)')
      BY <3>1
    <3> QED BY <3>2, <3>3 DEF Calls
  <2> QED BY <2>1
<1>3. chan'[c] = r
  BY OneChannel DEF Becomes, CmuxInv
<1>4. /\ One(HasConn(c)) = h /\ One(HasConn(c))' = h1
      /\ One(Calls(t, c)) = m /\ One(Calls(t, c))' = m1
  BY <1>3 DEF HasConn, Calls, One
<1>5. chan'[c].refs - One(HasConn(c))' - One(Calls(t, c))' = chan[c].refs - One(HasConn(c)) - One(Calls(t, c))
  BY <1>1, <1>3, <1>4
<1> QED BY <1>1, <1>2, <1>5, TouchesOne

\* closeChannel changes the phase.
LEMMA ClientCloseChannel == ASSUME CmuxInv, NEW t \in Clients, CloseChannel(t) PROVE CmuxInv'
<1> DEFINE c == work[t].ch
<1>1. /\ At(t, "close") /\ work[t].at = "close" /\ t \notin asleep
      /\ UNCHANGED sessionVars /\ alive' = alive /\ closed' = closed /\ UNCHANGED <<bearerVars, countVars>>
  BY DEF CloseChannel, At, sessionVars
<1>2. /\ work[t].at \in Handling /\ c \in Channels /\ chan[c] \in ChannelType
      /\ chan[c].side = HomeOf[t] /\ work[t].then \in {"idle", "release"}
      /\ Retains(t) = (work[t].then = "release") /\ Types /\ Bounded
  <2>1. work[t].at \in Handling
    BY <1>1 DEF Handling
  <2> QED BY <1>1, <2>1, Hands DEF Retains, Retaining, CmuxInv
<1>3. work[t].then \in Places /\ work[t].then \notin Dialling \cup Ending \cup Making \cup {"close", "disc", "join", "bye"}
  BY <1>2 DEF Places, Handling, Dialling, Ending, Making
<1>4. CASE ~Open(c)
  <2>1. /\ UNCHANGED <<sessionVars, chan, bearerVars, alive, asleep, countVars>> /\ Goto(t, work[t].then)
    BY <1>4 DEF CloseChannel, Wake
  <2>2. work[t].then \in Retaining <=> Retains(t)
    BY <1>2 DEF Retaining
  <2> QED BY <1>1, <1>2, <1>3, <2>1, <2>2, ClientPasses DEF Ending
<1>5. CASE Open(c)
  <2> DEFINE r == [chan[c] EXCEPT !.phase = "closing_local"]
  <2>1. chan' = [chan EXCEPT ![c] = r] /\ asleep' = asleep \ OnChannel(c)
    BY <1>5 DEF CloseChannel, Wake
  <2>2. /\ r \in ChannelType /\ r.side = chan[c].side /\ r.dlci = chan[c].dlci /\ r.registered = chan[c].registered
        /\ r.rx = chan[c].rx /\ r.conn = chan[c].conn /\ r.refs = chan[c].refs + 0 /\ chan[c].refs \in Int
    <3>1. chan[c].refs \in Int /\ chan[c].refs + 0 = chan[c].refs
      BY <1>2 DEF ChannelType
    <3>2. r \in ChannelType
      BY <1>2 DEF ChannelType, Phases
    <3> QED BY <1>2, <3>1, <3>2 DEF ChannelType
  <2> HIDE DEF r
  <2>3. /\ Channels' = Channels /\ \A d \in Channels : chan'[d].side = chan[d].side /\ chan'[d].conn = chan[d].conn
    BY <1>2, <2>1, <2>2, OneChannel
  <2>4. Becomes(t, c, r)
    BY <1>2, <1>5, <2>1, <2>2 DEF Becomes, Open, Ended, Bounded
  <2>5. PICK l \in {"disc", "idle", "release"} : Goto(t, l) /\ l \in {"disc", work[t].then}
    BY <1>2, <1>5 DEF CloseChannel
  <2>6. l \in Places /\ l \notin Dialling \cup Ending \cup Making
    BY <2>5 DEF Places, Handling, Dialling, Ending, Making
  <2>7. /\ Moves(t) /\ work'[t].at = l
        /\ l = "idle" => work'[t].ch = 0
        /\ l # "idle" => work'[t].ch = c /\ work'[t].then = work[t].then
    BY <1>1, <1>2, <2>3, <2>5, <2>6, ClientGoes DEF Ending
  <2>8. Retains(t)' = Retains(t) /\ (Retains(t) => work'[t].ch = c)
    BY <1>2, <2>5, <2>7 DEF Retains, Retaining
  <2>9. Makes(t)
    BY <2>3, <2>6, <2>7 DEF Makes
  <2>10. Carried
    BY <1>1, <1>2, CarriedSame
  <2>11. One(r.conn \in {"open", "closed"}) = One(chan[c].conn \in {"open", "closed"})
         /\ One(chan[c].conn \in {"open", "closed"}) \in Int
    BY <2>2 DEF One
  <2>12. One(work'[t].ch = c /\ Retains(t)') = One(work[t].ch = c /\ Retains(t)) /\ One(work[t].ch = c /\ Retains(t)) \in Int
    BY <2>8 DEF One
  <2> QED BY <1>1, <1>2, <2>1, <2>2, <2>4, <2>7, <2>8, <2>9, <2>10, <2>11, <2>12, ClientTouches
<1> QED BY <1>4, <1>5

\* releaseChannel gives one reference up.
LEMMA ClientRelease == ASSUME CmuxInv, NEW t \in Clients, Release(t) PROVE CmuxInv'
<1> DEFINE c == work[t].ch
<1>1. PICK l \in {"release", "keep", "letgo"} :
        /\ At(t, l)
        /\ chan' = [chan EXCEPT ![work[t].ch].refs = @ - 1]
        /\ Goto(t, CASE l = "release" -> "idle" [] l = "keep" -> "retain" [] OTHER -> "look")
        /\ UNCHANGED <<sessionVars, bearerVars, alive, asleep, countVars>>
  BY DEF Release
<1>2. PICK n \in {"idle", "retain", "look"} :
        Goto(t, n) /\ (l = "release" => n = "idle") /\ (l = "keep" => n = "retain") /\ (l = "letgo" => n = "look")
  BY <1>1
<1>3. /\ work[t].at = l /\ t \notin asleep /\ UNCHANGED <<sessionVars, alive>> /\ asleep' = asleep
      /\ closed' = closed /\ alive' = alive
      /\ UNCHANGED <<bearerVars, countVars>> /\ Types /\ Bounded
  BY <1>1 DEF At, sessionVars, CmuxInv
<1>4. /\ work[t].at \in Handling /\ c \in Channels /\ chan[c] \in ChannelType
      /\ Retains(t) /\ (l = "letgo" => work[t].at \in Dialling) /\ (l = "keep" => work[t].at \in Making)
  <2>1. /\ work[t].at \in Handling /\ Retains(t)
        /\ (l = "letgo" => work[t].at \in Dialling) /\ (l = "keep" => work[t].at \in Making)
    BY <1>3 DEF Handling, Dialling, Making, Retains, Retaining
  <2> QED BY <2>1, Hands
<1>5. /\ n \in Places /\ n \notin Ending \cup Retaining \cup {"close", "disc", "join"}
      /\ (n \in Dialling => n = "look") /\ (n \in Making => n = "retain")
  BY <1>2 DEF Places, Handling, Dialling, Ending, Making, Retaining
<1> DEFINE r == [chan[c] EXCEPT !.refs = chan[c].refs - 1]
<1>6. chan' = [chan EXCEPT ![c] = r]
  BY <1>1
<1>7. /\ r \in ChannelType /\ r.side = chan[c].side /\ r.dlci = chan[c].dlci /\ r.registered = chan[c].registered
      /\ r.rx = chan[c].rx /\ r.conn = chan[c].conn /\ r.phase = chan[c].phase /\ r.refs = chan[c].refs + (-1)
  <2>1. chan[c].refs \in Int /\ chan[c].refs - 1 \in Int /\ chan[c].refs + (-1) = chan[c].refs - 1
    BY <1>4 DEF ChannelType
  <2> DEFINE n1 == chan[c].refs - 1
  <2> HIDE DEF n1
  <2>2. [chan[c] EXCEPT !.refs = n1] \in ChannelType
    BY <1>4, <2>1 DEF ChannelType, n1
  <2> QED BY <1>4, <2>1, <2>2 DEF ChannelType, n1
<1> HIDE DEF r
<1>8. /\ Channels' = Channels /\ \A d \in Channels : chan'[d].side = chan[d].side /\ chan'[d].conn = chan[d].conn
  BY <1>3, <1>4, <1>6, <1>7, OneChannel
<1>9. Becomes(t, c, r)
  BY <1>3, <1>4, <1>6, <1>7 DEF Becomes, Bounded
<1>10. Moves(t) /\ work'[t].at = n /\ (n # "idle" => work'[t].ch = c)
  BY <1>1, <1>2, <1>3, <1>4, <1>5, <1>8, ClientGoes DEF Ending
<1>11. Makes(t)
  <2>1. n = "retain" => l = "keep"
    BY <1>2
  <2> QED BY <1>4, <1>5, <1>8, <1>10, <2>1 DEF Makes
<1>12. ~Retains(t)'
  BY <1>5, <1>10 DEF Retains
<1>13. Carried
  BY <1>3, CarriedSame
<1>14. One(r.conn \in {"open", "closed"}) = One(chan[c].conn \in {"open", "closed"})
       /\ One(chan[c].conn \in {"open", "closed"}) \in Int
  BY <1>7 DEF One
<1>15. One(work'[t].ch = c /\ Retains(t)') = 0 /\ One(work[t].ch = c /\ Retains(t)) = 1
  BY <1>4, <1>12 DEF One
<1> QED BY <1>3, <1>4, <1>7, <1>9, <1>10, <1>11, <1>12, <1>13, <1>14, <1>15, ClientTouches

\* A channel with another count of references.
LEMMA RefsChange ==
    ASSUME NEW q \in ChannelType, NEW n \in Int
    PROVE  LET r == [q EXCEPT !.refs = n] IN
           /\ r \in ChannelType /\ r.side = q.side /\ r.dlci = q.dlci /\ r.registered = q.registered
           /\ r.rx = q.rx /\ r.conn = q.conn /\ r.phase = q.phase /\ r.refs = n
BY DEF ChannelType

\* A channel with another connection.
LEMMA ConnChange ==
    ASSUME NEW q \in ChannelType, NEW v \in {"open", "closed", "gone"}
    PROVE  LET r == [q EXCEPT !.conn = v] IN
           /\ r \in ChannelType /\ r.side = q.side /\ r.dlci = q.dlci /\ r.registered = q.registered
           /\ r.rx = q.rx /\ r.conn = v /\ r.phase = q.phase /\ r.refs = q.refs
BY DEF ChannelType

\* A dial meets a channel that has its number and waits for it to go.
LEMMA ClientDialBehind == ASSUME CmuxInv, NEW t \in Clients, DialBehind(t) PROVE CmuxInv'
<1> DEFINE s == Home(t)
           c == table[s][work[t].dlci]
<1>1. /\ work[t].at = "look" /\ t \notin asleep /\ UNCHANGED <<sessionVars, alive>> /\ asleep' = asleep
      /\ closed' = closed /\ alive' = alive /\ UNCHANGED <<bearerVars, countVars>> /\ Types /\ Bounded
      /\ c # 0
  BY DEF DialBehind, At, sessionVars, CmuxInv
<1>2. /\ t \in Threads /\ t \notin Sides /\ s \in Sides /\ s = HomeOf[t] /\ work[t].dlci \in Dlcis
      /\ work \in [Threads -> PlaceType] /\ ~Retains(t)
  <2>1. work[t].at \in Dialling /\ ~Retains(t)
    BY <1>1 DEF Dialling, Retains, Retaining
  <2> QED BY <2>1, Hands
<1>3. c \in Channels /\ chan[c].side = s
  BY <1>1, <1>2 DEF CmuxInv, Listed
<1>4. chan[c] \in ChannelType /\ c \in Nat
  BY SMTT(30), <1>1, <1>3, ChannelsAre
<1> DEFINE r == [chan[c] EXCEPT !.refs = chan[c].refs + 1]
           p == [work[t] EXCEPT !.at = "await", !.ch = c]
<1>5. chan' = [chan EXCEPT ![c] = r] /\ work' = [work EXCEPT ![t] = p]
  BY <1>2 DEF DialBehind
<1>6. /\ r \in ChannelType /\ r.side = chan[c].side /\ r.dlci = chan[c].dlci /\ r.registered = chan[c].registered
      /\ r.rx = chan[c].rx /\ r.conn = chan[c].conn /\ r.phase = chan[c].phase /\ r.refs = chan[c].refs + 1
  <2>1. chan[c].refs + 1 \in Int
    BY <1>4 DEF ChannelType
  <2> QED BY <1>4, <2>1, RefsChange
<1>7. p \in PlaceType /\ p.at = "await" /\ p.ch = c /\ p.dlci = work[t].dlci
  <2>1. PICK l, w, q, b : l = "await" /\ w = work[t] /\ q = p /\ b = c
    OBVIOUS
  <2>2. l \in Labels /\ w \in PlaceType /\ q = [w EXCEPT !.at = l, !.ch = b] /\ b \in Nat
    BY <1>2, <1>4, <2>1 DEF Labels
  <2>3. q \in PlaceType /\ q.at = l /\ q.ch = b /\ q.dlci = w.dlci
    BY ONLY <2>2 DEF PlaceType
  <2> QED BY <2>1, <2>3
<1> HIDE DEF r, p, c, s
<1>8. /\ Channels' = Channels /\ \A d \in Channels : chan'[d].side = chan[d].side /\ chan'[d].conn = chan[d].conn
  BY <1>1, <1>3, <1>5, <1>6, OneChannel
<1>9. Becomes(t, c, r)
  BY <1>1, <1>3, <1>5, <1>6 DEF Becomes, Bounded
<1>10. /\ work' \in [Threads -> PlaceType] /\ \A u \in Threads \ {t} : work'[u] = work[u]
       /\ work'[t].at = "await" /\ work'[t].ch = c /\ work'[t].dlci \in Dlcis
  BY <1>2, <1>5, <1>7
<1>11. ClientPlace(t)'
  BY <1>2, <1>3, <1>8, <1>10 DEF ClientPlace, Handling, Dialling, Ending
<1>12. Moves(t)
  BY <1>2, <1>3, <1>8, <1>10, <1>11 DEF Moves
<1>13. Makes(t) /\ Retains(t)'
  BY <1>8, <1>10 DEF Makes, Making, Retains, Retaining
<1>14. Carried
  BY <1>1, CarriedSame
<1>15. One(r.conn \in {"open", "closed"}) = One(chan[c].conn \in {"open", "closed"})
       /\ One(chan[c].conn \in {"open", "closed"}) \in Int
  BY <1>6 DEF One
<1>16. One(work'[t].ch = c /\ Retains(t)') = 1 /\ One(work[t].ch = c /\ Retains(t)) = 0
  BY <1>2, <1>10, <1>13 DEF One
<1> QED BY <1>1, <1>2, <1>3, <1>6, <1>9, <1>10, <1>12, <1>13, <1>14, <1>15, <1>16, ClientTouches

\* The call that makes a connection takes a reference for it.
LEMMA ClientConnects ==
    ASSUME CmuxInv, NEW t \in Clients, t \notin asleep, NEW c \in Channels, c = work[t].ch,
           work[t].at \in {"retain", "conn"}, NEW l \in {"idle", "release"}, Goto(t, l),
           l = "release" <=> work[t].at = "conn",
           chan' = [chan EXCEPT ![c].refs = @ + 1, ![c].conn = "open"],
           UNCHANGED <<sessionVars, bearerVars, alive, asleep, countVars>>
    PROVE  CmuxInv'
<1>1. /\ UNCHANGED <<sessionVars, alive>> /\ asleep' = asleep
      /\ closed' = closed /\ alive' = alive /\ UNCHANGED <<bearerVars, countVars>> /\ Types /\ Bounded
  BY DEF sessionVars, CmuxInv
<1>2. /\ work[t].at \in Handling \cap Making /\ chan[c] \in ChannelType /\ chan[c].conn = "none"
      /\ Retains(t) <=> l = "release"
  <2>1. work[t].at \in Handling \cap Making
    BY DEF Handling, Making
  <2>2. Retains(t) <=> l = "release"
    BY DEF Retains, Retaining
  <2>3. chan[c].conn = "none"
    BY <2>1 DEF CmuxInv, MadeOnce
  <2> QED BY <1>1, <2>1, <2>2, <2>3, ChannelsAre
<1> DEFINE q == [chan[c] EXCEPT !.refs = chan[c].refs + 1]
           r == [q EXCEPT !.conn = "open"]
<1>3. chan' = [chan EXCEPT ![c] = r]
  BY <1>2
<1>4. /\ r \in ChannelType /\ r.side = chan[c].side /\ r.dlci = chan[c].dlci /\ r.registered = chan[c].registered
      /\ r.rx = chan[c].rx /\ r.conn = "open" /\ r.phase = chan[c].phase /\ r.refs = chan[c].refs + 1
  <2>1. chan[c].refs + 1 \in Int
    BY <1>2 DEF ChannelType
  <2>2. /\ q \in ChannelType /\ q.side = chan[c].side /\ q.dlci = chan[c].dlci /\ q.registered = chan[c].registered
        /\ q.rx = chan[c].rx /\ q.phase = chan[c].phase /\ q.refs = chan[c].refs + 1
    BY SMTT(30), <1>2, <2>1, RefsChange
  <2> HIDE DEF q
  <2> QED BY <2>2, ConnChange
<1> HIDE DEF r
<1>5. /\ Channels' = Channels /\ \A d \in Channels : chan'[d].side = chan[d].side
      /\ \A d \in Channels \ {c} : chan'[d] = chan[d]
  <2>1. Channels' = Channels /\ chan'[c] = r /\ \A d \in Channels \ {c} : chan'[d] = chan[d]
    BY ZenonT(40), <1>1, <1>3, <1>4, OneChannel
  <2> QED BY <1>4, <2>1
<1>6. Becomes(t, c, r)
  BY <1>1, <1>3, <1>4 DEF Becomes, Bounded
<1>7. l \in Places /\ l \notin Dialling \cup Ending \cup Making
  BY DEF Places, Handling, Dialling, Ending, Making
<1>8. Moves(t) /\ work'[t].at = l /\ (l # "idle" => work'[t].ch = c)
  BY <1>1, <1>2, <1>5, <1>7, ClientGoes DEF Ending
<1>9. Makes(t)
  BY <1>2, <1>5, <1>7, <1>8 DEF Makes
<1>10. Retains(t)' <=> l = "release"
  BY <1>8 DEF Retains, Retaining
<1>11. Carried
  BY <1>1, CarriedSame
<1>12. One(r.conn \in {"open", "closed"}) = 1 /\ One(chan[c].conn \in {"open", "closed"}) = 0
  BY <1>2, <1>4 DEF One
<1>13. /\ work[t].ch = c /\ Retains(t) <=> l = "release"
       /\ work'[t].ch = c /\ Retains(t)' <=> l = "release"
  BY <1>2, <1>8, <1>10
<1>14. /\ One(work[t].ch = c /\ Retains(t)) = One(l = "release") /\ One(work'[t].ch = c /\ Retains(t)') = One(l = "release")
       /\ One(l = "release") \in Int
  BY <1>13 DEF One
<1>15. work'[t].ch = c \/ ~Retains(t)'
  BY <1>8, <1>10
<1> QED BY <1>1, <1>4, <1>6, <1>8, <1>9, <1>11, <1>12, <1>14, <1>15, ClientTouches

\* A connection is made for a dialled or an accepted channel.
LEMMA ClientConn == ASSUME CmuxInv, NEW t \in Clients, DialConn(t) \/ AcceptConn(t) PROVE CmuxInv'
<1> DEFINE c == work[t].ch
<1>1. CASE DialConn(t)
  <2>1. /\ At(t, "retain") /\ work[t].at = "retain" /\ t \notin asleep
        /\ UNCHANGED <<sessionVars, bearerVars, alive, asleep, countVars>>
    BY <1>1 DEF DialConn, At
  <2>2. c \in Channels
    BY <2>1, Hands DEF Handling
  <2>3. CASE Goto(t, "lost") /\ chan' = chan
    <3>1. UNCHANGED <<sessionVars, chan, bearerVars, alive, asleep, countVars>>
      BY <2>1, <2>3
    <3>2. "lost" \in Places /\ "lost" \notin Handling \cup Dialling \cup Ending \cup Making \cup Retaining /\ ~Retains(t)
      BY <2>1 DEF Places, Handling, Dialling, Ending, Making, Retaining, Retains
    <3> QED BY <2>1, <2>3, <3>1, <3>2, ClientPasses
  <2>4. CASE chan' = [chan EXCEPT ![c].refs = @ + 1, ![c].conn = "open"] /\ Goto(t, "idle")
    BY <2>1, <2>2, <2>4, ClientConnects
  <2> QED BY <1>1, <2>3, <2>4 DEF DialConn
<1>2. CASE AcceptConn(t)
  <2>1. /\ work[t].at = "conn" /\ t \notin asleep /\ Goto(t, "release")
        /\ UNCHANGED <<sessionVars, bearerVars, alive, asleep, countVars>>
        /\ chan' = [chan EXCEPT ![c].refs = @ + 1, ![c].conn = "open"]
    BY <1>2 DEF AcceptConn, At
  <2>2. c \in Channels
    BY <2>1, Hands DEF Handling
  <2> QED BY <2>1, <2>2, ClientConnects
<1> QED BY <1>1, <1>2

\* What is taken off a buffer is its beginning.
LEMMA Taken ==
    ASSUME NEW T, NEW q \in Seq(T), NEW n \in 0..Len(q)
    PROVE  /\ SubSeq(q, 1, n) \in Seq(T) /\ SubSeq(q, n + 1, Len(q)) \in Seq(T)
           /\ Len(SubSeq(q, n + 1, Len(q))) = Len(q) - n
           /\ \A i \in DOMAIN SubSeq(q, n + 1, Len(q)) : n + i \in DOMAIN q /\ SubSeq(q, n + 1, Len(q))[i] = q[n + i]
OBVIOUS

\* Two sequences, one behind the other.
LEMMA Concatenated == ASSUME NEW T, NEW q \in Seq(T), NEW r \in Seq(T) PROVE q \o r \in Seq(T)
OBVIOUS

\* To take nothing off it leaves it.
LEMMA Untaken == ASSUME NEW T, NEW q \in Seq(T) PROVE SubSeq(q, 0 + 1, Len(q)) = q
OBVIOUS

\* A read takes what is buffered.
LEMMA ClientRead == ASSUME CmuxInv, NEW t \in Clients, ReadChannel(t) PROVE CmuxInv'
<1> DEFINE c == work[t].ch
<1>1. /\ work[t].at = "read" /\ t \notin asleep /\ UNCHANGED <<sessionVars, alive>>
      /\ closed' = closed /\ alive' = alive /\ UNCHANGED <<bearerVars, countVars>> /\ Types /\ Bounded
      /\ Goto(t, "idle")
  BY DEF ReadChannel, Proceeds, At, sessionVars, CmuxInv
<1>2. /\ work[t].at \in Handling /\ c \in Channels /\ chan[c] \in ChannelType /\ ~Retains(t)
  <2>1. work[t].at \in Handling /\ ~Retains(t)
    BY SMTT(30), <1>1 DEF Handling, Retains, Retaining
  <2> QED BY <2>1, Hands
<1>3. PICK n \in 0..Len(chan[c].rx) :
        /\ (n = 0) <=> (chan[c].rx = <<>>)
        /\ chan' = [chan EXCEPT ![c].got = @ \o SubSeq(chan[c].rx, 1, n),
                                ![c].rx = SubSeq(@, n + 1, Len(@))]
        /\ Wake(IF n = 0 THEN {} ELSE OnChannel(c))
  BY ZenonT(40) DEF ReadChannel
<1> DEFINE rx == SubSeq(chan[c].rx, n + 1, Len(chan[c].rx))
           got == chan[c].got \o SubSeq(chan[c].rx, 1, n)
           r == [chan[c] EXCEPT !.got = got, !.rx = rx]
<1>4. chan' = [chan EXCEPT ![c] = r]
  BY <1>2, <1>3
<1>5. chan[c].rx \in Seq(Nat \X Nat) /\ chan[c].got \in Seq(Nat \X Nat) /\ Len(chan[c].rx) \in Nat
  BY SMTT(30), <1>2 DEF ChannelType
<1>6. /\ rx \in Seq(Nat \X Nat) /\ got \in Seq(Nat \X Nat) /\ Len(rx) = Len(chan[c].rx) - n
      /\ \A i \in DOMAIN rx : n + i \in DOMAIN chan[c].rx /\ rx[i] = chan[c].rx[n + i]
  <2>1. /\ SubSeq(chan[c].rx, 1, n) \in Seq(Nat \X Nat) /\ rx \in Seq(Nat \X Nat)
        /\ Len(rx) = Len(chan[c].rx) - n
        /\ \A i \in DOMAIN rx : n + i \in DOMAIN chan[c].rx /\ rx[i] = chan[c].rx[n + i]
    BY <1>5, Taken
  <2>2. got \in Seq(Nat \X Nat)
    BY <1>5, <2>1, Concatenated
  <2> QED BY <2>1, <2>2
<1>7. n = 0 => rx = chan[c].rx
  <2>1. SubSeq(chan[c].rx, 0 + 1, Len(chan[c].rx)) = chan[c].rx
    BY <1>5, Untaken
  <2> QED BY <2>1
<1> HIDE DEF rx, got
<1>8. /\ r \in ChannelType /\ r.side = chan[c].side /\ r.dlci = chan[c].dlci /\ r.registered = chan[c].registered
      /\ r.rx = rx /\ r.conn = chan[c].conn /\ r.phase = chan[c].phase /\ r.refs = chan[c].refs
  BY <1>2, <1>6 DEF ChannelType
<1> HIDE DEF r
<1>9. Channels' = Channels /\ chan'[c] = r /\ \A d \in Channels \ {c} : chan'[d] = chan[d]
  BY <1>1, <1>2, <1>4, <1>8, OneChannel
<1>10. \A d \in Channels : chan'[d].side = chan[d].side /\ chan'[d].conn = chan[d].conn
  BY <1>8, <1>9
<1>11. asleep' \subseteq asleep /\ (n = 0 \/ asleep' \cap OnChannel(c) = {})
  BY <1>3 DEF Wake
<1>12. Len(r.rx) <= RxCap /\ \A i \in DOMAIN r.rx : r.rx[i][1] \in Channels
  <2>1. Len(chan[c].rx) <= RxCap /\ \A i \in DOMAIN chan[c].rx : chan[c].rx[i][1] \in Channels
    BY <1>1, <1>2 DEF Bounded
  <2>2. Len(rx) <= RxCap
    BY <1>5, <1>6, <2>1, CmuxAssumption
  <2>3. \A i \in DOMAIN rx : rx[i][1] \in Channels
    BY <1>6, <2>1
  <2> QED BY <1>8, <2>2, <2>3
<1>13. Becomes(t, c, r)
  BY <1>4, <1>7, <1>8, <1>11, <1>12 DEF Becomes
<1>14. "idle" \in Places /\ "idle" \notin Handling \cup Dialling \cup Ending \cup Making
  BY DEF Places, Handling, Dialling, Ending, Making
<1>15. Moves(t) /\ work'[t].at = "idle" /\ work'[t].ch = 0
  BY <1>1, <1>9, <1>10, <1>14, ClientGoes DEF Ending
<1>16. Makes(t) /\ ~Retains(t)'
  BY <1>10, <1>14, <1>15 DEF Makes, Retains, Retaining
<1>17. Carried
  BY <1>1, CarriedSame
<1>18. One(r.conn \in {"open", "closed"}) = One(chan[c].conn \in {"open", "closed"})
       /\ One(chan[c].conn \in {"open", "closed"}) \in Int
  BY <1>8 DEF One
<1>19. One(work'[t].ch = c /\ Retains(t)') = 0 /\ One(work[t].ch = c /\ Retains(t)) = 0
  BY <1>2, <1>16 DEF One
<1>20. r.refs = chan[c].refs + 0
  BY <1>2, <1>8 DEF ChannelType
<1> QED BY <1>1, <1>2, <1>8, <1>11, <1>13, <1>15, <1>16, <1>17, <1>18, <1>19, <1>20, ClientTouches

\* A write sends one frame.
LEMMA ClientSendData == ASSUME CmuxInv, NEW t \in Clients, SendData(t) PROVE CmuxInv'
<1> DEFINE c == work[t].ch
<1>1. /\ work[t].at = "write" /\ t \notin asleep /\ UNCHANGED <<sessionVars, alive>> /\ asleep' = asleep
      /\ closed' = closed /\ alive' = alive /\ UNCHANGED countVars /\ Types /\ Bounded
      /\ Goto(t, "idle")
  BY DEF SendData, At, sessionVars, CmuxInv
<1>2. /\ work[t].at \in Handling /\ c \in Channels /\ chan[c] \in ChannelType /\ ~Retains(t) /\ Home(t) \in Sides
      /\ c \in Nat
  <2>1. work[t].at \in Handling /\ ~Retains(t)
    BY <1>1 DEF Handling, Retains, Retaining
  <2> QED BY <1>1, <2>1, Hands, ChannelsAre
<1>3. PICK ok \in BOOLEAN :
        /\ Sends(Home(t), Frame("uih", chan[c].dlci, <<c, chan[c].sent + 1>>), ok)
        /\ chan' = IF ok THEN [chan EXCEPT ![c].sent = @ + 1] ELSE chan
  BY Hands, Transmits DEF SendData
<1>4. chan[c].dlci \in Dlcis /\ chan[c].sent + 1 \in Nat
  BY <1>2 DEF ChannelType
<1>5. Carried
  BY <1>1, <1>2, <1>3, <1>4, FramesAre, CarriedSent
<1> DEFINE r == IF ok THEN [chan[c] EXCEPT !.sent = chan[c].sent + 1] ELSE chan[c]
<1>6. chan' = [chan EXCEPT ![c] = r]
  <2>1. CASE ok
    BY <1>2, <1>3, <2>1
  <2>2. CASE ~ok
    <3>1. chan' = chan /\ r = chan[c]
      BY <1>3, <2>2
    <3> QED BY <1>1, <1>2, <3>1 DEF Types, Channels
  <2> QED BY <2>1, <2>2
<1>7. /\ r \in ChannelType /\ r.side = chan[c].side /\ r.dlci = chan[c].dlci /\ r.registered = chan[c].registered
      /\ r.rx = chan[c].rx /\ r.conn = chan[c].conn /\ r.phase = chan[c].phase /\ r.refs = chan[c].refs
  BY <1>2, <1>4 DEF ChannelType
<1> HIDE DEF r
<1>8. Channels' = Channels /\ chan'[c] = r /\ \A d \in Channels \ {c} : chan'[d] = chan[d]
  BY <1>1, <1>2, <1>6, <1>7, OneChannel
<1>9. \A d \in Channels : chan'[d].side = chan[d].side /\ chan'[d].conn = chan[d].conn
  BY <1>7, <1>8
<1>10. Becomes(t, c, r)
  BY <1>1, <1>2, <1>6, <1>7 DEF Becomes, Bounded
<1>11. "idle" \in Places /\ "idle" \notin Handling \cup Dialling \cup Ending \cup Making
  BY DEF Places, Handling, Dialling, Ending, Making
<1>12. Moves(t) /\ work'[t].at = "idle" /\ work'[t].ch = 0
  BY <1>1, <1>8, <1>9, <1>11, ClientGoes DEF Ending
<1>13. Makes(t) /\ ~Retains(t)'
  BY <1>9, <1>11, <1>12 DEF Makes, Retains, Retaining
<1>14. One(r.conn \in {"open", "closed"}) = One(chan[c].conn \in {"open", "closed"})
       /\ One(chan[c].conn \in {"open", "closed"}) \in Int
  BY <1>7 DEF One
<1>15. One(work'[t].ch = c /\ Retains(t)') = 0 /\ One(work[t].ch = c /\ Retains(t)) = 0
  BY <1>2, <1>13 DEF One
<1>16. r.refs = chan[c].refs + 0
  BY <1>2, <1>7 DEF ChannelType
<1> QED BY <1>1, <1>2, <1>5, <1>7, <1>10, <1>12, <1>13, <1>14, <1>15, <1>16, ClientTouches

\* A connection that is closed stays a holder until deinit gives its reference to the call.
LEMMA ClientEndsConn ==
    ASSUME CmuxInv, NEW t \in Clients, NEW op, Call(t, op), NEW c \in Conns(Home(t)), NEW v \in {"closed", "gone"},
           chan' = [chan EXCEPT ![c].conn = v], NEW l \in {"close", "release"},
           NEW then \in {"idle", "release"}, Begin(t, l, c, then),
           v = "closed" => l = "close" /\ then = "idle", v = "gone" => then = "release",
           UNCHANGED <<sessionVars, bearerVars, alive, asleep, dials>>
    PROVE  CmuxInv'
<1>1. /\ work[t].at = "idle" /\ t \notin asleep /\ UNCHANGED <<sessionVars, alive>> /\ asleep' = asleep
      /\ closed' = closed /\ alive' = alive /\ UNCHANGED bearerVars /\ dials' = dials /\ Types /\ Bounded
  BY DEF Call, At, sessionVars, CmuxInv
<1>2. /\ c \in Channels /\ chan[c] \in ChannelType /\ chan[c].side = HomeOf[t] /\ chan[c].conn \in {"open", "closed"}
      /\ ~Retains(t)
  BY <1>1, Hands, ChannelsAre DEF Conns, Retains, Retaining
<1> DEFINE r == [chan[c] EXCEPT !.conn = v]
<1>3. chan' = [chan EXCEPT ![c] = r]
  OBVIOUS
<1>4. /\ r \in ChannelType /\ r.side = chan[c].side /\ r.dlci = chan[c].dlci /\ r.registered = chan[c].registered
      /\ r.rx = chan[c].rx /\ r.conn = v /\ r.phase = chan[c].phase /\ r.refs = chan[c].refs
  BY <1>2, ConnChange, v \in {"open", "closed", "gone"}
<1> HIDE DEF r
<1>5. Channels' = Channels /\ chan'[c] = r /\ \A d \in Channels \ {c} : chan'[d] = chan[d]
  BY <1>1, <1>2, <1>3, <1>4, OneChannel
<1>6. \A d \in Channels : chan'[d].side = chan[d].side /\ (chan[d].conn = "none" => chan'[d].conn = "none")
  BY <1>2, <1>4, <1>5
<1>7. Becomes(t, c, r)
  BY <1>1, <1>2, <1>3, <1>4 DEF Becomes, Bounded
<1>8. l \in Places \ Dialling /\ l \in Handling /\ l \notin Ending \cup Making \cup {"join", "bye", "hangup"}
  BY DEF Places, Handling, Dialling, Ending, Making
<1>9. Moves(t) /\ work'[t].at = l /\ work'[t].ch = c /\ work'[t].then = then
  BY <1>1, <1>2, <1>5, <1>6, <1>8, ClientBegins DEF Ending
<1>10. Makes(t)
  BY <1>6, <1>8, <1>9 DEF Makes
<1>11. Retains(t)' <=> v = "gone"
  BY <1>9 DEF Retains, Retaining
<1>12. One(chan[c].conn \in {"open", "closed"}) = 1 /\ One(work[t].ch = c /\ Retains(t)) = 0
  BY <1>2 DEF One
<1>0. Carried /\ chan[c].refs \in Int /\ (work[t].ch = c \/ ~Retains(t)) /\ work'[t].ch = c
  BY <1>1, <1>2, <1>9, CarriedCall DEF ChannelType
<1>13. CASE v = "gone"
  <2>1. One(r.conn \in {"open", "closed"}) = 0 /\ One(work'[t].ch = c /\ Retains(t)') = 1
    BY <1>4, <1>9, <1>11, <1>13 DEF One
  <2>2. r.refs = chan[c].refs + 0 /\ 0 = (0 - 1) + (1 - 0)
    BY <1>0, <1>4
  <2> QED BY <1>0, <1>1, <1>2, <1>4, <1>7, <1>9, <1>10, <1>12, <2>1, <2>2, ClientTouches
<1>14. CASE v = "closed"
  <2>1. One(r.conn \in {"open", "closed"}) = 1 /\ One(work'[t].ch = c /\ Retains(t)') = 0
    BY <1>4, <1>9, <1>11, <1>14 DEF One
  <2>2. r.refs = chan[c].refs + 0 /\ 0 = (1 - 1) + (0 - 0)
    BY <1>0, <1>4
  <2> QED BY <1>0, <1>1, <1>2, <1>4, <1>7, <1>9, <1>10, <1>12, <2>1, <2>2, ClientTouches
<1> QED BY <1>13, <1>14

\* Close and deinit of a connection.
LEMMA ClientEnding ==
    ASSUME CmuxInv, NEW t \in Clients, NEW c \in Conns(Home(t)), Close(t, c) \/ Deinit(t, c)
    PROVE  CmuxInv'
<1>1. CASE Close(t, c)
  BY <1>1, ClientEndsConn DEF Close
<1>2. CASE Deinit(t, c)
  <2>1. PICK l \in {"close", "release"} : Begin(t, l, c, "release")
    BY <1>2 DEF Deinit
  <2> QED BY <1>2, <2>1, ClientEndsConn DEF Deinit
<1> QED BY <1>1, <1>2
----------------------------------------------------------------------------
(* The worker.                                                              *)
Desks == {"listen", "done", "hangup", "reply", "offer", "unregister", "rx", "finish", "leave"}

\* Where a worker is, and what it has in hand there.
LEMMA WorkerAt ==
    ASSUME CmuxInv, NEW s \in Sides
    PROVE  /\ s \in Threads /\ s \notin Clients /\ Home(s) = s /\ Peer(s) \in Sides
           /\ work \in [Threads -> PlaceType] /\ work[s].at \in Desks /\ work[s].ch \in Channels \cup {0}
           /\ work[s].at = "hangup" => work[s].then \in {"listen", "done"}
           /\ work[s].at = "reply" => work[s].then \in {"listen", "offer", "leave"} /\ work[s].frame \in Answers
           /\ work[s].at \in {"unregister", "rx"} =>
                /\ work[s].then = "listen" /\ work[s].ch \in Channels /\ chan[work[s].ch].side = s
                /\ chan[work[s].ch] \in ChannelType
           /\ work[s].at = "unregister" => chan[work[s].ch].phase \in Ended /\ work[s].frame \in Answers \cup {None}
           /\ work[s].at = "rx" => work[s].frame \in Frames /\ work[s].frame.type = "uih" /\ work[s].frame.tag[1] \in Channels
<1>1. WorkerPlace(s) /\ Types /\ Bounded /\ s \in Threads /\ s \notin Clients /\ Home(s) = s /\ Peer(s) \in Sides
  BY SidesOf DEF CmuxInv, Placed
<1>2. work \in [Threads -> PlaceType] /\ \A c \in Channels : chan[c] \in ChannelType
  BY <1>1, ChannelsAre DEF Types
<1>3. work[s].ch \in Channels \cup {0}
  BY <1>1 DEF CmuxInv, Placed
<1>4. work[s].at = "rx" => work[s].frame \in Frames /\ work[s].frame.type = "uih" /\ work[s].frame.tag[1] \in Channels
  BY <1>1 DEF Bounded
<1> QED BY <1>1, <1>2, <1>3, <1>4 DEF WorkerPlace, Desks

\* Goto takes a worker to a place that fits it.
LEMMA WorkerGoes ==
    ASSUME CmuxInv, NEW s \in Sides, NEW l \in Desks \ {"hangup", "unregister", "rx", "reply"}, Goto(s, l),
           Channels' = Channels
    PROVE  Moves(s) /\ work'[s].at = l
<1>1. s \in Threads /\ s \notin Clients /\ Types /\ l \in Labels /\ work[s].ch \in Channels \cup {0}
  BY WorkerAt DEF CmuxInv, Desks, Labels
<1>2. /\ work' \in [Threads -> PlaceType] /\ work'[s].at = l
      /\ \A u \in Threads \ {s} : work'[u] = work[u]
      /\ work'[s].ch = 0 \/ work'[s].ch = work[s].ch
  BY <1>1, Gone
<1>3. WorkerPlace(s)' /\ work'[s].at # "rx"
  BY <1>2 DEF WorkerPlace, Desks
<1> QED BY <1>1, <1>2, <1>3 DEF Moves

\* So does Handle.
LEMMA WorkerHandles ==
    ASSUME CmuxInv, NEW s \in Sides, NEW at \in {"reply", "unregister", "rx"}, NEW c \in Channels' \cup {0},
           NEW f \in Frames \cup {None}, NEW then \in {"listen", "offer", "leave"}, Handle(s, at, c, f, then),
           Types, chan' \in Seq(ChannelType),
           at = "reply" => f \in Answers,
           at # "reply" => then = "listen" /\ c \in Channels' /\ chan'[c].side = s,
           at = "unregister" => chan'[c].phase \in Ended /\ f \in Answers \cup {None},
           at = "rx" => f \in Frames /\ f.type = "uih" /\ f.tag[1] \in Channels
    PROVE  Moves(s) /\ work'[s].at = at /\ work'[s].ch = c /\ work'[s].then = then /\ work'[s].frame = f
<1>1. s \in Threads /\ s \notin Clients /\ work \in [Threads -> PlaceType] /\ c \in Nat /\ at \in Labels /\ then \in Labels
  <2>1. Len(chan') \in Nat /\ DOMAIN chan' = 1..Len(chan')
    OBVIOUS
  <2>2. c \in Nat
    BY <2>1 DEF Channels
  <2> QED BY <2>2, WorkerAt DEF Labels
<1> DEFINE r == [Idle EXCEPT !.at = at, !.ch = c, !.frame = f, !.then = then]
<1>2. r \in PlaceType /\ r.at = at /\ r.ch = c /\ r.frame = f /\ r.then = then
  BY <1>1 DEF Idle, PlaceType
<1>3. work' = [work EXCEPT ![s] = r]
  BY DEF Handle
<1> HIDE DEF r
<1>4. /\ work' \in [Threads -> PlaceType] /\ \A u \in Threads \ {s} : work'[u] = work[u]
      /\ work'[s].at = at /\ work'[s].ch = c /\ work'[s].frame = f /\ work'[s].then = then
  BY <1>1, <1>2, <1>3
<1>5. WorkerPlace(s)'
  BY <1>4 DEF WorkerPlace
<1> QED BY <1>1, <1>4, <1>5 DEF Moves

\* The channel of the frame that has come in.
LEMMA LookedIs ==
    ASSUME CmuxInv, NEW s \in Sides, NEW type, Receive(s, type, FALSE)
    PROVE  /\ Incoming(s).dlci \in Dlcis /\ Looked(s) = table[s][Incoming(s).dlci]
           /\ Looked(s) # 0 => /\ Looked(s) \in Channels /\ chan[Looked(s)].side = s
                               /\ chan[Looked(s)] \in ChannelType
<1>1. Types /\ Bounded
  BY DEF CmuxInv
<1>2. Incoming(s) \in Frames /\ (Incoming(s).dlci = 0) = FALSE
  BY <1>1, CarriedRead
<1>3. Incoming(s).dlci \in Dlcis
  BY <1>2 DEF Frames, Answers
<1>4. Looked(s) # 0 => Looked(s) \in Channels /\ chan[Looked(s)].side = s
  BY <1>3 DEF CmuxInv, Listed, Looked
<1> QED BY <1>1, <1>3, <1>4, ChannelsAre DEF Looked

\* The answer to it.
LEMMA AnswerIs ==
    ASSUME CmuxInv, NEW s \in Sides, NEW type, NEW control, Receive(s, type, control), NEW a \in Types4
    PROVE  Answer(s, a) \in Answers /\ Answer(s, a) \in Frames
<1>1. Incoming(s) \in Frames
  BY CarriedRead DEF CmuxInv
<1>2. Incoming(s).dlci \in Dlcis \cup {0}
  BY <1>1 DEF Frames, Answers
<1> QED BY <1>2, FramesAre DEF Answer

\* A worker that changes its place and one channel keeps the invariant.
LEMMA WorkerTouches ==
    ASSUME CmuxInv, NEW s \in Sides, s \notin asleep, NEW c \in Channels, NEW r \in ChannelType, Becomes(s, c, r),
           UNCHANGED <<sessionVars, alive>>, asleep' \subseteq asleep, Carried, Moves(s),
           r.conn = chan[c].conn, r.refs = chan[c].refs, ~Offering(s)
    PROVE  CmuxInv'
<1>1. s \in Threads /\ s \notin Clients /\ s \notin asleep'
  BY SidesOf
<1>2. chan'[c] = r /\ \A d \in Channels \ {c} : chan'[d] = chan[d]
  BY OneChannel DEF Becomes, CmuxInv
<1>3. Makes(s)
  BY <1>1, <1>2 DEF Makes
<1>4. \A d \in Channels : ~Calls(s, d)' /\ ~Calls(s, d)
  BY <1>1 DEF Calls
<1>5. One(HasConn(c))' = One(HasConn(c)) /\ One(Calls(s, c))' = One(Calls(s, c))
  BY <1>2, <1>4 DEF HasConn, One
<1>6. chan'[c].refs - One(HasConn(c))' - One(Calls(s, c))' = chan[c].refs - One(HasConn(c)) - One(Calls(s, c))
  BY <1>2, <1>5
<1> QED BY <1>1, <1>3, <1>4, <1>6, TouchesOne

\* The worker hangs the bearer up.
LEMMA WorkerHangUp == ASSUME CmuxInv, NEW s \in Sides, HangUp(s) PROVE CmuxInv'
<1>1. /\ work[s].at = "hangup" /\ s \notin asleep /\ Goto(s, work[s].then) /\ Channels' = Channels
      /\ UNCHANGED <<closed, table, queue, chan, alive>> /\ ready' = ready /\ asleep' = asleep
  BY DEF HangUp, At, sessionVars, Channels
<1>2. work[s].then \in Desks \ {"hangup", "unregister", "rx", "reply"} /\ ready' \in [Sides -> BOOLEAN]
  BY <1>1, WorkerAt DEF Desks, CmuxInv, Types
<1>3. Moves(s)
  BY <1>1, <1>2, WorkerGoes
<1>4. Carried
  BY WorkerAt, CarriedHangUp DEF CmuxInv
<1>5. ~Offering(s)
  BY <1>1 DEF Offering
<1> QED BY <1>1, <1>2, <1>3, <1>4, <1>5, WorkerWalks

\* The worker ignores a frame, or answers it, and touches no channel.
LEMMA WorkerAnswers ==
    ASSUME CmuxInv, NEW s \in Sides, NEW type, NEW control, Receive(s, type, control),
           UNCHANGED <<closed, table, queue, chan>>, ready' \in [Sides -> BOOLEAN], asleep' \subseteq asleep,
           \A u \in asleep' : work[u].at = "ready" => ready'[Home(u)] = ready[Home(u)],
           \/ work' = work
           \/ \E a \in Types4, then \in {"listen", "leave"} : Handle(s, "reply", 0, Answer(s, a), then)
    PROVE  CmuxInv'
<1>1. /\ Carried /\ alive' = alive /\ work[s].at = "listen" /\ s \notin asleep /\ Channels' = Channels
      /\ Types /\ chan' \in Seq(ChannelType)
  BY CarriedRead DEF CmuxInv, Channels, Types
<1>2. Moves(s)
  <2>1. CASE work' = work
    BY <1>1, <2>1, WorkerAt DEF Moves, WorkerPlace, CmuxInv, Placed
  <2>2. ASSUME NEW a \in Types4, NEW then \in {"listen", "leave"}, Handle(s, "reply", 0, Answer(s, a), then)
        PROVE  Moves(s)
    BY <1>1, <2>2, AnswerIs, WorkerHandles
  <2> QED BY <2>1, <2>2
<1>3. ~Offering(s)
  BY <1>1 DEF Offering
<1> QED BY <1>1, <1>2, <1>3, WorkerWalks

\* The SABM and the UA of the session.
LEMMA WorkerSessionUp == ASSUME CmuxInv, NEW s \in Sides, HandleSessionUp(s) PROVE CmuxInv'
<1>1. PICK type \in {"sabm", "ua"} :
        /\ Receive(s, type, TRUE)
        /\ ready' = [ready EXCEPT ![s] = TRUE]
        /\ Wake(Starting(s))
        /\ IF type = "sabm" THEN Handle(s, "reply", 0, Answer(s, "ua"), "listen")
                            ELSE UNCHANGED work
        /\ UNCHANGED <<closed, table, queue, chan>>
  BY DEF HandleSessionUp
<1>2. ready' \in [Sides -> BOOLEAN] /\ \A r \in Sides \ {s} : ready'[r] = ready[r]
  BY <1>1 DEF CmuxInv, Types
<1>3. asleep' \subseteq asleep /\ \A u \in asleep' : work[u].at = "ready" => ready'[Home(u)] = ready[Home(u)]
  <2>1. asleep' = asleep \ Starting(s)
    BY <1>1 DEF Wake
  <2>2. ASSUME NEW u \in asleep', work[u].at = "ready" PROVE Home(u) \in Sides \ {s}
    BY <2>1, <2>2, SidesOf DEF Starting, CmuxInv, Types
  <2> QED BY <1>2, <2>1, <2>2
<1>4. "ua" \in Types4 /\ "listen" \in {"listen", "leave"}
  BY DEF Types4
<1> QED BY <1>1, <1>2, <1>3, <1>4, WorkerAnswers

\* The DISC of the session.
LEMMA WorkerSessionDisc == ASSUME CmuxInv, NEW s \in Sides, HandleSessionDisc(s) PROVE CmuxInv'
<1>1. "ua" \in Types4 /\ "leave" \in {"listen", "leave"} /\ ready \in [Sides -> BOOLEAN]
  BY DEF Types4, CmuxInv, Types
<1>2. /\ Receive(s, "disc", TRUE) /\ Handle(s, "reply", 0, Answer(s, "ua"), "leave")
      /\ UNCHANGED <<closed, table, queue, chan>> /\ ready' = ready /\ asleep' = asleep
  BY DEF HandleSessionDisc, sessionVars
<1> QED BY <1>1, <1>2, WorkerAnswers

\* A frame for a channel ends it, opens it, or is an answer that changes nothing.
LEMMA WorkerSetsPhase ==
    ASSUME CmuxInv, NEW s \in Sides, NEW type, Receive(s, type, FALSE), Looked(s) # 0, NEW p \in Phases,
           SetPhase(Looked(s), p), UNCHANGED sessionVars,
           chan[Looked(s)].phase \in Ended => p \in Ended,
           \/ work' = work
           \/ /\ p \in Ended
              /\ \E f \in Answers \cup {None} : Handle(s, "unregister", Looked(s), f, "listen")
    PROVE  CmuxInv'
<1> DEFINE c == Looked(s)
           r == [chan[c] EXCEPT !.phase = p]
<1>1. /\ Carried /\ alive' = alive /\ work[s].at = "listen" /\ s \notin asleep /\ Types /\ Bounded
  BY CarriedRead DEF CmuxInv
<1>2. c \in Channels /\ chan[c].side = s /\ chan[c] \in ChannelType
  BY LookedIs
<1>3. chan' = [chan EXCEPT ![c] = r] /\ asleep' = asleep \ OnChannel(c)
  BY DEF SetPhase, Wake
<1>4. /\ r \in ChannelType /\ r.side = chan[c].side /\ r.dlci = chan[c].dlci /\ r.registered = chan[c].registered
      /\ r.rx = chan[c].rx /\ r.conn = chan[c].conn /\ r.phase = p /\ r.refs = chan[c].refs
  BY <1>2 DEF ChannelType
<1> HIDE DEF r, c
<1>5. chan' \in Seq(ChannelType) /\ Channels' = Channels /\ chan'[c] = r
  BY <1>1, <1>2, <1>3, <1>4, OneChannel
<1>6. Becomes(s, c, r)
  BY <1>1, <1>2, <1>3, <1>4 DEF Becomes, Bounded, c
<1>7. Moves(s)
  <2>1. CASE work' = work
    BY <1>1, <1>5, <2>1, WorkerAt DEF Moves, WorkerPlace, CmuxInv, Placed
  <2>2. ASSUME p \in Ended, NEW f \in Answers \cup {None}, Handle(s, "unregister", c, f, "listen")
        PROVE  Moves(s)
    <3>1. f \in Frames \cup {None}
      BY <2>2 DEF Frames
    <3> QED BY <1>1, <1>2, <1>4, <1>5, <2>2, <3>1, WorkerHandles
  <2> QED BY <2>1, <2>2 DEF c
<1>8. ~Offering(s) /\ asleep' \subseteq asleep
  BY <1>1, <1>3 DEF Offering
<1> QED BY <1>1, <1>2, <1>4, <1>6, <1>7, <1>8, WorkerTouches

\* The UA of a channel.
LEMMA WorkerOpenAck == ASSUME CmuxInv, NEW s \in Sides, HandleOpenAck(s) PROVE CmuxInv'
<1> DEFINE c == Looked(s)
<1>1. Receive(s, "ua", FALSE) /\ ready \in [Sides -> BOOLEAN]
  BY DEF HandleOpenAck, CmuxInv, Types
<1>2. CASE c = 0
  <2>1. UNCHANGED <<closed, table, queue, chan>> /\ ready' = ready /\ asleep' = asleep /\ work' = work
    BY <1>2 DEF HandleOpenAck, Ignore, sessionVars
  <2> QED BY <1>1, <2>1, WorkerAnswers
<1>3. CASE c # 0
  <2>1. chan[c].phase \in Phases
    BY <1>1, <1>3, LookedIs DEF ChannelType
  <2>2. /\ Acked(chan[c].phase) \in Phases
        /\ chan[c].phase \in Ended => Acked(chan[c].phase) \in Ended
        /\ chan[c].phase = "closing_local" => Acked(chan[c].phase) \in Ended
    BY <2>1 DEF Acked, Phases, Ended
  <2>3. SetPhase(c, Acked(chan[c].phase)) /\ UNCHANGED sessionVars
    BY <1>3 DEF HandleOpenAck
  <2>4. \/ work' = work
        \/ chan[c].phase = "closing_local" /\ Handle(s, "unregister", c, None, "listen")
    BY <1>3 DEF HandleOpenAck
  <2> QED BY <1>1, <1>3, <2>2, <2>3, <2>4, WorkerSetsPhase
<1> QED BY <1>2, <1>3

\* The DISC of a channel.
LEMMA WorkerDisc == ASSUME CmuxInv, NEW s \in Sides, HandleDisc(s) PROVE CmuxInv'
<1> DEFINE c == Looked(s)
<1>1. Receive(s, "disc", FALSE) /\ ready \in [Sides -> BOOLEAN]
  BY DEF HandleDisc, CmuxInv, Types
<1>2. CASE c = 0
  <2>1. UNCHANGED <<closed, table, queue, chan>> /\ ready' = ready /\ asleep' = asleep
        /\ Handle(s, "reply", 0, Answer(s, "dm"), "listen")
    BY <1>2 DEF HandleDisc, sessionVars
  <2>2. "dm" \in Types4
    BY DEF Types4
  <2> QED BY <1>1, <2>1, <2>2, WorkerAnswers
<1>3. CASE c # 0
  <2>1. SetPhase(c, "closed") /\ Handle(s, "unregister", c, Answer(s, "ua"), "listen") /\ UNCHANGED sessionVars
    BY <1>3 DEF HandleDisc
  <2>2. Answer(s, "ua") \in Answers
    BY <1>1, AnswerIs DEF Types4
  <2>3. "closed" \in Phases /\ "closed" \in Ended
    BY DEF Phases, Ended
  <2> QED BY <1>1, <1>3, <2>1, <2>2, <2>3, WorkerSetsPhase
<1> QED BY <1>2, <1>3

\* The DM of a channel.
LEMMA WorkerReject == ASSUME CmuxInv, NEW s \in Sides, HandleReject(s) PROVE CmuxInv'
<1> DEFINE c == Looked(s)
<1>1. Receive(s, "dm", FALSE) /\ ready \in [Sides -> BOOLEAN]
  BY DEF HandleReject, CmuxInv, Types
<1>2. CASE c = 0
  <2>1. UNCHANGED <<closed, table, queue, chan>> /\ ready' = ready /\ asleep' = asleep /\ work' = work
    BY <1>2 DEF HandleReject, Ignore, sessionVars
  <2> QED BY <1>1, <2>1, WorkerAnswers
<1>3. CASE c # 0
  <2>1. SetPhase(c, "rejected") /\ Handle(s, "unregister", c, None, "listen") /\ UNCHANGED sessionVars
    BY <1>3 DEF HandleReject
  <2>2. "rejected" \in Phases /\ "rejected" \in Ended
    BY DEF Phases, Ended
  <2> QED BY <1>1, <1>3, <2>1, <2>2, WorkerSetsPhase
<1> QED BY <1>2, <1>3

\* A data frame is looked up.
LEMMA WorkerData == ASSUME CmuxInv, NEW s \in Sides, HandleData(s) PROVE CmuxInv'
<1> DEFINE c == Looked(s)
<1>1. /\ Receive(s, "uih", FALSE) /\ UNCHANGED <<closed, table, queue, chan>> /\ ready' = ready /\ asleep' = asleep
      /\ ready \in [Sides -> BOOLEAN] /\ Types /\ Bounded /\ Channels' = Channels
      /\ IF c = 0 THEN UNCHANGED work ELSE Handle(s, "rx", c, Incoming(s), "listen")
  BY DEF HandleData, CmuxInv, Types, sessionVars, Channels
<1>2. CASE c = 0
  BY <1>1, <1>2, WorkerAnswers
<1>3. CASE c # 0
  <2>1. /\ Carried /\ alive' = alive /\ s \notin asleep /\ work[s].at = "listen"
        /\ Incoming(s) \in Frames /\ Incoming(s).type = "uih" /\ Incoming(s).tag[1] \in Channels
    BY <1>1, CarriedRead
  <2>2. c \in Channels' /\ chan'[c].side = s /\ chan' \in Seq(ChannelType)
    BY <1>1, <1>3, LookedIs DEF Types
  <2>3. Moves(s)
    BY <1>1, <1>3, <2>1, <2>2, WorkerHandles
  <2>4. ~Offering(s)
    BY <2>1 DEF Offering
  <2> QED BY <1>1, <2>1, <2>3, <2>4, WorkerWalks
<1> QED BY <1>2, <1>3

\* The worker goes on and touches no channel.
LEMMA WorkerPasses ==
    ASSUME CmuxInv, NEW s \in Sides, s \notin asleep, NEW l \in {"listen", "done", "finish"}, Goto(s, l),
           UNCHANGED <<sessionVars, chan, wire, shut, alive, countVars>>, asleep' \subseteq asleep,
           \A u \in asleep' : work[u].at = "accept" /\ Home(u) = s /\ Offering(s) => Offering(s)'
    PROVE  CmuxInv'
<1>1. /\ UNCHANGED <<closed, table, queue, chan, alive>> /\ ready' = ready /\ UNCHANGED <<wire, shut, countVars>>
      /\ Channels' = Channels /\ ready' \in [Sides -> BOOLEAN]
  BY DEF sessionVars, Channels, CmuxInv, Types
<1>2. Moves(s)
  BY <1>1, WorkerGoes DEF Desks
<1>3. Carried
  BY <1>1, CarriedStill DEF CmuxInv
<1> QED BY <1>1, <1>2, <1>3, WorkerWalks

\* What is put at the end of a buffer.
LEMMA Appended ==
    ASSUME NEW T, NEW q \in Seq(T), NEW x \in T
    PROVE  /\ Append(q, x) \in Seq(T) /\ Len(Append(q, x)) = Len(q) + 1 /\ Len(q) \in Nat
           /\ Append(q, x)[Len(q) + 1] = x /\ \A i \in DOMAIN q : Append(q, x)[i] = q[i]
           /\ \A i \in DOMAIN Append(q, x) : Append(q, x)[i] = x \/ (i \in DOMAIN q /\ Append(q, x)[i] = q[i])
OBVIOUS

\* A data frame is put into the buffer of its channel.
LEMMA WorkerStoreData == ASSUME CmuxInv, NEW s \in Sides, StoreData(s) PROVE CmuxInv'
<1> DEFINE c == work[s].ch
           x == work[s].frame.tag
<1>1. /\ work[s].at = "rx" /\ s \notin asleep /\ ~MustWait(s) /\ Goto(s, "listen") /\ UNCHANGED <<sessionVars, alive>>
      /\ UNCHANGED <<bearerVars, countVars>> /\ Types /\ Bounded
  BY DEF StoreData, Proceeds, At, CmuxInv
<1>2. /\ c \in Channels /\ chan[c] \in ChannelType /\ work[s] \in PlaceType
      /\ work[s].frame.type = "uih" /\ x[1] \in Channels /\ ~Offering(s)
  BY <1>1, WorkerAt DEF Offering
<1>3. CASE chan[c].phase # "open"
  <2>1. UNCHANGED <<sessionVars, chan, wire, shut, alive, countVars>> /\ asleep' = asleep
    BY <1>3 DEF StoreData, bearerVars
  <2> QED BY <1>1, <1>2, <2>1, WorkerPasses
<1>4. CASE chan[c].phase = "open"
  <2> DEFINE r == [chan[c] EXCEPT !.rx = Append(chan[c].rx, x)]
  <2>1. chan' = [chan EXCEPT ![c] = r] /\ asleep' = asleep \ OnChannel(c)
    BY <1>4 DEF StoreData, Wake
  <2>2. chan[c].rx \in Seq(Nat \X Nat) /\ Len(chan[c].rx) < RxCap
    <3>1. ~(Len(chan[c].rx) >= RxCap)
      BY <1>1, <1>4 DEF MustWait, Holds
    <3>2. chan[c].rx \in Seq(Nat \X Nat)
      BY <1>2 DEF ChannelType
    <3>3. Len(chan[c].rx) \in Nat
      BY <3>2
    <3> QED BY <3>1, <3>2, <3>3, CmuxAssumption
  <2>3. x \in Nat \X Nat
    <3>1. work[s].frame \in Frames
      BY <1>1, WorkerAt
    <3> QED BY <1>2, <3>1 DEF Frames, Answers, Types4
  <2> HIDE DEF x
  <2>4. /\ Append(chan[c].rx, x) \in Seq(Nat \X Nat) /\ Len(Append(chan[c].rx, x)) <= RxCap
        /\ \A i \in DOMAIN Append(chan[c].rx, x) :
              Append(chan[c].rx, x)[i] = x \/ (i \in DOMAIN chan[c].rx /\ Append(chan[c].rx, x)[i] = chan[c].rx[i])
    <3>1. /\ Append(chan[c].rx, x) \in Seq(Nat \X Nat) /\ Len(Append(chan[c].rx, x)) = Len(chan[c].rx) + 1
          /\ Len(chan[c].rx) \in Nat
          /\ \A i \in DOMAIN Append(chan[c].rx, x) :
                Append(chan[c].rx, x)[i] = x \/ (i \in DOMAIN chan[c].rx /\ Append(chan[c].rx, x)[i] = chan[c].rx[i])
      <4> DEFINE q == chan[c].rx
      <4>1. q \in Seq(Nat \X Nat) /\ x \in Nat \X Nat
        BY <2>2, <2>3
      <4> HIDE DEF q
      <4>2. /\ Append(q, x) \in Seq(Nat \X Nat) /\ Len(Append(q, x)) = Len(q) + 1 /\ Len(q) \in Nat
            /\ \A i \in DOMAIN Append(q, x) : Append(q, x)[i] = x \/ (i \in DOMAIN q /\ Append(q, x)[i] = q[i])
        BY ONLY <4>1, Appended
      <4> QED BY <4>2 DEF q
    <3>2. Len(chan[c].rx) + 1 <= RxCap
      BY <2>2, <3>1, CmuxAssumption
    <3> QED BY <3>1, <3>2
  <2>5. /\ r \in ChannelType /\ r.side = chan[c].side /\ r.dlci = chan[c].dlci /\ r.registered = chan[c].registered
        /\ r.rx = Append(chan[c].rx, x) /\ r.conn = chan[c].conn /\ r.phase = chan[c].phase /\ r.refs = chan[c].refs
    BY <1>2, <2>4 DEF ChannelType
  <2> HIDE DEF r
  <2>6. \A i \in DOMAIN r.rx : r.rx[i][1] \in Channels
    BY ZenonT(40), <1>1, <1>2, <2>4, <2>5 DEF Bounded
  <2>7. Becomes(s, c, r)
    BY <2>1, <2>4, <2>5, <2>6 DEF Becomes
  <2>8. Channels' = Channels
    BY <1>1, <1>2, <2>1, <2>5, OneChannel
  <2>9. Moves(s)
    BY <1>1, <2>8, WorkerGoes DEF Desks
  <2>10. Carried
    BY <1>1, CarriedSame
  <2> QED BY <1>1, <1>2, <2>1, <2>5, <2>7, <2>9, <2>10, WorkerTouches
<1> QED BY <1>3, <1>4

\* The worker sends its answer.
LEMMA WorkerReply == ASSUME CmuxInv, NEW s \in Sides, Reply(s) PROVE CmuxInv'
<1>1. /\ work[s].at = "reply" /\ s \notin asleep /\ UNCHANGED <<closed, table, queue, chan, alive>> /\ ready' = ready
      /\ asleep' = asleep /\ UNCHANGED countVars /\ Channels' = Channels /\ ready' \in [Sides -> BOOLEAN]
      /\ Types /\ Bounded
  BY DEF Reply, At, sessionVars, Channels, CmuxInv, Types
<1>2. PICK ok \in BOOLEAN : Sends(s, work[s].frame, ok) /\ Goto(s, IF ok THEN work[s].then ELSE "finish")
  BY SidesOf, Transmits DEF Reply
<1>3. work[s].then \in {"listen", "offer", "leave"} /\ work[s].frame \in Answers
  BY <1>1, WorkerAt
<1>4. PICK l \in {"listen", "offer", "leave", "finish"} : Goto(s, l) /\ l \in {work[s].then, "finish"}
  BY <1>2, <1>3
<1>5. Moves(s) /\ work'[s].at = l
  BY <1>1, <1>4, WorkerGoes DEF Desks
<1>6. Carried
  <2>1. work[s].frame \in Frames /\ work[s].frame.type # "uih"
    BY <1>3 DEF Frames, Answers, Types4
  <2> QED BY <1>1, <1>2, <2>1, CarriedSent
<1>7. Offering(s) => Offering(s)'
  BY <1>1, <1>3, <1>4, <1>5 DEF Offering
<1> QED BY <1>1, <1>5, <1>6, <1>7, WorkerWalks

\* The steps of workers that only move on.
LEMMA WorkerPassing ==
    ASSUME CmuxInv, NEW s \in Sides, Offer(s) \/ Fail(s) \/ (Finish(s) /\ closed[s])
    PROVE  CmuxInv'
<1>1. CASE Offer(s)
  <2>1. /\ s \notin asleep /\ Goto(s, "listen") /\ UNCHANGED <<sessionVars, chan, wire, shut, alive, countVars>>
        /\ asleep' = asleep \ Accepting(s)
    BY <1>1 DEF Offer, At, Wake, bearerVars
  <2>2. \A u \in asleep' : ~(work[u].at = "accept" /\ Home(u) = s)
    BY <2>1 DEF Accepting
  <2> QED BY <2>1, <2>2, WorkerPasses
<1>2. CASE Fail(s)
  <2>1. /\ s \notin asleep /\ work[s].at = "listen" /\ Goto(s, "finish")
        /\ UNCHANGED <<sessionVars, chan, wire, shut, alive, countVars>> /\ asleep' = asleep
    BY <1>2 DEF Fail, At
  <2>2. ~Offering(s)
    BY <2>1 DEF Offering
  <2> QED BY <2>1, <2>2, WorkerPasses
<1>3. CASE Finish(s) /\ closed[s]
  <2>1. PICK l \in {"listen", "done"} : Goto(s, l)
    BY <1>3 DEF Finish
  <2>2. /\ s \notin asleep /\ UNCHANGED <<sessionVars, chan, wire, shut, alive, countVars>> /\ asleep' = asleep
    BY <1>3 DEF Finish, At, bearerVars
  <2>3. \A u \in asleep' : ~(work[u].at = "accept" /\ Home(u) = s)
    <3>1. ASSUME NEW u \in asleep, work[u].at = "accept", Home(u) = s PROVE FALSE
      <4>1. MustWait(u) \/ ~closed[Home(u)]
        BY <3>1 DEF CmuxInv, AsleepRight
      <4> QED BY <1>3, <3>1, <4>1 DEF MustWait
    <3> QED BY <2>2, <3>1
  <2> QED BY <2>1, <2>2, <2>3, WorkerPasses
<1> QED BY <1>1, <1>2, <1>3
----------------------------------------------------------------------------
(* Going to sleep and waking for no reason; taking a session down.          *)
LEMMA OnlySleep ==
    ASSUME CmuxInv, UNCHANGED <<sessionVars, chan, bearerVars, alive, work, countVars>>, asleep' \subseteq Threads,
           \A u \in asleep' : u \in asleep \/ MustWait(u)
    PROVE  CmuxInv'
<1>1. /\ closed' = closed /\ ready' = ready /\ table' = table /\ queue' = queue /\ chan' = chan /\ wire' = wire
      /\ shut' = shut /\ alive' = alive /\ work' = work /\ dials' = dials /\ calls' = calls /\ Channels' = Channels
  BY DEF sessionVars, bearerVars, countVars, Channels
<1>2. Types'
  BY <1>1 DEF CmuxInv, Types
<1>3. Bounded'
  BY <1>1 DEF CmuxInv, Bounded
<1>4. Placed'
  BY <1>1 DEF CmuxInv, Placed, WorkerPlace, ClientPlace
<1>5. Listed' /\ Queued' /\ LiveListed'
  BY <1>1 DEF CmuxInv, Listed, Queued, LiveListed
<1>6. MadeOnce'
  BY <1>1 DEF CmuxInv, MadeOnce, InQueue
<1>7. Counted'
  <2>1. ASSUME NEW c \in Channels
        PROVE  /\ One(InTable(c))' = One(InTable(c)) /\ One(InQueue(c))' = One(InQueue(c))
               /\ One(HasConn(c))' = One(HasConn(c)) /\ Callers(c)' = Callers(c)
    BY <1>1 DEF InQueue, InTable, HasConn, Callers, Retains, One
  <2>2. ASSUME NEW c \in Channels
        PROVE  chan'[c].refs = One(InTable(c))' + One(InQueue(c))' + One(HasConn(c))' + Cardinality(Callers(c)')
    <3>1. Cardinality(Callers(c)') = Cardinality(Callers(c))
      BY <2>1, Zenon
    <3>2. chan[c].refs = One(InTable(c)) + One(InQueue(c)) + One(HasConn(c)) + Cardinality(Callers(c))
      BY DEF CmuxInv, Counted
    <3> QED BY <1>1, <2>1, <3>1, <3>2
  <2> QED BY <1>1, <2>2 DEF Counted, One
<1>8. AsleepRight'
  <2>1. \A u : MustWait(u)' <=> MustWait(u)
    BY <1>1 DEF MustWait, Holds, Home
  <2>2. \A s : Offering(s)' <=> Offering(s)
    BY <1>1 DEF Offering
  <2> SUFFICES ASSUME NEW u \in asleep'
               PROVE  MustWait(u)' \/ (work'[u].at = "accept" /\ ~closed'[Home(u)] /\ Offering(Home(u))')
    BY DEF AsleepRight, Home
  <2>3. MustWait(u) \/ (work[u].at = "accept" /\ ~closed[Home(u)] /\ Offering(Home(u)))
    BY DEF CmuxInv, AsleepRight
  <2> QED BY <1>1, <2>1, <2>2, <2>3
<1> QED BY <1>2, <1>3, <1>4, <1>5, <1>6, <1>7, <1>8 DEF CmuxInv

\* A thread falls asleep or wakes for no reason.
LEMMA SleepKeeps == ASSUME CmuxInv, NEW t \in Threads, Sleep(t) \/ WakeSpuriously(t) PROVE CmuxInv'
<1>1. asleep \subseteq Threads
  BY DEF CmuxInv, Types
<1>2. CASE Sleep(t)
  BY <1>1, <1>2, OnlySleep DEF Sleep
<1>3. CASE WakeSpuriously(t)
  BY <1>1, <1>3, OnlySleep DEF WakeSpuriously, Wake
<1> QED BY <1>2, <1>3

\* deinit of the session begins.
LEMMA ClientDestroy == ASSUME CmuxInv, NEW t \in Clients, Destroy(t) PROVE CmuxInv'
<1>1. /\ Call(t, "destroy") /\ work[t].at = "idle" /\ t \notin asleep /\ Begin(t, "shutdown", 0, "join")
      /\ UNCHANGED <<sessionVars, chan, asleep>> /\ UNCHANGED bearerVars /\ dials' = dials
      /\ Channels' = Channels /\ chan' = chan
      /\ alive' = [alive EXCEPT ![Home(t)] = FALSE]
  BY DEF Destroy, Call, At, Channels
<1>2. Fades /\ ~alive'[HomeOf[t]]
  BY <1>1, Hands DEF Fades, CmuxInv, Types
<1>3. /\ "shutdown" \in Places \ Dialling
      /\ "shutdown" \notin Handling \cup Making \cup Retaining \cup {"close", "disc", "join", "bye", "hangup"}
      /\ ~Retains(t) /\ 0 \in Channels \cup {0}
  BY <1>1 DEF Places, Handling, Dialling, Ending, Making, Retaining, Retains
<1>4. Moves(t) /\ work'[t].at = "shutdown"
  BY <1>1, <1>2, <1>3, ClientBegins
<1>5. Retains(t)' = Retains(t)
  BY <1>3, <1>4 DEF Retains
<1>6. Carried
  BY <1>1, CarriedCall DEF CmuxInv
<1> QED BY <1>1, <1>2, <1>3, <1>4, <1>5, <1>6, ClientFades
----------------------------------------------------------------------------
(* The session's close.                                                     *)
LEMMA CloseKeeps ==
    ASSUME CmuxInv, NEW t \in Threads, t \notin asleep, BeginClose(Home(t)), alive' = alive, Carried, Moves(t),
           Retains(t)' = Retains(t), Retains(t) => work'[t].ch = work[t].ch,
           work'[t].at \notin Making
    PROVE  CmuxInv'
<1> DEFINE s == Home(t)
           ends(c) == c \in Tabled(s) /\ chan[c].phase \notin Ended
<1>1. /\ s \in Sides /\ table' = table /\ queue' = queue /\ ready' = ready /\ Types /\ Bounded
      /\ closed' = [closed EXCEPT ![s] = TRUE] /\ alive' = alive
      /\ asleep' = asleep \ (Accepting(s) \cup Starting(s) \cup UNION {OnChannel(c) : c \in Tabled(s)})
  BY SidesOf DEF BeginClose, Wake, CmuxInv
<1>2. closed' \in [Sides -> BOOLEAN] /\ closed'[s] /\ \A p \in Sides \ {s} : closed'[p] = closed[p]
  BY <1>1 DEF Types
<1>3. /\ chan' = [c \in Channels |-> IF ends(c) THEN [chan[c] EXCEPT !.phase = "closed"] ELSE chan[c]]
      /\ Channels = 1..Len(chan) /\ Len(chan) \in Nat /\ \A c \in Channels : chan[c] \in ChannelType
  BY <1>1, ChannelsAre DEF BeginClose
<1>4. ASSUME NEW c \in Channels
      PROVE  /\ chan'[c] \in ChannelType /\ chan'[c].side = chan[c].side /\ chan'[c].dlci = chan[c].dlci
             /\ chan'[c].registered = chan[c].registered /\ chan'[c].rx = chan[c].rx /\ chan'[c].conn = chan[c].conn
             /\ chan'[c].refs = chan[c].refs
             /\ chan'[c].phase = IF ends(c) THEN "closed" ELSE chan[c].phase
  <2>1. chan'[c] = IF ends(c) THEN [chan[c] EXCEPT !.phase = "closed"] ELSE chan[c]
    BY <1>3
  <2>2. chan[c] \in ChannelType
    BY <1>3
  <2>3. CASE ends(c)
    <3>1. chan'[c] = [chan[c] EXCEPT !.phase = "closed"]
      BY <2>1, <2>3
    <3> HIDE DEF ends
    <3> QED BY <2>2, <2>3, <3>1 DEF ChannelType, Phases
  <2>4. CASE ~ends(c)
    <3>1. chan'[c] = chan[c]
      BY <2>1, <2>4
    <3> HIDE DEF ends
    <3> QED BY <2>2, <2>4, <3>1
  <2> QED BY <2>3, <2>4
<1>5. chan' \in Seq(ChannelType) /\ Len(chan') = Len(chan) /\ Channels' = Channels
  <2>1. chan' \in [1..Len(chan) -> ChannelType]
    BY <1>3, <1>4
  <2> QED BY <1>3, <2>1, SeqOf DEF Channels
<1>6. KeepsChannels
  <2>1. \A c \in Channels : chan[c].phase \in Ended => chan'[c].phase \in Ended
    BY <1>4
  <2> HIDE DEF ends
  <2> QED BY <1>1, <1>4, <1>5, <2>1 DEF KeepsChannels, Bounded
<1>7. Makes(t)
  BY <1>4 DEF Makes
<1>8. Counts(t)
  <2> SUFFICES ASSUME NEW c \in Channels
               PROVE  chan'[c].refs - One(HasConn(c))' - One(Calls(t, c))' = chan[c].refs - One(HasConn(c)) - One(Calls(t, c))
    BY DEF Counts
  <2>1. Calls(t, c)' <=> Calls(t, c)
    BY <1>7, Hands, SidesOf DEF Calls, Retains
  <2>2. One(Calls(t, c))' = One(Calls(t, c)) /\ One(HasConn(c))' = One(HasConn(c))
    BY <1>4, <2>1 DEF One, HasConn
  <2> QED BY <1>4, <2>2
<1>9. Closes
  <2>1. ASSUME NEW p \in Sides, NEW c \in Channels, closed'[p], ~closed[p], chan[c].side = p, table[p][chan[c].dlci] = c
        PROVE  chan'[c].phase \in Ended
    <3>1. p = s /\ chan[c].dlci \in Dlcis /\ c # 0
      BY <1>2, <1>3, <2>1 DEF ChannelType
    <3>2. c \in Tabled(s)
      BY <2>1, <3>1 DEF Tabled
    <3> QED BY <1>4, <3>2 DEF Ended
  <2> QED BY <1>1, <1>2, <2>1 DEF Closes, Types
<1>10. Rests(t)
  <2>1. ASSUME NEW u \in asleep' PROVE Unmoved(u)
    <3>0. u \in asleep /\ u \in Threads /\ u # t /\ Home(u) \in Sides
      BY <1>1, <2>1, SidesOf DEF Types
    <3>1. work[u].at \in {"ready", "accept"} => Home(u) # s
      BY <1>1, <2>1, <3>0 DEF Accepting, Starting
    <3>2. work[u].at \in {"ready", "accept"} => closed'[Home(u)] = closed[Home(u)]
      BY <1>2, <3>0, <3>1
    <3>3. work[u].at = "accept" /\ Offering(Home(u)) => Offering(Home(u))'
      <4>1. ASSUME work[u].at = "accept" PROVE work'[Home(u)] = work[Home(u)]
        <5>1. Home(u) \in Threads /\ Home(u) # t
          BY <3>0, <3>1, <4>1, SidesOf
        <5> QED BY <5>1 DEF Moves
      <4> QED BY <4>1 DEF Offering, Home
    <3>4. ASSUME work[u].at \in {"await", "opened", "read", "rx"}
          PROVE  LET d == work[u].ch IN
                 chan'[d].phase = chan[d].phase /\ chan'[d].registered = chan[d].registered /\ chan'[d].rx = chan[d].rx
      <4>1. work[u].ch \in Channels
        <5>1. CASE u \in Clients
          <6>1. ClientPlace(u)
            BY <5>1 DEF CmuxInv, Placed
          <6>2. work[u].at # "rx"
            BY <6>1 DEF ClientPlace, Handling, Dialling, Ending
          <6> QED BY <3>4, <6>1, <6>2 DEF ClientPlace, Handling
        <5>2. CASE u \in Sides
          BY <3>4, <5>2 DEF CmuxInv, Placed, WorkerPlace
        <5> QED BY <3>0, <5>1, <5>2 DEF Threads
      <4>2. work[u].ch \notin Tabled(s)
        BY <1>1, <2>1, <3>0 DEF OnChannel
      <4> QED BY <1>4, <4>1, <4>2
    <3> HIDE DEF ends
    <3> QED BY <1>1, <3>2, <3>3, <3>4 DEF Unmoved
  <2> QED BY <1>1, <2>1 DEF Rests
<1>11. Fades /\ ready' \in [Sides -> BOOLEAN]
  BY <1>1 DEF Fades, Types
<1> HIDE DEF ends
<1> QED BY <1>1, <1>6, <1>7, <1>8, <1>9, <1>10, <1>11, CalmKeeps DEF Calm

\* The session closes and nothing else about the channels is known of the step.
LEMMA ClosedKeeps ==
    ASSUME CmuxInv, NEW t \in Threads, BeginClose(Home(t))
    PROVE  /\ Channels' = Channels /\ closed'[Home(t)] /\ \A s \in Sides : closed[s] => closed'[s]
           /\ \A c \in Channels : chan'[c].side = chan[c].side
<1>1. Home(t) \in Sides /\ closed' = [closed EXCEPT ![Home(t)] = TRUE] /\ Types
  BY SidesOf DEF BeginClose, CmuxInv
<1>2. /\ chan' = [c \in Channels |->
            IF c \in Tabled(Home(t)) /\ chan[c].phase \notin Ended
            THEN [chan[c] EXCEPT !.phase = "closed"] ELSE chan[c]]
      /\ \A c \in Channels : chan[c] \in ChannelType
  BY <1>1, ChannelsAre DEF BeginClose
<1>3. ASSUME NEW c \in Channels PROVE chan'[c].side = chan[c].side
  BY <1>2 DEF ChannelType
<1> QED BY <1>1, <1>2, <1>3 DEF Types, Channels

\* close of the session by a client.
LEMMA ClientShutdown == ASSUME CmuxInv, NEW t \in Clients, Shutdown(t), ~closed[Home(t)] PROVE CmuxInv'
<1>1. /\ work[t].at = "shutdown" /\ t \notin asleep /\ BeginClose(Home(t)) /\ Goto(t, "bye")
      /\ UNCHANGED <<bearerVars, countVars>> /\ alive' = alive /\ Types /\ Bounded
  BY DEF Shutdown, At, CmuxInv
<1>2. t \in Threads /\ t \notin Sides /\ Home(t) = HomeOf[t] /\ HomeOf[t] \in Sides /\ ClientPlace(t)
      /\ work[t].ch \in Channels \cup {0}
  BY Hands DEF CmuxInv, Placed
<1>3. Channels' = Channels /\ closed'[HomeOf[t]]
  BY <1>1, <1>2, ClosedKeeps
<1>4. /\ work' \in [Threads -> PlaceType] /\ \A u \in Threads \ {t} : work'[u] = work[u]
      /\ work'[t].at = "bye" /\ work'[t].ch = work[t].ch /\ work'[t].then = work[t].then
  BY <1>1, <1>2, Gone DEF Labels
<1>5. work[t].then \in {"idle", "join"} /\ (work[t].then = "join" => ~alive[HomeOf[t]])
  BY <1>1, <1>2 DEF ClientPlace, Ending
<1>6. ClientPlace(t)'
  BY <1>1, <1>3, <1>4, <1>5 DEF ClientPlace, Handling, Dialling, Ending
<1>7. Moves(t)
  BY <1>2, <1>3, <1>4, <1>6 DEF Moves
<1>8. Retains(t)' = FALSE /\ Retains(t) = FALSE /\ work'[t].at \notin Making
  BY <1>1, <1>4 DEF Retains, Retaining, Making
<1>9. Carried
  BY <1>1, CarriedSame
<1> QED BY <1>1, <1>2, <1>7, <1>8, <1>9, CloseKeeps

\* close of the session by its worker.
LEMMA WorkerFinish == ASSUME CmuxInv, NEW s \in Sides, Finish(s), ~closed[s] PROVE CmuxInv'
<1>1. PICK l \in {"finish", "leave"} :
        /\ At(s, l) /\ BeginClose(s) /\ UNCHANGED <<bearerVars, alive, countVars>>
        /\ work' = [work EXCEPT ![s].at = "hangup", ![s].then = IF l = "leave" THEN "listen" ELSE "done"]
  BY DEF Finish
<1>2. s \in Threads /\ s \notin Clients /\ Home(s) = s /\ work \in [Threads -> PlaceType] /\ Types /\ Bounded
      /\ work[s].ch \in Channels \cup {0}
  BY WorkerAt DEF CmuxInv
<1> DEFINE n == IF l = "leave" THEN "listen" ELSE "done"
           r == [work[s] EXCEPT !.at = "hangup", !.then = n]
<1>3. n \in {"listen", "done"} /\ work[s] \in PlaceType
  BY <1>2
<1>4. work' = [work EXCEPT ![s] = r]
  BY <1>1, <1>2
<1> HIDE DEF n
<1>5. r \in PlaceType /\ r.at = "hangup" /\ r.then = n /\ r.ch = work[s].ch
  BY <1>3 DEF PlaceType, Labels
<1> HIDE DEF r
<1>6. /\ work' \in [Threads -> PlaceType] /\ \A u \in Threads \ {s} : work'[u] = work[u]
      /\ work'[s].at = "hangup" /\ work'[s].ch = work[s].ch /\ work'[s].then = n
  BY <1>2, <1>4, <1>5
<1>7. Channels' = Channels
  BY <1>1, <1>2, ClosedKeeps
<1>8. WorkerPlace(s)'
  BY <1>3, <1>6 DEF WorkerPlace
<1>9. Moves(s)
  BY <1>2, <1>6, <1>7, <1>8 DEF Moves
<1>10. Retains(s)' = FALSE /\ Retains(s) = FALSE /\ work'[s].at \notin Making /\ s \notin asleep
  BY <1>1, <1>6 DEF Retains, Retaining, Making, At
<1>11. Carried
  BY <1>1, <1>2, CarriedSame
<1> QED BY <1>1, <1>2, <1>9, <1>10, <1>11, CloseKeeps
----------------------------------------------------------------------------
(* A new channel.                                                           *)

\* The thread t creates the channel q of side s under the number d, and queues it or not.
Creates(t, s, d, q, queued) ==
    /\ t \notin asleep /\ UNCHANGED <<closed, ready, alive, asleep>> /\ Carried /\ Moves(t)
    /\ s = Home(t) /\ ~closed[s] /\ table[s][d] = 0
    /\ q.side = s /\ q.dlci = d /\ q.registered /\ q.rx = <<>> /\ q.conn = "none"
    /\ chan' = Append(chan, q)
    /\ table' = [table EXCEPT ![s][d] = Len(chan) + 1]
    /\ queue' = IF queued THEN [queue EXCEPT ![s] = Append(@, Len(chan) + 1)] ELSE queue
    /\ queued => Len(queue[s]) < MaxQueue /\ t \in Sides /\ Offering(s)'
    /\ t \in Sides => ~Offering(t)
    /\ ~Retains(t)
    /\ Retains(t)' => work'[t].ch = Len(chan) + 1
    /\ t \in Clients /\ work'[t].at \in Making => work'[t].ch = Len(chan) + 1
    /\ q.refs = 1 + One(queued) + One(t \in Clients /\ Retains(t)')

\* What a new channel at the end of the channels leaves alone.
LEMMA Created ==
    ASSUME CmuxInv, NEW t \in Threads, NEW s \in Sides, NEW d \in Dlcis, NEW q \in ChannelType, NEW queued \in BOOLEAN,
           Creates(t, s, d, q, queued)
    PROVE  LET c == Len(chan) + 1 IN
           /\ chan' \in Seq(ChannelType) /\ Channels' = Channels \cup {c} /\ c \in Nat \ {0} /\ c \notin Channels
           /\ chan'[c] = q /\ \A x \in Channels : chan'[x] = chan[x] /\ chan[x] \in ChannelType /\ x # 0
           /\ table' \in [Sides -> [Dlcis -> Nat]] /\ table'[s][d] = c /\ table[s][d] = 0
           /\ \A r \in Sides, e \in Dlcis : r # s \/ e # d => table'[r][e] = table[r][e]
           /\ queue' \in [Sides -> Seq(Nat)] /\ \A r \in Sides : Len(queue'[r]) <= MaxQueue
           /\ \A r \in Sides \ {s} : queue'[r] = queue[r]
           /\ ~queued => queue'[s] = queue[s]
           /\ queued => /\ DOMAIN queue'[s] = DOMAIN queue[s] \cup {Len(queue[s]) + 1}
                        /\ Len(queue[s]) + 1 \notin DOMAIN queue[s] /\ queue'[s][Len(queue[s]) + 1] = c
                        /\ \A i \in DOMAIN queue[s] : queue'[s][i] = queue[s][i]
           /\ closed' = closed /\ ready' = ready /\ alive' = alive /\ asleep' = asleep
<1> DEFINE c == Len(chan) + 1
<1>1. /\ Types /\ Bounded /\ chan \in Seq(ChannelType) /\ table \in [Sides -> [Dlcis -> Nat]]
      /\ queue \in [Sides -> Seq(Nat)] /\ Len(chan) \in Nat /\ Channels = 1..Len(chan)
      /\ \A x \in Channels : chan[x] \in ChannelType
  BY ChannelsAre DEF CmuxInv, Types
<1>2. chan' = Append(chan, q) /\ table[s][d] = 0 /\ UNCHANGED <<closed, ready, alive, asleep>>
  BY DEF Creates
<1>3. /\ chan' \in Seq(ChannelType) /\ Len(chan') = c /\ chan'[c] = q /\ \A x \in DOMAIN chan : chan'[x] = chan[x]
  BY ONLY <1>1, <1>2, q \in ChannelType, Appended
<1>4. Channels' = Channels \cup {c} /\ c \in Nat \ {0} /\ c \notin Channels
  BY <1>1, <1>3 DEF Channels
<1>5. table' = [table EXCEPT ![s] = [table[s] EXCEPT ![d] = c]]
  BY <1>1 DEF Creates
<1> HIDE DEF c
<1>6. /\ table' \in [Sides -> [Dlcis -> Nat]] /\ table'[s][d] = c
      /\ \A r \in Sides, e \in Dlcis : r # s \/ e # d => table'[r][e] = table[r][e]
  BY <1>1, <1>4, <1>5
<1>7. CASE ~queued
  <2>1. queue' = queue
    BY <1>7 DEF Creates
  <2> QED BY <1>1, <1>2, <1>3, <1>4, <1>6, <1>7, <2>1 DEF Bounded, Channels, c
<1>8. CASE queued
  <2>1. queue' = [queue EXCEPT ![s] = Append(queue[s], c)] /\ Len(queue[s]) < MaxQueue /\ queue[s] \in Seq(Nat)
    BY <1>1, <1>8 DEF Creates, c
  <2>2. /\ Append(queue[s], c) \in Seq(Nat) /\ Len(Append(queue[s], c)) = Len(queue[s]) + 1 /\ Len(queue[s]) \in Nat
        /\ Append(queue[s], c)[Len(queue[s]) + 1] = c /\ \A i \in DOMAIN queue[s] : Append(queue[s], c)[i] = queue[s][i]
    BY ONLY <1>4, <2>1, Appended
  <2>3. queue' \in [Sides -> Seq(Nat)] /\ queue'[s] = Append(queue[s], c) /\ \A r \in Sides \ {s} : queue'[r] = queue[r]
    BY <1>1, <2>1, <2>2
  <2>4. Len(queue[s]) + 1 <= MaxQueue
    BY <2>1, <2>2, CmuxAssumption
  <2>5. \A r \in Sides : Len(queue'[r]) <= MaxQueue
    BY <1>1, <2>2, <2>3, <2>4 DEF Bounded
  <2>6. /\ DOMAIN queue'[s] = DOMAIN queue[s] \cup {Len(queue[s]) + 1}
        /\ Len(queue[s]) + 1 \notin DOMAIN queue[s]
    <3>1. DOMAIN queue[s] = 1..Len(queue[s]) /\ DOMAIN Append(queue[s], c) = 1..(Len(queue[s]) + 1)
      BY <2>1, <2>2
    <3> QED BY <2>2, <2>3, <3>1
  <2> QED BY <1>1, <1>2, <1>3, <1>4, <1>6, <1>8, <2>2, <2>3, <2>5, <2>6 DEF Channels, c
<1> QED BY <1>7, <1>8

\* A step that creates a channel keeps the invariant.
LEMMA CreateKeeps ==
    ASSUME CmuxInv, NEW t \in Threads, NEW s \in Sides, NEW d \in Dlcis, NEW q \in ChannelType, NEW queued \in BOOLEAN,
           Creates(t, s, d, q, queued)
    PROVE  CmuxInv'
<1>0. PICK c : c = Len(chan) + 1
  OBVIOUS
<1>1. /\ chan' \in Seq(ChannelType) /\ Channels' = Channels \cup {c} /\ c \in Nat \ {0} /\ c \notin Channels
      /\ chan'[c] = q /\ \A x \in Channels : chan'[x] = chan[x] /\ chan[x] \in ChannelType /\ x # 0
  BY <1>0, Created
<1>2. /\ table' \in [Sides -> [Dlcis -> Nat]] /\ table'[s][d] = c /\ table[s][d] = 0
      /\ \A r \in Sides, e \in Dlcis : r # s \/ e # d => table'[r][e] = table[r][e]
  BY <1>0, Created
<1>3. /\ queue' \in [Sides -> Seq(Nat)] /\ \A r \in Sides : Len(queue'[r]) <= MaxQueue
      /\ \A r \in Sides \ {s} : queue'[r] = queue[r]
      /\ ~queued => queue'[s] = queue[s]
      /\ queued => /\ DOMAIN queue'[s] = DOMAIN queue[s] \cup {Len(queue[s]) + 1}
                   /\ Len(queue[s]) + 1 \notin DOMAIN queue[s] /\ queue'[s][Len(queue[s]) + 1] = c
                   /\ \A i \in DOMAIN queue[s] : queue'[s][i] = queue[s][i]
  BY <1>0, Created
<1>4. closed' = closed /\ ready' = ready /\ alive' = alive /\ asleep' = asleep
  BY <1>0, Created
<1>5. /\ q.side = s /\ q.dlci = d /\ q.registered /\ q.rx = <<>> /\ q.conn = "none" /\ Moves(t) /\ Carried
      /\ ~closed[s] /\ s = Home(t) /\ t \notin asleep
      /\ t \in Clients /\ work'[t].at \in Making => work'[t].ch = c
      /\ \A u \in Threads \ {t} : work'[u] = work[u]
  BY <1>0 DEF Creates, Moves
<1>6. Types /\ Bounded /\ Placed /\ Listed /\ Queued /\ LiveListed /\ MadeOnce /\ Counted /\ AsleepRight
  BY DEF CmuxInv
<1>t. Types'
  BY <1>1, <1>2, <1>3, <1>4, <1>5, <1>6 DEF Types, Carried, Moves
<1>b. Bounded'
  <2>1. \A u \in Sides : work'[u].at = "rx" =>
          work'[u].frame \in Frames /\ work'[u].frame.type = "uih" /\ work'[u].frame.tag[1] \in Channels'
    BY <1>1, <1>5, <1>6, SidesOf DEF Bounded, Moves
  <2>2. Len(q.rx) <= RxCap /\ DOMAIN q.rx = {}
    BY <1>5, CmuxAssumption
  <2>3. \A x \in Channels' : Len(chan'[x].rx) <= RxCap /\ \A i \in DOMAIN chan'[x].rx : chan'[x].rx[i][1] \in Channels'
    BY <1>1, <1>6, <2>2 DEF Bounded
  <2> QED BY <1>1, <1>3, <1>5, <2>1, <2>3 DEF Bounded, Carried
<1>p. Placed'
  <2>1. ASSUME NEW u \in Threads PROVE (work[u].ch \in Channels \cup {0})'
    BY <1>1, <1>5, <1>6, <2>1 DEF Placed, Moves
  <2>2. ASSUME NEW u \in Sides PROVE WorkerPlace(u)'
    <3>1. CASE u = t
      BY <1>5, <2>2, <3>1 DEF Moves
    <3>2. CASE u # t
      BY <1>1, <1>5, <1>6, <2>2, <3>2, SidesOf DEF Placed, WorkerPlace
    <3> QED BY <3>1, <3>2
  <2>3. ASSUME NEW u \in Clients PROVE ClientPlace(u)'
    <3>1. CASE u = t
      BY <1>5, <2>3, <3>1 DEF Moves
    <3>2. CASE u # t
      <4>1. ClientPlace(u) /\ work'[u] = work[u]
        BY <1>5, <1>6, <2>3, <3>2, SidesOf DEF Placed
      <4> QED BY <1>1, <1>4, <4>1 DEF ClientPlace
    <3> QED BY <3>1, <3>2
  <2> QED BY <2>1, <2>2, <2>3 DEF Placed
<1>l. Listed'
  <2>1. ASSUME NEW r \in Sides, NEW e \in Dlcis, table'[r][e] # 0
        PROVE  /\ table'[r][e] \in Channels' /\ chan'[table'[r][e]].side = r /\ chan'[table'[r][e]].dlci = e
               /\ chan'[table'[r][e]].registered
    <3>1. CASE r = s /\ e = d
      BY <1>1, <1>2, <1>5, <3>1
    <3>2. CASE r # s \/ e # d
      <4>1. table'[r][e] = table[r][e]
        BY <1>2, <3>2
      <4> QED BY <1>1, <1>6, <2>1, <4>1 DEF Listed
    <3> QED BY <3>1, <3>2
  <2>2. ASSUME NEW x \in Channels', chan'[x].registered, alive'[chan'[x].side]
        PROVE  table'[chan'[x].side][chan'[x].dlci] = x
    <3>1. CASE x = c
      BY <1>1, <1>2, <1>5, <3>1
    <3>2. CASE x # c
      <4>1. /\ x \in Channels /\ chan'[x] = chan[x] /\ chan[x].side \in Sides /\ chan[x].dlci \in Dlcis /\ x # 0
        BY <1>1, <2>2, <3>2 DEF ChannelType
      <4>2. table[chan[x].side][chan[x].dlci] = x
        BY <1>4, <1>6, <2>2, <4>1 DEF Listed
      <4>3. chan[x].side # s \/ chan[x].dlci # d
        BY <1>2, <4>1, <4>2
      <4> QED BY <1>2, <4>1, <4>2, <4>3
    <3> QED BY <3>1, <3>2
  <2> QED BY <2>1, <2>2 DEF Listed
<1>q. Queued'
  <2>1. ASSUME NEW r \in Sides
        PROVE  /\ \A i \in DOMAIN queue'[r] : queue'[r][i] \in Channels' /\ chan'[queue'[r][i]].side = r
               /\ \A i, j \in DOMAIN queue'[r] : queue'[r][i] = queue'[r][j] => i = j
    <3>1. CASE r # s \/ ~queued
      <4>1. queue'[r] = queue[r]
        BY <1>3, <3>1
      <4> QED BY <1>1, <1>6, <4>1 DEF Queued
    <3>2. CASE r = s /\ queued
      <4>1. \A i \in DOMAIN queue[s] : queue[s][i] \in Channels /\ queue[s][i] # c
        BY <1>1, <1>6 DEF Queued
      <4>2. ASSUME NEW i \in DOMAIN queue'[s], NEW j \in DOMAIN queue'[s], queue'[s][i] = queue'[s][j] PROVE i = j
        BY <1>3, <1>6, <3>2, <4>1, <4>2 DEF Queued
      <4>3. ASSUME NEW i \in DOMAIN queue'[s] PROVE queue'[s][i] \in Channels' /\ chan'[queue'[s][i]].side = s
        <5>1. CASE i \in DOMAIN queue[s]
          <6>1. queue'[s][i] = queue[s][i] /\ queue[s][i] \in Channels
            BY <1>3, <3>2, <4>1, <5>1
          <6>2. chan[queue[s][i]].side = s
            BY <1>6, <5>1 DEF Queued
          <6> QED BY <1>1, <6>1, <6>2
        <5>2. CASE i = Len(queue[s]) + 1
          BY <1>1, <1>3, <1>5, <3>2, <5>2
        <5> QED BY <1>3, <3>2, <4>3, <5>1, <5>2
      <4> QED BY <3>2, <4>2, <4>3
    <3> QED BY <3>1, <3>2
  <2> QED BY <2>1 DEF Queued
<1>i. LiveListed'
  <2>1. ASSUME NEW x \in Channels', chan'[x].phase \notin Ended
        PROVE  ~closed'[chan'[x].side] /\ table'[chan'[x].side][chan'[x].dlci] = x
    <3>1. CASE x = c
      BY <1>1, <1>2, <1>4, <1>5, <3>1
    <3>2. CASE x # c
      <4>1. /\ x \in Channels /\ chan'[x] = chan[x] /\ chan[x].side \in Sides /\ chan[x].dlci \in Dlcis /\ x # 0
        BY <1>1, <2>1, <3>2 DEF ChannelType
      <4>2. ~closed[chan[x].side] /\ table[chan[x].side][chan[x].dlci] = x
        BY <1>6, <2>1, <4>1 DEF LiveListed
      <4>3. chan[x].side # s \/ chan[x].dlci # d
        BY <1>2, <4>1, <4>2
      <4> QED BY <1>2, <1>4, <4>1, <4>2, <4>3
    <3> QED BY <3>1, <3>2
  <2> QED BY <2>1 DEF LiveListed
<1>k. /\ \A x \in Channels : InQueue(x)' <=> InQueue(x)
      /\ InQueue(c)' <=> queued
  <2>1. ASSUME NEW x, x # c \/ ~queued, InQueue(x)' PROVE InQueue(x)
    <3>1. PICK r \in Sides : \E i \in DOMAIN queue'[r] : queue'[r][i] = x
      BY <2>1 DEF InQueue
    <3>2. PICK i \in DOMAIN queue'[r] : queue'[r][i] = x
      BY <3>1
    <3>3. i \in DOMAIN queue[r] /\ queue[r][i] = x
      BY <1>3, <2>1, <3>2
    <3> QED BY <3>3 DEF InQueue
  <2>2. ASSUME NEW x, InQueue(x) PROVE InQueue(x)'
    <3>1. PICK r \in Sides : \E i \in DOMAIN queue[r] : queue[r][i] = x
      BY <2>2 DEF InQueue
    <3>2. PICK i \in DOMAIN queue[r] : queue[r][i] = x
      BY <3>1
    <3>3. i \in DOMAIN queue'[r] /\ queue'[r][i] = x
      BY <1>3, <3>2
    <3> QED BY <3>3 DEF InQueue
  <2>3. ~InQueue(c)
    BY <1>1, <1>6 DEF InQueue, Queued
  <2>4. queued => InQueue(c)'
    <3>1. ASSUME queued PROVE \E i \in DOMAIN queue'[s] : queue'[s][i] = c
      BY <1>3, <3>1
    <3> QED BY <3>1 DEF InQueue
  <2>5. ASSUME NEW x \in Channels PROVE InQueue(x)' <=> InQueue(x)
    <3>1. x # c
      BY <1>1
    <3> QED BY <2>1, <2>2, <3>1
  <2>6. InQueue(c)' => queued
    BY <2>1, <2>3
  <2> QED BY <2>4, <2>5, <2>6
<1>m. MadeOnce'
  <2>1. \A u \in Clients : work[u].at \in Making => work[u].ch \in Channels
    BY <1>6 DEF Placed, ClientPlace, Making, Handling
  <2>2. \A u \in Clients : u # t => work'[u] = work[u]
    BY <1>5, SidesOf
  <2>3. ASSUME NEW u \in Clients, NEW v \in Clients, work'[u].at \in Making, work'[v].at \in Making,
               work'[u].ch = work'[v].ch
        PROVE  u = v
    <3>1. CASE u # t /\ v # t
      BY <1>6, <2>2, <2>3, <3>1 DEF MadeOnce
    <3>2. CASE u = t /\ v # t
      BY <1>1, <1>5, <2>1, <2>2, <2>3, <3>2
    <3>3. CASE u # t /\ v = t
      BY <1>1, <1>5, <2>1, <2>2, <2>3, <3>3
    <3> QED BY <3>1, <3>2, <3>3
  <2>4. ASSUME NEW u \in Clients, work'[u].at \in Making
        PROVE  ~InQueue(work[u].ch)' /\ chan'[work'[u].ch].conn = "none"
    <3>1. CASE u = t
      <4>1. ~queued /\ work'[u].ch = c
        BY <1>5, <2>4, <3>1, SidesOf DEF Creates
      <4> QED BY <1>1, <1>5, <1>k, <4>1
    <3>2. CASE u # t
      <4>1. work'[u] = work[u] /\ work[u].ch \in Channels /\ ~InQueue(work[u].ch) /\ chan[work[u].ch].conn = "none"
        BY <1>6, <2>1, <2>2, <2>4, <3>2 DEF MadeOnce
      <4> QED BY <1>1, <1>k, <4>1
    <3> QED BY <3>1, <3>2
  <2>5. ASSUME NEW x \in Channels', InQueue(x)' PROVE chan'[x].conn = "none"
    <3>1. CASE x = c
      BY <1>1, <1>5, <3>1
    <3>2. CASE x \in Channels
      BY <1>1, <1>6, <1>k, <2>5, <3>2 DEF MadeOnce
    <3> QED BY <1>1, <2>5, <3>1, <3>2
  <2> QED BY <2>3, <2>4, <2>5 DEF MadeOnce
<1>n. Counted'
  <2>0. \A u \in Clients : u # t => work'[u] = work[u] /\ work[u].ch \in Channels \cup {0}
    BY <1>5, <1>6, SidesOf DEF Placed
  <2>r. ~Retains(t) /\ (Retains(t)' => work'[t].ch = c)
    BY <1>0 DEF Creates
  <2>1. ASSUME NEW x \in Channels
        PROVE  chan'[x].refs = One(InTable(x))' + One(InQueue(x))' + One(HasConn(x))' + Cardinality(Callers(x)')
    <3>1. One(InQueue(x))' = One(InQueue(x)) /\ One(HasConn(x))' = One(HasConn(x))
      BY <1>1, <1>k DEF One, HasConn
    <3>2. One(InTable(x))' = One(InTable(x))
      <4>1. x # c /\ x # 0
        BY <1>1
      <4>2. InTable(x)' <=> InTable(x)
        BY <1>2, <4>1 DEF InTable
      <4> QED BY <4>2 DEF One
    <3>3. Callers(x)' = Callers(x)
      <4>1. ASSUME NEW u \in Clients
            PROVE  (work'[u].ch = x /\ Retains(u)') <=> (work[u].ch = x /\ Retains(u))
        <5>1. CASE u = t
          <6>1. x # c
            BY <1>1
          <6>2. ~Retains(u) /\ ~(work'[u].ch = x /\ Retains(u)')
            BY <2>r, <5>1, <6>1
          <6> QED BY <6>2
        <5>2. CASE u # t
          BY <2>0, <5>2 DEF Retains
        <5> QED BY <5>1, <5>2
      <4> QED BY <4>1 DEF Callers
    <3>4. Cardinality(Callers(x)') = Cardinality(Callers(x))
      BY <3>3, Zenon
    <3>5. chan[x].refs = One(InTable(x)) + One(InQueue(x)) + One(HasConn(x)) + Cardinality(Callers(x))
      BY <1>6 DEF Counted
    <3> QED BY <1>1, <3>1, <3>2, <3>4, <3>5
  <2>2. chan'[c].refs = One(InTable(c))' + One(InQueue(c))' + One(HasConn(c))' + Cardinality(Callers(c)')
    <3>1. q.refs = 1 + One(queued) + One(t \in Clients /\ Retains(t)')
      BY DEF Creates
    <3>2. One(InQueue(c))' = One(queued) /\ One(HasConn(c))' = 0
      BY <1>1, <1>5, <1>k DEF One, HasConn
    <3>3. One(InTable(c))' = 1
      BY <1>2 DEF One, InTable
    <3>4. Cardinality(Callers(c)') = One(t \in Clients /\ Retains(t)')
      <4>1. ASSUME NEW u \in Clients, u # t PROVE work'[u].ch # c
        BY <1>1, <2>0, <4>1
      <4>2. CASE t \in Clients /\ Retains(t)'
        <5>1. Callers(c)' = {t}
          BY <2>r, <4>1, <4>2 DEF Callers
        <5>2. Cardinality({t}) = 1
          BY FS_Singleton
        <5>3. Cardinality(Callers(c)') = 1
          BY <5>1, <5>2, Zenon
        <5> QED BY <4>2, <5>3 DEF One
      <4>3. CASE ~(t \in Clients /\ Retains(t)')
        <5>1. Callers(c)' = {}
          BY <4>1, <4>3 DEF Callers
        <5>2. Cardinality(Callers(c)') = 0
          BY <5>1, FS_EmptySet, Zenon
        <5> QED BY <4>3, <5>2 DEF One
      <4> QED BY <4>2, <4>3
    <3>5. One(queued) \in Int /\ One(t \in Clients /\ Retains(t)') \in Int
      BY DEF One
    <3> QED BY <1>1, <3>1, <3>2, <3>3, <3>4, <3>5
  <2>3. ASSUME NEW x \in Channels'
        PROVE  chan'[x].refs = One(InTable(x))' + One(InQueue(x))' + One(HasConn(x))' + Cardinality(Callers(x)')
    BY <1>1, <2>1, <2>2, <2>3
  <2> QED BY <2>3 DEF Counted, One
<1>a. AsleepRight'
  <2> SUFFICES ASSUME NEW u \in asleep'
               PROVE  MustWait(u)' \/ (work'[u].at = "accept" /\ ~closed'[Home(u)] /\ Offering(Home(u))')
    BY DEF AsleepRight, Home
  <2>1. u \in asleep /\ u \in Threads /\ u # t /\ work'[u] = work[u] /\ Home(u) \in Sides
    BY <1>4, <1>5, <1>6, SidesOf DEF Types
  <2>2. Offering(Home(u)) => Offering(Home(u))'
    <3>1. CASE Home(u) = t
      BY <2>1, <3>1 DEF Creates
    <3>2. CASE Home(u) # t
      <4>1. work'[Home(u)] = work[Home(u)]
        BY <1>5, <2>1, <3>2, SidesOf
      <4> QED BY <4>1 DEF Offering, Home
    <3> QED BY <3>1, <3>2
  <2>3. CASE work[u].at = "accept" /\ ~closed[Home(u)] /\ Offering(Home(u))
    BY <1>4, <2>1, <2>2, <2>3
  <2>4. CASE MustWait(u)
    <3>1. work[u].ch \in Channels => chan'[work[u].ch] = chan[work[u].ch]
      BY <1>1
    <3>2. CASE work[u].at = "accept"
      <4>1. queue[Home(u)] = <<>> /\ ~closed[Home(u)]
        BY <2>4, <3>2 DEF MustWait
      <4>2. CASE queue'[Home(u)] = queue[Home(u)]
        BY <1>4, <2>1, <3>2, <4>1, <4>2 DEF MustWait, Home
      <4>3. CASE queue'[Home(u)] # queue[Home(u)]
        <5>1. Home(u) = s /\ queued
          BY <1>3, <2>1, <4>3
        <5>2. Offering(s)'
          BY <5>1 DEF Creates
        <5> QED BY <1>4, <2>1, <3>2, <4>1, <5>1, <5>2
      <4> QED BY <4>2, <4>3
    <3>3. CASE work[u].at # "accept"
      <4>1. work[u].at \in {"await", "opened", "read", "rx"} => work[u].ch \in Channels
        <5>1. CASE u \in Clients
          <6>1. ClientPlace(u)
            BY <1>6, <5>1 DEF Placed
          <6>2. work[u].at # "rx"
            BY <6>1 DEF ClientPlace, Handling, Dialling, Ending
          <6> QED BY <6>1, <6>2 DEF ClientPlace, Handling
        <5>2. CASE u \in Sides
          BY <1>6, <5>2 DEF Placed, WorkerPlace
        <5> QED BY <2>1, <5>1, <5>2 DEF Threads
      <4> QED BY <1>4, <2>1, <2>4, <3>1, <3>3, <4>1 DEF MustWait, Holds, Home
    <3> QED BY <3>2, <3>3
  <2> QED BY <1>6, <2>1, <2>3, <2>4 DEF AsleepRight
<1> QED BY <1>t, <1>b, <1>p, <1>l, <1>q, <1>i, <1>m, <1>n, <1>a DEF CmuxInv

\* A new channel is a channel.
LEMMA NewChannelIs ==
    ASSUME NEW s \in Sides, NEW d \in Dlcis, NEW phase \in Phases, NEW n \in Nat, NEW from \in Nat
    PROVE  LET q == NewChannel(s, d, phase, n, from) IN
           /\ q \in ChannelType /\ q.side = s /\ q.dlci = d /\ q.phase = phase /\ q.refs = n /\ q.registered
           /\ q.rx = <<>> /\ q.conn = "none"
<1>1. <<>> \in Seq(Nat \X Nat)
  OBVIOUS
<1> QED BY <1>1 DEF NewChannel, ChannelType

\* A dial creates its channel.
LEMMA ClientDialCreate == ASSUME CmuxInv, NEW t \in Clients, DialCreate(t) PROVE CmuxInv'
<1>0. PICK c : c = Len(chan) + 1
  OBVIOUS
<1>1. PICK s, d, q : s = Home(t) /\ d = work[t].dlci /\ q = NewChannel(s, d, "opening", 2, 0)
  OBVIOUS
<1>2. /\ work[t].at = "look" /\ t \notin asleep /\ ~closed[s] /\ table[s][d] = 0
      /\ chan' = Append(chan, q) /\ table' = [table EXCEPT ![s][d] = c]
      /\ work' = [work EXCEPT ![t].at = "sabm", ![t].ch = c]
      /\ UNCHANGED <<closed, ready, alive, asleep>> /\ queue' = queue /\ UNCHANGED <<bearerVars, countVars>>
      /\ Types /\ Bounded
  BY <1>0, <1>1 DEF DialCreate, At, CmuxInv
<1>3. /\ t \in Threads /\ t \notin Sides /\ s \in Sides /\ s = HomeOf[t] /\ d \in Dlcis
      /\ work \in [Threads -> PlaceType] /\ ~Retains(t)
  <2>1. work[t].at \in Dialling /\ ~Retains(t)
    BY <1>2 DEF Dialling, Retains, Retaining
  <2> QED BY <1>1, <2>1, Hands
<1>4. /\ q \in ChannelType /\ q.side = s /\ q.dlci = d /\ q.refs = 2 /\ q.registered /\ q.rx = <<>> /\ q.conn = "none"
  <2>1. "opening" \in Phases /\ 2 \in Nat /\ 0 \in Nat
    BY DEF Phases
  <2>2. s \in Sides /\ d \in Dlcis /\ q = NewChannel(s, d, "opening", 2, 0)
    BY <1>1, <1>3
  <2> QED BY ONLY <2>1, <2>2, NewChannelIs
<1>5. /\ chan \in Seq(ChannelType) /\ Len(chan) \in Nat /\ c \in Nat
  BY <1>0, <1>2, ChannelsAre DEF Types
<1>6. c \in Channels' /\ chan'[c] = q
  <2>1. Append(chan, q)[Len(chan) + 1] = q /\ Len(chan') = Len(chan) + 1 /\ chan' \in Seq(ChannelType)
    BY ONLY <1>2, <1>4, <1>5, Appended
  <2> QED BY <1>0, <1>2, <1>5, <2>1 DEF Channels
<1> DEFINE p == [work[t] EXCEPT !.at = "sabm", !.ch = c]
<1>7. p \in PlaceType /\ p.at = "sabm" /\ p.ch = c /\ p.dlci = d
  <2>1. PICK l, w, r : l = "sabm" /\ w = work[t] /\ r = p
    OBVIOUS
  <2>2. l \in Labels /\ w \in PlaceType /\ r = [w EXCEPT !.at = l, !.ch = c] /\ c \in Nat /\ w.dlci = d
    BY <1>1, <1>3, <1>5, <2>1 DEF Labels
  <2>3. r \in PlaceType /\ r.at = l /\ r.ch = c /\ r.dlci = w.dlci
    BY ONLY <2>2 DEF PlaceType
  <2> QED BY <2>1, <2>2, <2>3
<1>8. work' = [work EXCEPT ![t] = p]
  BY <1>2, <1>3
<1> HIDE DEF p
<1>9. /\ work' \in [Threads -> PlaceType] /\ \A u \in Threads \ {t} : work'[u] = work[u]
      /\ work'[t].at = "sabm" /\ work'[t].ch = c /\ work'[t].dlci = d
  BY <1>3, <1>7, <1>8
<1>10. ClientPlace(t)'
  BY <1>3, <1>4, <1>6, <1>9 DEF ClientPlace, Handling, Dialling, Ending
<1>11. Moves(t)
  BY <1>3, <1>6, <1>9, <1>10 DEF Moves
<1>12. Retains(t)'
  BY <1>9 DEF Retains, Retaining
<1>14. Carried
  BY <1>2, CarriedSame
<1>15. q.refs = 1 + One(FALSE) + One(t \in Clients /\ Retains(t)')
  <2>1. q.refs = 2 /\ (t \in Clients /\ Retains(t)')
    BY <1>4, <1>12
  <2> QED BY <2>1 DEF One
<1>16. table' = [table EXCEPT ![s][d] = Len(chan) + 1] /\ work'[t].ch = Len(chan) + 1
  BY <1>0, <1>2, <1>9
<1>17. Creates(t, s, d, q, FALSE)
  BY <1>1, <1>2, <1>3, <1>4, <1>11, <1>14, <1>15, <1>16 DEF Creates
<1> QED BY <1>3, <1>4, <1>17, CreateKeeps

\* The SABM of the peer creates a channel, or is turned down.
LEMMA WorkerOpenRequest == ASSUME CmuxInv, NEW s \in Sides, HandleOpenRequest(s) PROVE CmuxInv'
<1>0. PICK c, d : c = Len(chan) + 1 /\ d = Incoming(s).dlci
  OBVIOUS
<1>1. Receive(s, "sabm", FALSE) /\ ready \in [Sides -> BOOLEAN] /\ Types /\ Bounded
  BY DEF HandleOpenRequest, CmuxInv, Types
<1>2. CASE closed[s]
  <2>1. UNCHANGED <<closed, table, queue, chan>> /\ ready' = ready /\ asleep' = asleep /\ work' = work
    BY <1>2 DEF HandleOpenRequest, Ignore, sessionVars
  <2> QED BY <1>1, <2>1, WorkerAnswers
<1>3. CASE ~closed[s] /\ table[s][d] # 0
  <2>1. UNCHANGED <<closed, table, queue, chan>> /\ ready' = ready /\ asleep' = asleep
        /\ Handle(s, "reply", 0, Answer(s, "dm"), "listen")
    BY <1>0, <1>3 DEF HandleOpenRequest, sessionVars
  <2>2. "dm" \in Types4
    BY DEF Types4
  <2> QED BY <1>1, <2>1, <2>2, WorkerAnswers
<1>4. CASE ~closed[s] /\ table[s][d] = 0
  <2>1. PICK q : q = NewChannel(s, d, IF Room(s) THEN "open" ELSE "closed", IF Room(s) THEN 2 ELSE 1, Incoming(s).tag)
    OBVIOUS
  <2>2. /\ chan' = Append(chan, q) /\ table' = [table EXCEPT ![s][d] = c] /\ UNCHANGED <<closed, ready, asleep>>
        /\ queue' = IF Room(s) THEN [queue EXCEPT ![s] = Append(@, c)] ELSE queue
        /\ IF Room(s) THEN Handle(s, "reply", 0, Answer(s, "ua"), "offer")
                      ELSE Handle(s, "unregister", c, Answer(s, "dm"), "listen")
    BY <1>0, <1>4, <2>1 DEF HandleOpenRequest
  <2>3. /\ Carried /\ alive' = alive /\ work[s].at = "listen" /\ s \notin asleep /\ d \in Dlcis
        /\ s \in Threads /\ s \notin Clients /\ Home(s) = s
        /\ Answer(s, "ua") \in Answers \cap Frames /\ Answer(s, "dm") \in Answers \cap Frames
    <3>1. "ua" \in Types4 /\ "dm" \in Types4
      BY DEF Types4
    <3> QED BY <1>0, <1>1, <3>1, CarriedRead, LookedIs, AnswerIs, SidesOf
  <2>4. Incoming(s).tag \in Nat
    <3>1. Incoming(s) \in Frames /\ Incoming(s).type = "sabm"
      BY <1>1, CarriedRead
    <3> QED BY <3>1 DEF Frames, Answers, Types4
  <2>5. /\ q \in ChannelType /\ q.side = s /\ q.dlci = d /\ q.registered /\ q.rx = <<>> /\ q.conn = "none"
        /\ q.phase = (IF Room(s) THEN "open" ELSE "closed") /\ q.refs = IF Room(s) THEN 2 ELSE 1
    <3>0. PICK ph, n, from : /\ ph = IF Room(s) THEN "open" ELSE "closed"
                             /\ n = IF Room(s) THEN 2 ELSE 1
                             /\ from = Incoming(s).tag
      OBVIOUS
    <3>1. ph \in Phases /\ n \in Nat /\ from \in Nat /\ s \in Sides /\ d \in Dlcis
      BY <2>3, <2>4, <3>0 DEF Phases
    <3>2. q = NewChannel(s, d, ph, n, from)
      BY <2>1, <3>0
    <3>3. <<>> \in Seq(Nat \X Nat)
      OBVIOUS
    <3>4. /\ q \in ChannelType /\ q.side = s /\ q.dlci = d /\ q.phase = ph /\ q.refs = n /\ q.registered
          /\ q.rx = <<>> /\ q.conn = "none"
      BY ONLY <3>1, <3>2, <3>3 DEF NewChannel, ChannelType
    <3> QED BY <3>0, <3>4
  <2>6. chan \in Seq(ChannelType) /\ Len(chan) \in Nat /\ c \in Nat
    BY <1>0, <1>1, ChannelsAre DEF Types
  <2>7. c \in Channels' /\ chan'[c] = q /\ chan' \in Seq(ChannelType)
    <3>1. Append(chan, q)[Len(chan) + 1] = q /\ Len(chan') = Len(chan) + 1 /\ chan' \in Seq(ChannelType)
      BY ONLY <2>2, <2>5, <2>6, Appended
    <3> QED BY <1>0, <2>2, <2>6, <3>1 DEF Channels
  <2>8. ~Offering(s) /\ ~Retains(s)
    BY <2>3 DEF Offering, Retains, Retaining
  <2>9. ASSUME NEW at \in {"reply", "unregister"}, work'[s].at = at PROVE ~Retains(s)'
    BY <2>9 DEF Retains, Retaining
  <2>11. CASE Room(s)
    <3>1. Moves(s) /\ work'[s].at = "reply" /\ work'[s].then = "offer"
      BY <1>1, <2>2, <2>3, <2>7, <2>11, WorkerHandles
    <3>2. Offering(s)' /\ ~Retains(s)' /\ work'[s].at \notin Making
      BY <2>9, <3>1 DEF Offering, Making
    <3>4. Len(queue[s]) < MaxQueue
      BY <2>11 DEF Room
    <3>6. q.refs = 1 + One(TRUE) + One(s \in Clients /\ Retains(s)')
      <4>1. q.refs = 2 /\ ~(s \in Clients /\ Retains(s)')
        BY <2>3, <2>5, <2>11
      <4> QED BY <4>1 DEF One
    <3>7. /\ table' = [table EXCEPT ![s][d] = Len(chan) + 1]
          /\ queue' = [queue EXCEPT ![s] = Append(@, Len(chan) + 1)]
      BY <1>0, <2>2, <2>11
    <3>5. Creates(s, s, d, q, TRUE)
      BY <1>4, <2>2, <2>3, <2>5, <2>8, <3>1, <3>2, <3>4, <3>6, <3>7 DEF Creates
    <3> QED BY <2>3, <2>5, <3>5, CreateKeeps
  <2>12. CASE ~Room(s)
    <3>0. /\ Handle(s, "unregister", c, Answer(s, "dm"), "listen") /\ c \in Channels' \cup {0}
          /\ Answer(s, "dm") \in Answers \cup {None} /\ Answer(s, "dm") \in Frames \cup {None}
          /\ chan'[c].phase \in Ended /\ chan'[c].side = s
      BY <2>2, <2>3, <2>5, <2>7, <2>12 DEF Ended
    <3>1. Moves(s) /\ work'[s].at = "unregister"
      BY <1>1, <2>7, <3>0, WorkerHandles
    <3>2. ~Retains(s)'
      BY <2>9, <3>1
    <3>6. q.refs = 1 + One(FALSE) + One(s \in Clients /\ Retains(s)')
      <4>1. q.refs = 1 /\ ~(s \in Clients /\ Retains(s)')
        BY <2>3, <2>5, <2>12
      <4> QED BY <4>1 DEF One
    <3>7. table' = [table EXCEPT ![s][d] = Len(chan) + 1] /\ queue' = queue
      BY <1>0, <2>2, <2>12
    <3>5. Creates(s, s, d, q, FALSE)
      BY <1>4, <2>2, <2>3, <2>5, <2>8, <3>1, <3>2, <3>6, <3>7 DEF Creates
    <3> QED BY <2>3, <2>5, <3>5, CreateKeeps
  <2> QED BY <2>11, <2>12
<1> QED BY <1>2, <1>3, <1>4
----------------------------------------------------------------------------
(* Channels out of the table and out of the accept queue.                   *)

\* The thread t takes channels that have ended out of the table, or takes channels out of a queue.
Drops(t) ==
    /\ UNCHANGED <<closed, ready, alive>> /\ Carried /\ Moves(t)
    /\ chan' \in Seq(ChannelType) /\ Len(chan') = Len(chan)
    /\ \A c \in Channels :
         /\ chan'[c].side = chan[c].side /\ chan'[c].dlci = chan[c].dlci /\ chan'[c].phase = chan[c].phase
         /\ chan'[c].conn = chan[c].conn /\ chan'[c].rx = chan[c].rx
         /\ chan'[c].registered => chan[c].registered
    /\ table' \in [Sides -> [Dlcis -> Nat]]
    /\ \A s \in Sides, d \in Dlcis :
         /\ table'[s][d] \in {0, table[s][d]}
         /\ table'[s][d] # 0 => chan'[table[s][d]].registered
         /\ table[s][d] # 0 /\ table'[s][d] = 0 =>
              /\ chan[table[s][d]].phase \in Ended
              /\ ~alive[s] \/ ~chan'[table[s][d]].registered
    /\ queue' \in [Sides -> Seq(Nat)]
    /\ \A s \in Sides :
         /\ Len(queue'[s]) <= Len(queue[s])
         /\ \A i \in DOMAIN queue'[s] : \E j \in DOMAIN queue[s] : queue'[s][i] = queue[s][j]
         /\ \A i, j \in DOMAIN queue'[s] : queue'[s][i] = queue'[s][j] => i = j
    /\ \A c \in Channels :
         chan'[c].refs - One(InTable(c))' - One(InQueue(c))' - One(Calls(t, c))'
           = chan[c].refs - One(InTable(c)) - One(InQueue(c)) - One(Calls(t, c))
    /\ t \in Clients /\ work'[t].at \in Making =>
         \E c \in Channels : work'[t].ch = c /\ InQueue(c) /\ ~InQueue(c)'
    /\ asleep' \subseteq asleep /\ t \notin asleep'
    /\ \A u \in asleep' : work[u].ch \in Channels => chan'[work[u].ch].registered = chan[work[u].ch].registered
    /\ t \in Sides => ~Offering(t)

\* A channel that is in no queue is in none when the queues only lose.
LEMMA StaysOut ==
    ASSUME CmuxInv, NEW t \in Threads, Drops(t), NEW c, InQueue(c)'
    PROVE  InQueue(c)
<1>1. PICK s \in Sides : \E i \in DOMAIN queue'[s] : queue'[s][i] = c
  BY DEF InQueue
<1>2. PICK i \in DOMAIN queue'[s] : queue'[s][i] = c
  BY <1>1
<1>3. \E j \in DOMAIN queue[s] : queue'[s][i] = queue[s][j]
  BY DEF Drops
<1> QED BY <1>2, <1>3 DEF InQueue

\* A step that drops channels from table or queue keeps the invariant.
LEMMA DropKeeps ==
    ASSUME CmuxInv, NEW t \in Threads, Drops(t)
    PROVE  CmuxInv'
<1>1. /\ Types /\ Bounded /\ Placed /\ Listed /\ Queued /\ LiveListed /\ MadeOnce /\ Counted /\ AsleepRight
  BY DEF CmuxInv
<1>2. /\ closed' = closed /\ ready' = ready /\ alive' = alive /\ Carried /\ Moves(t)
      /\ chan' \in Seq(ChannelType) /\ Channels' = Channels
      /\ \A c \in Channels : chan'[c] \in ChannelType /\ chan[c] \in ChannelType /\ c # 0
      /\ \A u \in Threads \ {t} : work'[u] = work[u]
      /\ asleep' \subseteq asleep /\ t \notin asleep'
  BY <1>1, ChannelsAre DEF Drops, Types, Channels, Moves
<1>3. \A c \in Channels :
         /\ chan'[c].side = chan[c].side /\ chan'[c].dlci = chan[c].dlci /\ chan'[c].phase = chan[c].phase
         /\ chan'[c].conn = chan[c].conn /\ chan'[c].rx = chan[c].rx
         /\ chan'[c].registered => chan[c].registered
         /\ chan[c].side \in Sides /\ chan[c].dlci \in Dlcis
  BY <1>2 DEF Drops, ChannelType
<1>4. /\ table' \in [Sides -> [Dlcis -> Nat]]
      /\ \A s \in Sides, d \in Dlcis :
         /\ table'[s][d] \in {0, table[s][d]}
         /\ table'[s][d] # 0 => chan'[table[s][d]].registered
         /\ table[s][d] # 0 /\ table'[s][d] = 0 =>
              /\ chan[table[s][d]].phase \in Ended
              /\ ~alive[s] \/ ~chan'[table[s][d]].registered
  BY DEF Drops
<1>5. /\ queue' \in [Sides -> Seq(Nat)]
      /\ \A s \in Sides :
         /\ Len(queue'[s]) <= Len(queue[s])
         /\ \A i \in DOMAIN queue'[s] : \E j \in DOMAIN queue[s] : queue'[s][i] = queue[s][j]
         /\ \A i, j \in DOMAIN queue'[s] : queue'[s][i] = queue'[s][j] => i = j
  BY DEF Drops
<1>t. Types'
  BY <1>1, <1>2, <1>4, <1>5 DEF Types, Carried, Moves
<1>b. Bounded'
  <2>1. \A u \in Sides : work'[u].at = "rx" =>
          work'[u].frame \in Frames /\ work'[u].frame.type = "uih" /\ work'[u].frame.tag[1] \in Channels'
    BY <1>1, <1>2, SidesOf DEF Bounded, Moves
  <2>2. \A s \in Sides : Len(queue'[s]) <= MaxQueue
    BY <1>1, <1>5, CmuxAssumption DEF Bounded, Types
  <2> QED BY <1>1, <1>2, <1>3, <2>1, <2>2 DEF Bounded, Carried
<1>p. Placed'
  <2>1. ASSUME NEW u \in Threads PROVE (work[u].ch \in Channels \cup {0})'
    BY <1>1, <1>2, <2>1 DEF Placed, Moves
  <2>2. ASSUME NEW u \in Sides PROVE WorkerPlace(u)'
    <3>1. CASE u = t
      BY <1>2, <2>2, <3>1 DEF Moves
    <3>2. CASE u # t
      BY <1>1, <1>2, <1>3, <2>2, <3>2, SidesOf DEF Placed, WorkerPlace
    <3> QED BY <3>1, <3>2
  <2>3. ASSUME NEW u \in Clients PROVE ClientPlace(u)'
    <3>1. CASE u = t
      BY <1>2, <2>3, <3>1 DEF Moves
    <3>2. CASE u # t
      <4>1. ClientPlace(u) /\ work'[u] = work[u]
        BY <1>1, <1>2, <2>3, <3>2, SidesOf DEF Placed
      <4> QED BY <1>2, <1>3, <4>1 DEF ClientPlace
    <3> QED BY <3>1, <3>2
  <2> QED BY <2>1, <2>2, <2>3 DEF Placed
<1>l. Listed'
  <2>1. ASSUME NEW r \in Sides, NEW e \in Dlcis, table'[r][e] # 0
        PROVE  /\ table'[r][e] \in Channels' /\ chan'[table'[r][e]].side = r /\ chan'[table'[r][e]].dlci = e
               /\ chan'[table'[r][e]].registered
    <3>1. table'[r][e] = table[r][e] /\ chan'[table[r][e]].registered
      BY <1>4, <2>1
    <3>2. table[r][e] \in Channels /\ chan[table[r][e]].side = r /\ chan[table[r][e]].dlci = e
      BY <1>1, <2>1, <3>1 DEF Listed
    <3> QED BY <1>2, <1>3, <3>1, <3>2
  <2>2. ASSUME NEW x \in Channels', chan'[x].registered, alive'[chan'[x].side]
        PROVE  table'[chan'[x].side][chan'[x].dlci] = x
    <3>1. /\ x \in Channels /\ x # 0 /\ chan'[x].side = chan[x].side /\ chan'[x].dlci = chan[x].dlci
          /\ chan[x].registered /\ alive[chan[x].side] /\ chan[x].side \in Sides /\ chan[x].dlci \in Dlcis
      BY <1>2, <1>3, <2>2
    <3>2. table[chan[x].side][chan[x].dlci] = x
      BY <1>1, <3>1 DEF Listed
    <3> QED BY <1>4, <2>2, <3>1, <3>2
  <2> QED BY <2>1, <2>2 DEF Listed
<1>q. Queued'
  <2>1. ASSUME NEW s \in Sides, NEW i \in DOMAIN queue'[s]
        PROVE  queue'[s][i] \in Channels' /\ chan'[queue'[s][i]].side = s
    <3>1. PICK j \in DOMAIN queue[s] : queue'[s][i] = queue[s][j]
      BY <1>5
    <3>2. queue[s][j] \in Channels /\ chan[queue[s][j]].side = s
      BY <1>1 DEF Queued
    <3> QED BY <1>2, <1>3, <3>1, <3>2
  <2>2. \A s \in Sides : \A i, j \in DOMAIN queue'[s] : queue'[s][i] = queue'[s][j] => i = j
    BY <1>5
  <2> QED BY <2>1, <2>2 DEF Queued
<1>i. LiveListed'
  <2>1. ASSUME NEW x \in Channels', chan'[x].phase \notin Ended
        PROVE  ~closed'[chan'[x].side] /\ table'[chan'[x].side][chan'[x].dlci] = x
    <3>1. /\ x \in Channels /\ x # 0 /\ chan'[x].side = chan[x].side /\ chan'[x].dlci = chan[x].dlci
          /\ chan[x].phase \notin Ended /\ chan[x].side \in Sides /\ chan[x].dlci \in Dlcis
      BY <1>2, <1>3, <2>1
    <3>2. ~closed[chan[x].side] /\ table[chan[x].side][chan[x].dlci] = x
      BY <1>1, <3>1 DEF LiveListed
    <3> QED BY <1>2, <1>4, <3>1, <3>2
  <2> QED BY <2>1 DEF LiveListed
<1>m. MadeOnce'
  <2>1. \A u \in Clients : u # t => work'[u] = work[u]
    BY <1>2, SidesOf
  <2>2. t \in Clients /\ work'[t].at \in Making =>
          \E c \in Channels : work'[t].ch = c /\ InQueue(c) /\ ~InQueue(c)'
    BY DEF Drops
  <2>3. ASSUME NEW u \in Clients, u # t, work'[u].at \in Making
        PROVE  work[u].at \in Making /\ ~InQueue(work[u].ch) /\ work'[u].ch = work[u].ch
    BY <1>1, <2>1, <2>3 DEF MadeOnce
  <2>4. ASSUME NEW u \in Clients, NEW v \in Clients, work'[u].at \in Making, work'[v].at \in Making,
               work'[u].ch = work'[v].ch
        PROVE  u = v
    <3>1. CASE u # t /\ v # t
      BY <1>1, <2>1, <2>4, <3>1 DEF MadeOnce
    <3>2. CASE u = t /\ v # t
      BY <2>2, <2>3, <2>4, <3>2
    <3>3. CASE u # t /\ v = t
      BY <2>2, <2>3, <2>4, <3>3
    <3> QED BY <3>1, <3>2, <3>3
  <2>5. \A u \in Clients : work[u].at \in Making => work[u].ch \in Channels
    BY <1>1 DEF Placed, ClientPlace, Making, Handling
  <2>6. \A c : InQueue(c) => c \in Channels /\ chan[c].conn = "none"
    BY <1>1 DEF InQueue, Queued, MadeOnce
  <2>7. ASSUME NEW u \in Clients, work'[u].at \in Making
        PROVE  ~InQueue(work[u].ch)' /\ chan'[work'[u].ch].conn = "none"
    <3>1. CASE u = t
      <4>1. PICK c \in Channels : work'[t].ch = c /\ InQueue(c) /\ ~InQueue(c)'
        BY <2>2, <2>7, <3>1
      <4>2. chan'[c].conn = "none"
        BY <1>3, <2>6, <4>1
      <4> QED BY <3>1, <4>1, <4>2
    <3>2. CASE u # t
      <4>1. work[u].at \in Making /\ ~InQueue(work[u].ch) /\ work'[u].ch = work[u].ch /\ work[u].ch \in Channels
        BY <2>3, <2>5, <2>7, <3>2
      <4>2. ~InQueue(work[u].ch)' /\ chan[work[u].ch].conn = "none"
        BY <1>1, <2>1, <4>1, StaysOut DEF MadeOnce
      <4> QED BY <1>3, <4>1, <4>2
    <3> QED BY <3>1, <3>2
  <2>8. ASSUME NEW x \in Channels', InQueue(x)' PROVE chan'[x].conn = "none"
    BY <1>2, <1>3, <2>6, <2>8, StaysOut
  <2> QED BY <2>4, <2>7, <2>8 DEF MadeOnce
<1>n. Counted'
  <2> SUFFICES ASSUME NEW c \in Channels
               PROVE  chan'[c].refs = One(InTable(c))' + One(InQueue(c))' + One(HasConn(c))' + Cardinality(Callers(c)')
    BY <1>2 DEF Counted, One
  <2>1. chan'[c].refs - One(InTable(c))' - One(InQueue(c))' - One(Calls(t, c))'
           = chan[c].refs - One(InTable(c)) - One(InQueue(c)) - One(Calls(t, c))
    BY DEF Drops
  <2>2. Callers(c)' \ {t} = Callers(c) \ {t}
    BY <1>2, OthersCall
  <2>3. chan[c].refs \in Int /\ chan'[c].refs \in Int
    BY <1>2 DEF ChannelType
  <2>4. One(HasConn(c))' = One(HasConn(c))
    BY <1>3 DEF One, HasConn
  <2>5. chan[c].refs = One(InTable(c)) + One(InQueue(c)) + One(HasConn(c)) + Cardinality(Callers(c))
    BY <1>1 DEF Counted
  <2>6. /\ One(HasConn(c))' \in Int /\ One(Calls(t, c))' \in Int /\ One(HasConn(c)) \in Int /\ One(Calls(t, c)) \in Int
        /\ One(InTable(c)) \in Int /\ One(InTable(c))' \in Int /\ One(InQueue(c)) \in Int /\ One(InQueue(c))' \in Int
    BY DEF One
  <2>7. /\ Cardinality(Callers(c)) \in Int /\ Cardinality(Callers(c)') \in Int
        /\ Cardinality(Callers(c)') - One(Calls(t, c))' = Cardinality(Callers(c)) - One(Calls(t, c))
    <3>1. /\ Cardinality(Callers(c)) \in Nat /\ Cardinality(Callers(c) \ {t}) \in Nat
          /\ Cardinality(Callers(c)) = Cardinality(Callers(c) \ {t}) + One(Calls(t, c))
      BY CallersCount
    <3>2. /\ Cardinality(Callers(c)') \in Nat /\ Cardinality(Callers(c)' \ {t}) \in Nat
          /\ Cardinality(Callers(c)') = Cardinality(Callers(c)' \ {t}) + One(Calls(t, c))'
      BY CallersCountNext
    <3>3. Cardinality(Callers(c)' \ {t}) = Cardinality(Callers(c) \ {t})
      BY <2>2, Zenon
    <3> QED BY <3>1, <3>2, <3>3 DEF One
  <2> QED BY <2>1, <2>3, <2>4, <2>5, <2>7 DEF One
<1>a. AsleepRight'
  <2> SUFFICES ASSUME NEW u \in asleep'
               PROVE  MustWait(u)' \/ (work'[u].at = "accept" /\ ~closed'[Home(u)] /\ Offering(Home(u))')
    BY DEF AsleepRight, Home
  <2>1. u \in asleep /\ u \in Threads /\ u # t /\ work'[u] = work[u] /\ Home(u) \in Sides
    BY <1>1, <1>2, SidesOf DEF Types
  <2>2. Offering(Home(u)) => Offering(Home(u))'
    <3>1. CASE Home(u) = t
      BY <2>1, <3>1 DEF Drops
    <3>2. CASE Home(u) # t
      <4>1. work'[Home(u)] = work[Home(u)]
        BY <1>2, <2>1, <3>2, SidesOf
      <4> QED BY <4>1 DEF Offering, Home
    <3> QED BY <3>1, <3>2
  <2>3. CASE work[u].at = "accept" /\ ~closed[Home(u)] /\ Offering(Home(u))
    BY <1>2, <2>1, <2>2, <2>3
  <2>4. CASE MustWait(u)
    <3>1. work[u].ch \in Channels =>
             /\ chan'[work[u].ch].registered = chan[work[u].ch].registered
             /\ chan'[work[u].ch].phase = chan[work[u].ch].phase /\ chan'[work[u].ch].rx = chan[work[u].ch].rx
      BY <1>3 DEF Drops
    <3>2. queue[Home(u)] = <<>> => queue'[Home(u)] = <<>>
      <4>1. queue[Home(u)] = <<>> => Len(queue'[Home(u)]) <= 0
        BY <1>5, <2>1
      <4> QED BY <1>5, <2>1, <4>1
    <3>3. work[u].at \in {"await", "opened", "read", "rx"} => work[u].ch \in Channels
      <4>1. CASE u \in Clients
        <5>1. ClientPlace(u)
          BY <1>1, <4>1 DEF Placed
        <5>2. work[u].at # "rx"
          BY <5>1 DEF ClientPlace, Handling, Dialling, Ending
        <5> QED BY <5>1, <5>2 DEF ClientPlace, Handling
      <4>2. CASE u \in Sides
        BY <1>1, <4>2 DEF Placed, WorkerPlace
      <4> QED BY <2>1, <4>1, <4>2 DEF Threads
    <3> QED BY <1>2, <2>1, <2>4, <3>1, <3>2, <3>3 DEF MustWait, Holds, Home
  <2> QED BY <1>1, <2>1, <2>3, <2>4 DEF AsleepRight
<1> QED BY <1>t, <1>b, <1>p, <1>l, <1>q, <1>i, <1>m, <1>n, <1>a DEF CmuxInv

\* What is left of a queue without one of its places.
LEMMA Removed ==
    ASSUME NEW q \in Seq(Nat), NEW i \in DOMAIN q, \A a, b \in DOMAIN q : q[a] = q[b] => a = b
    PROVE  LET r == SwapRemove(q, i) IN
           /\ r \in Seq(Nat) /\ Len(r) <= Len(q)
           /\ \A a \in DOMAIN r : \E b \in DOMAIN q \ {i} : r[a] = q[b]
           /\ \A b \in DOMAIN q \ {i} : \E a \in DOMAIN r : r[a] = q[b]
           /\ \A a, b \in DOMAIN r : r[a] = r[b] => a = b
<1> DEFINE r == SwapRemove(q, i)
           n == Len(q)
           from(a) == IF a = i THEN n ELSE a
<1>1. n \in Nat \ {0} /\ DOMAIN q = 1..n /\ i \in 1..n /\ i \in Nat /\ n - 1 \in Nat
  OBVIOUS
<1>2. r = [a \in 1..(n - 1) |-> q[from(a)]]
  BY DEF SwapRemove
<1>3. \A a \in 1..(n - 1) : from(a) \in 1..n /\ from(a) # i /\ q[from(a)] \in Nat
  <2>1. \A a \in 1..n : q[a] \in Nat
    BY <1>1
  <2> QED BY <1>1, <2>1
<1>4. r \in Seq(Nat) /\ Len(r) = n - 1 /\ DOMAIN r = 1..(n - 1)
  <2>1. r \in [1..(n - 1) -> Nat]
    BY <1>2, <1>3
  <2> QED BY <1>1, <2>1, SeqOf
<1>5. ASSUME NEW a \in DOMAIN r PROVE \E b \in DOMAIN q \ {i} : r[a] = q[b]
  <2>1. from(a) \in DOMAIN q \ {i} /\ r[a] = q[from(a)]
    BY <1>1, <1>2, <1>3, <1>4
  <2> HIDE DEF from, r
  <2> QED BY <2>1
<1>6. ASSUME NEW b \in DOMAIN q \ {i} PROVE \E a \in DOMAIN r : r[a] = q[b]
  <2>1. CASE b = n
    <3>1. i \in 1..(n - 1) /\ from(i) = b
      BY <1>1, <2>1
    <3>2. i \in DOMAIN r /\ r[i] = q[b]
      BY <1>2, <1>4, <3>1
    <3> QED BY <3>2
  <2>2. CASE b # n
    <3>1. b \in 1..(n - 1) /\ from(b) = b
      BY <1>1, <2>2
    <3>2. b \in DOMAIN r /\ r[b] = q[b]
      BY <1>2, <1>4, <3>1
    <3> QED BY <3>2
  <2> QED BY <2>1, <2>2
<1>7. ASSUME NEW a \in DOMAIN r, NEW b \in DOMAIN r, r[a] = r[b] PROVE a = b
  <2>1. from(a) \in DOMAIN q /\ from(b) \in DOMAIN q /\ q[from(a)] = q[from(b)]
    BY <1>1, <1>2, <1>3, <1>4, <1>7
  <2>2. from(a) = from(b)
    <3> HIDE DEF from
    <3> QED BY <2>1
  <2>3. a \in 1..(n - 1) /\ b \in 1..(n - 1)
    BY <1>4
  <2> QED BY <1>1, <2>2, <2>3
<1>8. n - 1 <= n
  BY <1>1
<1> QED BY <1>4, <1>5, <1>6, <1>7, <1>8

\* A queue loses one of its channels, and only that one.
Pulls(s, i) == i \in DOMAIN queue[s] /\ queue' = [queue EXCEPT ![s] = SwapRemove(@, i)]

\* What a queue loses when one of its channels is taken out.
LEMMA OutOfQueue ==
    ASSUME CmuxInv, NEW s \in Sides, NEW i, Pulls(s, i)
    PROVE  /\ queue' \in [Sides -> Seq(Nat)]
           /\ \A r \in Sides :
                 /\ Len(queue'[r]) <= Len(queue[r])
                 /\ \A a \in DOMAIN queue'[r] : \E b \in DOMAIN queue[r] : queue'[r][a] = queue[r][b]
                 /\ \A a, b \in DOMAIN queue'[r] : queue'[r][a] = queue'[r][b] => a = b
           /\ InQueue(queue[s][i]) /\ queue[s][i] \in Channels /\ chan[queue[s][i]].side = s
           /\ \A c \in Channels : InQueue(c)' <=> InQueue(c) /\ c # queue[s][i]
<1> DEFINE q == queue[s]
           r == SwapRemove(q, i)
<1>1. /\ queue \in [Sides -> Seq(Nat)] /\ \A p \in Sides : Len(queue[p]) \in Nat
      /\ \A p \in Sides : \A a \in DOMAIN queue[p] : queue[p][a] \in Channels /\ chan[queue[p][a]].side = p
      /\ \A p \in Sides : \A a, b \in DOMAIN queue[p] : queue[p][a] = queue[p][b] => a = b
      /\ i \in DOMAIN queue[s] /\ queue' = [queue EXCEPT ![s] = SwapRemove(@, i)]
  BY DEF CmuxInv, Types, Queued, Pulls
<1>2. /\ r \in Seq(Nat) /\ Len(r) <= Len(q)
      /\ \A a \in DOMAIN r : \E b \in DOMAIN q \ {i} : r[a] = q[b]
      /\ \A b \in DOMAIN q \ {i} : \E a \in DOMAIN r : r[a] = q[b]
      /\ \A a, b \in DOMAIN r : r[a] = r[b] => a = b
  <2>1. q \in Seq(Nat) /\ i \in DOMAIN q /\ \A a, b \in DOMAIN q : q[a] = q[b] => a = b
    BY <1>1
  <2> HIDE DEF q
  <2> QED BY ONLY <2>1, Removed
<1>3. queue'[s] = r /\ \A p \in Sides \ {s} : queue'[p] = queue[p]
  BY <1>1
<1> HIDE DEF r
<1>4. queue' \in [Sides -> Seq(Nat)]
  BY <1>1, <1>2 DEF r
<1>5. ASSUME NEW p \in Sides
      PROVE  /\ Len(queue'[p]) <= Len(queue[p])
             /\ \A a \in DOMAIN queue'[p] : \E b \in DOMAIN queue[p] : queue'[p][a] = queue[p][b]
             /\ \A a, b \in DOMAIN queue'[p] : queue'[p][a] = queue'[p][b] => a = b
  <2>1. CASE p = s
    BY <1>2, <1>3, <2>1
  <2>2. CASE p # s
    BY <1>1, <1>3, <2>2
  <2> QED BY <2>1, <2>2
<1>6. InQueue(queue[s][i]) /\ queue[s][i] \in Channels /\ chan[queue[s][i]].side = s
  BY <1>1 DEF InQueue
<1>7. ASSUME NEW c \in Channels, InQueue(c)' PROVE InQueue(c) /\ c # queue[s][i]
  <2>1. PICK p \in Sides : \E a \in DOMAIN queue'[p] : queue'[p][a] = c
    BY <1>7 DEF InQueue
  <2>2. PICK a \in DOMAIN queue'[p] : queue'[p][a] = c
    BY <2>1
  <2>3. CASE p = s
    <3>1. PICK b \in DOMAIN q \ {i} : r[a] = q[b]
      BY <1>2, <1>3, <2>2, <2>3
    <3>2. queue[s][b] = c /\ b \in DOMAIN queue[s] /\ b # i
      BY <1>3, <2>2, <2>3, <3>1
    <3>3. c # queue[s][i]
      BY <1>1, <3>2
    <3> QED BY <3>2, <3>3 DEF InQueue
  <2>4. CASE p # s
    <3>1. a \in DOMAIN queue[p] /\ queue[p][a] = c
      BY <1>3, <2>2, <2>4
    <3>2. chan[c].side = p
      BY <1>1, <3>1
    <3> QED BY <1>6, <2>4, <3>1, <3>2 DEF InQueue
  <2> QED BY <2>3, <2>4
<1>8. ASSUME NEW c \in Channels, InQueue(c), c # queue[s][i] PROVE InQueue(c)'
  <2>1. PICK p \in Sides : \E a \in DOMAIN queue[p] : queue[p][a] = c
    BY <1>8 DEF InQueue
  <2>2. PICK a \in DOMAIN queue[p] : queue[p][a] = c
    BY <2>1
  <2>3. CASE p = s
    <3>1. a \in DOMAIN q \ {i}
      BY <1>8, <2>2, <2>3
    <3>2. PICK b \in DOMAIN r : r[b] = q[a]
      BY <1>2, <3>1
    <3> QED BY <1>3, <2>2, <2>3, <3>2 DEF InQueue
  <2>4. CASE p # s
    BY <1>3, <2>2, <2>4 DEF InQueue
  <2> QED BY <2>3, <2>4
<1> QED BY <1>4, <1>5, <1>6, <1>7, <1>8

\* The references that RefsFrom counts.
LEMMA RefsFromIs ==
    ASSUME CmuxInv, NEW s \in Sides, NEW c \in Channels
    PROVE  /\ chan[c].side = s => RefsFrom(s, c) = One(InTable(c)) + One(InQueue(c))
           /\ chan[c].side # s => RefsFrom(s, c) = 0
           /\ InTable(c) /\ chan[c].side = s <=> c \in Tabled(s)
<1> DEFINE at == {i \in DOMAIN queue[s] : queue[s][i] = c}
<1>0. /\ c # 0 /\ \A r \in Sides, d \in Dlcis : table[r][d] = c => chan[c].side = r
      /\ \A r \in Sides : \A i \in DOMAIN queue[r] : queue[r][i] = c => chan[c].side = r
      /\ \A i, j \in DOMAIN queue[s] : queue[s][i] = queue[s][j] => i = j
  BY ChannelsAre DEF CmuxInv, Listed, Queued
<1>1. InTable(c) /\ chan[c].side = s <=> c \in Tabled(s)
  BY <1>0 DEF InTable, Tabled
<1>2. CASE at = {}
  <2>1. Cardinality(at) = 0
    BY <1>2, FS_EmptySet, Zenon
  <2>2. chan[c].side = s => ~InQueue(c)
    BY <1>0, <1>2 DEF InQueue
  <2>3. RefsFrom(s, c) = (IF c \in Tabled(s) THEN 1 ELSE 0) + 0
    BY <2>1 DEF RefsFrom
  <2> QED BY <1>1, <2>2, <2>3 DEF One
<1>3. CASE at # {}
  <2>1. PICK i : i \in at
    BY <1>3
  <2>2. at = {i}
    BY <1>0, <2>1
  <2>3. Cardinality({i}) = 1
    BY FS_Singleton
  <2>4. Cardinality(at) = 1
    BY <2>2, <2>3, Zenon
  <2>5. chan[c].side = s /\ InQueue(c)
    BY <1>0, <2>1 DEF InQueue
  <2>6. RefsFrom(s, c) = (IF c \in Tabled(s) THEN 1 ELSE 0) + 1
    BY <2>4 DEF RefsFrom
  <2> QED BY <1>1, <2>5, <2>6 DEF One
<1> QED BY <1>2, <1>3

\* accept takes the first channel of the queue.
LEMMA ClientAccept == ASSUME CmuxInv, NEW t \in Clients, AcceptChannel(t) PROVE CmuxInv'
<1>0. PICK s, c : s = Home(t) /\ c = Head(queue[s])
  OBVIOUS
<1>1. /\ work[t].at = "accept" /\ t \notin asleep /\ queue[s] # <<>> /\ queue' = [queue EXCEPT ![s] = SwapRemove(@, 1)]
      /\ UNCHANGED <<closed, ready, table, alive, asleep>> /\ UNCHANGED <<bearerVars, countVars>>
      /\ \/ chan[c].phase = "open" /\ work' = [work EXCEPT ![t].at = "conn", ![t].ch = c] /\ chan' = chan
         \/ chan' = [chan EXCEPT ![c].refs = @ - 1] /\ work' = work
      /\ Types /\ Bounded
  BY <1>0 DEF AcceptChannel, Proceeds, At, CmuxInv
<1>2. /\ t \in Threads /\ t \notin Sides /\ s \in Sides /\ s = HomeOf[t] /\ work \in [Threads -> PlaceType]
      /\ work[t].ch \in Channels \cup {0} /\ ~Retains(t) /\ ClientPlace(t)
  BY <1>0, <1>1, Hands DEF Retains, Retaining, CmuxInv, Placed
<1>3. 1 \in DOMAIN queue[s] /\ c = queue[s][1]
  BY <1>0, <1>1, <1>2 DEF Types
<1>4. /\ queue' \in [Sides -> Seq(Nat)]
      /\ \A r \in Sides :
            /\ Len(queue'[r]) <= Len(queue[r])
            /\ \A a \in DOMAIN queue'[r] : \E b \in DOMAIN queue[r] : queue'[r][a] = queue[r][b]
            /\ \A a, b \in DOMAIN queue'[r] : queue'[r][a] = queue'[r][b] => a = b
      /\ InQueue(c) /\ c \in Channels /\ chan[c].side = s
      /\ \A x \in Channels : InQueue(x)' <=> InQueue(x) /\ x # c
  <2>1. PICK i : i = 1
    OBVIOUS
  <2>2. Pulls(s, i) /\ c = queue[s][i]
    BY <1>1, <1>3, <2>1 DEF Pulls
  <2> QED BY <1>2, <2>2, OutOfQueue
<1>5. Channels = 1..Len(chan) /\ chan \in Seq(ChannelType) /\ \A x \in Channels : chan[x] \in ChannelType /\ x \in Nat
  BY <1>1, ChannelsAre DEF Types
<1>6. \A x \in Channels : InTable(x)' <=> InTable(x)
  BY <1>1 DEF InTable
<1>7. /\ table' = table /\ table \in [Sides -> [Dlcis -> Nat]]
      /\ \A r \in Sides, d \in Dlcis : table[r][d] # 0 => table[r][d] \in Channels /\ chan[table[r][d]].registered
  BY <1>1 DEF Types, CmuxInv, Listed
<1>8. Carried
  BY <1>1, CarriedSame
<1>9. CASE work' = [work EXCEPT ![t].at = "conn", ![t].ch = c] /\ chan' = chan
  <2> DEFINE p == [work[t] EXCEPT !.at = "conn", !.ch = c]
  <2>1. p \in PlaceType /\ p.at = "conn" /\ p.ch = c
    <3>1. work[t] \in PlaceType /\ c \in Nat
      BY <1>2, <1>4, <1>5
    <3> QED BY <3>1 DEF PlaceType, Labels
  <2>2. work' = [work EXCEPT ![t] = p]
    BY <1>2, <1>9
  <2> HIDE DEF p
  <2>3. /\ work' \in [Threads -> PlaceType] /\ \A u \in Threads \ {t} : work'[u] = work[u]
        /\ work'[t].at = "conn" /\ work'[t].ch = c
    BY <1>2, <2>1, <2>2
  <2>4. ClientPlace(t)' /\ Channels' = Channels
    BY <1>2, <1>4, <1>9, <2>3 DEF ClientPlace, Handling, Dialling, Ending, Channels
  <2>5. Moves(t)
    BY <1>2, <1>4, <2>3, <2>4 DEF Moves
  <2>6. Retains(t)'
    BY <2>3 DEF Retains, Retaining
  <2>7. ASSUME NEW x \in Channels
        PROVE  chan'[x].refs - One(InTable(x))' - One(InQueue(x))' - One(Calls(t, x))'
                 = chan[x].refs - One(InTable(x)) - One(InQueue(x)) - One(Calls(t, x))
    <3>1. chan'[x].refs = chan[x].refs /\ chan[x].refs \in Int /\ ~Calls(t, x)
      BY <1>2, <1>5, <1>9 DEF ChannelType, Calls
    <3>2. CASE x = c
      <4>1. Calls(t, x)' /\ ~InQueue(x)' /\ InQueue(x)
        BY <1>4, <2>3, <2>6, <3>2 DEF Calls
      <4> QED BY <1>6, <3>1, <4>1 DEF One
    <3>3. CASE x # c
      <4>1. ~Calls(t, x)' /\ (InQueue(x)' <=> InQueue(x))
        BY <1>4, <2>3, <3>3 DEF Calls
      <4> QED BY <1>6, <3>1, <4>1 DEF One
    <3> QED BY <3>2, <3>3
  <2>8. \E x \in Channels : work'[t].ch = x /\ InQueue(x) /\ ~InQueue(x)'
    BY <1>4, <2>3
  <2>9. Drops(t)
    BY <1>1, <1>2, <1>4, <1>5, <1>7, <1>8, <1>9, <2>5, <2>7, <2>8 DEF Drops
  <2> QED BY <1>2, <2>9, DropKeeps
<1>10. CASE chan' = [chan EXCEPT ![c].refs = @ - 1] /\ work' = work
  <2> DEFINE r == [chan[c] EXCEPT !.refs = @ - 1]
  <2>1. /\ r \in ChannelType /\ r.refs = chan[c].refs - 1 /\ r.side = chan[c].side /\ r.dlci = chan[c].dlci
        /\ r.phase = chan[c].phase /\ r.conn = chan[c].conn /\ r.rx = chan[c].rx /\ r.registered = chan[c].registered
    <3>1. chan[c] \in ChannelType
      BY <1>4, <1>5
    <3>2. chan[c].refs \in Int /\ chan[c].refs - 1 \in Int
      BY <3>1 DEF ChannelType
    <3> QED BY <3>1, <3>2 DEF ChannelType
  <2>2. chan' = [chan EXCEPT ![c] = r]
    BY <1>4, <1>5, <1>10
  <2> HIDE DEF r
  <2>3. /\ chan' \in Seq(ChannelType) /\ Len(chan') = Len(chan) /\ Channels' = Channels
        /\ chan'[c] = r /\ \A x \in Channels \ {c} : chan'[x] = chan[x]
    BY <1>1, <1>4, <2>1, <2>2, OneChannel
  <2>4. \A x \in Channels :
         /\ chan'[x].side = chan[x].side /\ chan'[x].dlci = chan[x].dlci /\ chan'[x].phase = chan[x].phase
         /\ chan'[x].conn = chan[x].conn /\ chan'[x].rx = chan[x].rx /\ chan'[x].registered = chan[x].registered
    BY <2>1, <2>3
  <2>5. ClientPlace(t)'
    <3>1. HomeOf[t] \in Sides /\ closed' = closed /\ alive' = alive
      BY <1>1, <1>2
    <3> QED BY <1>2, <1>10, <2>3, <2>4, <3>1 DEF ClientPlace
  <2>6. Moves(t) /\ work'[t].at \notin Making
    <3>1. work'[t].at \notin Making
      BY <1>1, <1>10 DEF Making
    <3> QED BY <1>2, <1>10, <2>3, <2>5, <3>1 DEF Moves
  <2>7. ASSUME NEW x \in Channels
        PROVE  chan'[x].refs - One(InTable(x))' - One(InQueue(x))' - One(Calls(t, x))'
                 = chan[x].refs - One(InTable(x)) - One(InQueue(x)) - One(Calls(t, x))
    <3>1. chan[x].refs \in Int /\ ~Calls(t, x) /\ ~Calls(t, x)'
      BY <1>2, <1>5, <1>10 DEF ChannelType, Calls, Retains
    <3>2. CASE x = c
      BY <1>4, <1>6, <2>1, <2>3, <3>1, <3>2 DEF One
    <3>3. CASE x # c
      BY <1>4, <1>6, <2>3, <3>1, <3>3 DEF One
    <3> QED BY <3>2, <3>3
  <2>8. \A x \in Channels : chan'[x].registered => chan[x].registered
    BY <2>4
  <2>9. /\ UNCHANGED <<closed, ready, alive>> /\ table' \in [Sides -> [Dlcis -> Nat]]
        /\ \A q \in Sides, d \in Dlcis :
             /\ table'[q][d] \in {0, table[q][d]}
             /\ table'[q][d] # 0 => chan'[table[q][d]].registered
             /\ ~(table[q][d] # 0 /\ table'[q][d] = 0)
    <3>1. UNCHANGED <<closed, ready, alive>>
      BY <1>1
    <3>2. \A q \in Sides, d \in Dlcis : table[q][d] # 0 => chan'[table[q][d]].registered
      BY <1>7, <2>4
    <3> QED BY ONLY <1>7, <3>1, <3>2
  <2>10. /\ asleep' \subseteq asleep /\ t \notin asleep' /\ (t \in Sides => ~Offering(t))
         /\ \A u \in asleep' : work[u].ch \in Channels => chan'[work[u].ch].registered = chan[work[u].ch].registered
    <3>1. \A x \in Channels : chan'[x].registered = chan[x].registered
      BY <2>4
    <3> QED BY ONLY <1>1, <1>2, <3>1
  <2>11. Drops(t)
    BY ONLY <1>4, <1>8, <2>3, <2>4, <2>6, <2>7, <2>9, <2>10 DEF Drops
  <2> QED BY <1>2, <2>11, DropKeeps
<1> QED BY <1>1, <1>9, <1>10

\* A channel that has ended leaves table and queue.
LEMMA WorkerUnregister == ASSUME CmuxInv, NEW s \in Sides, Unregister(s) PROVE CmuxInv'
<1>0. PICK c, d : c = work[s].ch /\ d = chan[c].dlci
  OBVIOUS
<1> DEFINE there == table[s][d] = c
           at == {i \in DOMAIN queue[s] : queue[s][i] = c}
           r == [chan[c] EXCEPT !.registered = @ /\ ~there, !.refs = @ - RefsFrom(s, c)]
<1>1. /\ work[s].at = "unregister" /\ s \notin asleep
      /\ table' = IF there THEN [table EXCEPT ![s][d] = 0] ELSE table
      /\ queue' = IF at = {} THEN queue ELSE [queue EXCEPT ![s] = SwapRemove(@, CHOOSE i \in at : TRUE)]
      /\ asleep' = asleep \ OnChannel(c)
      /\ UNCHANGED <<closed, ready, alive>> /\ UNCHANGED <<bearerVars, countVars>>
      /\ Types /\ Bounded /\ Listed
  BY <1>0 DEF Unregister, At, Wake, CmuxInv
<1>2. /\ s \in Threads /\ s \notin Clients /\ work \in [Threads -> PlaceType] /\ ~Retains(s) /\ ~Offering(s)
      /\ work[s].then = "listen" /\ c \in Channels /\ chan[c].side = s /\ chan[c] \in ChannelType
      /\ chan[c].phase \in Ended /\ work[s].frame \in Answers \cup {None}
  BY <1>0, <1>1, WorkerAt DEF Retains, Retaining, Offering
<1>3. /\ d \in Dlcis /\ c # 0 /\ Channels = 1..Len(chan) /\ chan \in Seq(ChannelType)
      /\ \A x \in Channels : chan[x] \in ChannelType
  BY <1>0, <1>1, <1>2, ChannelsAre DEF Types, ChannelType
<1>4. RefsFrom(s, c) = One(InTable(c)) + One(InQueue(c)) /\ (InTable(c) <=> there)
  <2>1. RefsFrom(s, c) = One(InTable(c)) + One(InQueue(c))
    BY <1>2, RefsFromIs
  <2>2. InTable(c) <=> there
    <3>1. ASSUME NEW p \in Sides, NEW e \in Dlcis, table[p][e] = c PROVE p = s /\ e = d
      BY <1>0, <1>1, <1>2, <1>3, <3>1 DEF Listed
    <3> QED BY <1>3, <3>1 DEF InTable
  <2> QED BY <2>1, <2>2
<1>5. RefsFrom(s, c) \in Int
  BY <1>4 DEF One
<1>6. /\ r \in ChannelType /\ r.refs = chan[c].refs - RefsFrom(s, c) /\ r.side = chan[c].side /\ r.dlci = chan[c].dlci
      /\ r.phase = chan[c].phase /\ r.conn = chan[c].conn /\ r.rx = chan[c].rx
      /\ r.registered = (chan[c].registered /\ ~there)
  <2> HIDE DEF there
  <2>1. chan[c].registered \in BOOLEAN /\ (chan[c].registered /\ ~there) \in BOOLEAN
    BY <1>2 DEF ChannelType
  <2>2. chan[c].refs \in Int /\ chan[c].refs - RefsFrom(s, c) \in Int
    BY <1>2, <1>5 DEF ChannelType
  <2> QED BY <1>2, <2>1, <2>2 DEF ChannelType
<1>7. chan' = [chan EXCEPT ![c] = r]
  BY <1>0, <1>2, <1>3 DEF Unregister
<1> HIDE DEF r
<1>8. /\ chan' \in Seq(ChannelType) /\ Len(chan') = Len(chan) /\ Channels' = Channels
      /\ chan'[c] = r /\ \A x \in Channels \ {c} : chan'[x] = chan[x]
  BY <1>1, <1>2, <1>6, <1>7, OneChannel
<1>9. \A x \in Channels :
         /\ chan'[x].side = chan[x].side /\ chan'[x].dlci = chan[x].dlci /\ chan'[x].phase = chan[x].phase
         /\ chan'[x].conn = chan[x].conn /\ chan'[x].rx = chan[x].rx
         /\ chan'[x].registered => chan[x].registered
  BY <1>6, <1>8
<1>10. /\ table' \in [Sides -> [Dlcis -> Nat]] /\ table'[s][d] \in {0, table[s][d]} /\ table'[s][d] # c
       /\ there => table'[s][d] = 0
       /\ \A p \in Sides, e \in Dlcis : p # s \/ e # d => table'[p][e] = table[p][e]
  <2>1. CASE there
    <3>1. table' = [table EXCEPT ![s] = [table[s] EXCEPT ![d] = 0]] /\ table \in [Sides -> [Dlcis -> Nat]]
      BY <1>1, <1>3, <2>1 DEF Types
    <3> QED BY <1>3, <3>1
  <2>2. CASE ~there
    BY <1>1, <1>3, <2>2 DEF Types
  <2> QED BY <2>1, <2>2
<1>11. \A p \in Sides, e \in Dlcis : table[p][e] = c => p = s /\ e = d /\ there
  BY <1>0, <1>1, <1>2, <1>3 DEF Listed
<1>12. ASSUME NEW p \in Sides, NEW e \in Dlcis
       PROVE  /\ table'[p][e] \in {0, table[p][e]}
              /\ table'[p][e] # 0 => chan'[table[p][e]].registered
              /\ table[p][e] # 0 /\ table'[p][e] = 0 =>
                   /\ chan[table[p][e]].phase \in Ended
                   /\ ~alive[p] \/ ~chan'[table[p][e]].registered
  <2>1. CASE table[p][e] = c
    <3>1. p = s /\ e = d /\ there /\ table'[p][e] = 0
      BY <1>10, <1>11, <2>1
    <3> QED BY <1>2, <1>6, <1>8, <2>1, <3>1
  <2>2. CASE table[p][e] # c
    <3>1. table'[p][e] = table[p][e]
      <4>1. CASE p # s \/ e # d
        BY <1>10, <4>1
      <4>2. CASE p = s /\ e = d
        BY <1>1, <2>2, <4>2
      <4> QED BY <4>1, <4>2
    <3>2. table[p][e] # 0 => table[p][e] \in Channels \ {c} /\ chan[table[p][e]].registered
      BY <1>1, <2>2 DEF Listed
    <3> QED BY <1>8, <3>1, <3>2
  <2> QED BY <2>1, <2>2
<1>13. /\ ~InTable(c)' /\ \A x \in Channels \ {c} : InTable(x)' <=> InTable(x)
  <2>1. ~InTable(c)'
    BY <1>3, <1>10, <1>11 DEF InTable
  <2>2. ASSUME NEW x \in Channels \ {c} PROVE InTable(x)' <=> InTable(x)
    <3>1. x # 0 /\ x # c
      BY <1>3
    <3>2. ASSUME NEW p \in Sides, NEW e \in Dlcis PROVE table'[p][e] = x <=> table[p][e] = x
      <4>1. CASE p # s \/ e # d
        BY <1>10, <4>1
      <4>2. CASE p = s /\ e = d /\ there
        BY <1>10, <3>1, <4>2
      <4>3. CASE ~there
        BY <1>1, <4>3
      <4> QED BY <4>1, <4>2, <4>3
    <3> QED BY <3>2 DEF InTable
  <2> QED BY <2>1, <2>2
<1>14. /\ queue' \in [Sides -> Seq(Nat)]
       /\ \A p \in Sides :
            /\ Len(queue'[p]) <= Len(queue[p])
            /\ \A a \in DOMAIN queue'[p] : \E b \in DOMAIN queue[p] : queue'[p][a] = queue[p][b]
            /\ \A a, b \in DOMAIN queue'[p] : queue'[p][a] = queue'[p][b] => a = b
       /\ ~InQueue(c)' /\ \A x \in Channels \ {c} : InQueue(x)' <=> InQueue(x)
  <2>1. CASE at = {}
    <3>1. queue' = queue
      BY <1>1, <2>1
    <3>2. ~InQueue(c)
      <4>1. \A p \in Sides : \A i \in DOMAIN queue[p] : queue[p][i] = c => p = s
        BY <1>2 DEF CmuxInv, Queued
      <4> QED BY <2>1, <4>1 DEF InQueue
    <3>3. \A x \in Channels : InQueue(x)' <=> InQueue(x)
      BY <3>1 DEF InQueue
    <3>4. \A p \in Sides : Len(queue[p]) \in Nat
      BY <1>1 DEF Types
    <3>5. \A p \in Sides : \A a, b \in DOMAIN queue[p] : queue[p][a] = queue[p][b] => a = b
      BY DEF CmuxInv, Queued
    <3> QED BY SMTT(30), <1>1, <1>2, <3>1, <3>2, <3>3, <3>4, <3>5 DEF Types
  <2>2. CASE at # {}
    <3>1. PICK i : i = CHOOSE j \in at : TRUE
      OBVIOUS
    <3>2. i \in at
      BY <2>2, <3>1
    <3>3. i \in DOMAIN queue[s] /\ queue[s][i] = c
      BY <3>2
    <3>4. Pulls(s, i)
      BY <1>1, <2>2, <3>1, <3>3 DEF Pulls
    <3> HIDE DEF at
    <3> QED BY <1>2, <3>3, <3>4, OutOfQueue
  <2> QED BY <2>1, <2>2
<1>15. ASSUME NEW x \in Channels
       PROVE  chan'[x].refs - One(InTable(x))' - One(InQueue(x))' - One(Calls(s, x))'
                = chan[x].refs - One(InTable(x)) - One(InQueue(x)) - One(Calls(s, x))
  <2>1. chan[x].refs \in Int /\ ~Calls(s, x) /\ ~Calls(s, x)'
    BY <1>2, <1>3 DEF ChannelType, Calls
  <2>2. CASE x = c
    <3>1. chan'[x].refs = chan[x].refs - (One(InTable(x)) + One(InQueue(x)))
      BY <1>4, <1>6, <1>8, <2>2
    <3> QED BY <1>13, <1>14, <2>1, <2>2, <3>1 DEF One
  <2>3. CASE x # c
    BY <1>8, <1>13, <1>14, <2>1, <2>3 DEF One
  <2> QED BY <2>2, <2>3
<1>16. Moves(s)
  <2>1. CASE work[s].frame = None
    <3>1. Goto(s, "listen")
      BY <1>1, <2>1 DEF Unregister
    <3> QED BY <1>8, <3>1, WorkerGoes DEF Desks
  <2>2. CASE work[s].frame # None
    <3> DEFINE p == [work[s] EXCEPT !.at = "reply", !.ch = 0]
    <3>1. work' = [work EXCEPT ![s] = p]
      BY <1>2, <2>2 DEF Unregister
    <3>2. p \in PlaceType /\ p.at = "reply" /\ p.ch = 0 /\ p.then = work[s].then /\ p.frame = work[s].frame
      <4>1. work[s] \in PlaceType
        BY <1>2
      <4> QED BY <4>1 DEF PlaceType, Labels
    <3> HIDE DEF p
    <3>3. /\ work' \in [Threads -> PlaceType] /\ \A u \in Threads \ {s} : work'[u] = work[u]
          /\ work'[s].at = "reply" /\ work'[s].ch = 0 /\ work'[s].then = "listen" /\ work'[s].frame \in Answers
      BY <1>2, <2>2, <3>1, <3>2
    <3>4. WorkerPlace(s)'
      BY <3>3 DEF WorkerPlace
    <3> QED BY <1>2, <3>3, <3>4 DEF Moves
  <2> QED BY <2>1, <2>2
<1>17. ASSUME NEW u \in asleep', work[u].ch \in Channels
       PROVE  chan'[work[u].ch].registered = chan[work[u].ch].registered
  <2>1. work[u].ch # c
    BY <1>1, <1>17 DEF OnChannel
  <2> QED BY <1>8, <1>17, <2>1
<1>18. Carried
  BY <1>1, CarriedSame
<1> HIDE DEF there, at
<1>19. Drops(s)
  BY <1>1, <1>2, <1>8, <1>9, <1>10, <1>12, <1>14, <1>15, <1>16, <1>17, <1>18 DEF Drops
<1> QED BY <1>2, <1>19, DropKeeps

\* deinit of the session empties table and queue.
LEMMA ClientSweep == ASSUME CmuxInv, NEW t \in Clients, Sweep(t) PROVE CmuxInv'
<1>0. PICK s : s = Home(t)
  OBVIOUS
<1>1. /\ work[t].at = "join" /\ t \notin asleep
      /\ chan' = [c \in Channels |-> [chan[c] EXCEPT !.refs = @ - RefsFrom(s, c)]]
      /\ table' = [table EXCEPT ![s] = [d \in Dlcis |-> 0]]
      /\ queue' = [queue EXCEPT ![s] = <<>>]
      /\ Goto(t, "idle") /\ UNCHANGED <<closed, ready, alive, asleep>> /\ UNCHANGED <<bearerVars, countVars>>
      /\ Types /\ Bounded /\ Listed /\ Queued /\ LiveListed
  BY <1>0 DEF Sweep, At, CmuxInv
<1>2. /\ t \in Threads /\ t \notin Sides /\ s \in Sides /\ s = HomeOf[t] /\ ~Retains(t)
      /\ ~alive[s] /\ closed[s]
  BY <1>0, <1>1, Hands DEF Retains, Retaining
<1>3. Channels = 1..Len(chan) /\ Len(chan) \in Nat /\ \A x \in Channels : chan[x] \in ChannelType /\ x # 0
  BY <1>1, ChannelsAre
<1>4. ASSUME NEW c \in Channels
      PROVE  /\ RefsFrom(s, c) = IF chan[c].side = s THEN One(InTable(c)) + One(InQueue(c)) ELSE 0
             /\ RefsFrom(s, c) \in Int
  BY RefsFromIs, <1>2 DEF One
<1>5. ASSUME NEW c \in Channels
      PROVE  /\ chan'[c] \in ChannelType /\ chan'[c].side = chan[c].side /\ chan'[c].dlci = chan[c].dlci
             /\ chan'[c].registered = chan[c].registered /\ chan'[c].rx = chan[c].rx /\ chan'[c].conn = chan[c].conn
             /\ chan'[c].phase = chan[c].phase /\ chan'[c].refs = chan[c].refs - RefsFrom(s, c)
  <2>1. chan'[c] = [chan[c] EXCEPT !.refs = @ - RefsFrom(s, c)]
    BY <1>1
  <2>2. chan[c] \in ChannelType /\ RefsFrom(s, c) \in Int
    BY <1>3, <1>4
  <2>3. chan[c].refs \in Int /\ chan[c].refs - RefsFrom(s, c) \in Int
    BY <2>2 DEF ChannelType
  <2> QED BY <2>1, <2>2, <2>3 DEF ChannelType
<1>6. chan' \in Seq(ChannelType) /\ Len(chan') = Len(chan) /\ Channels' = Channels
  <2>1. chan' \in [1..Len(chan) -> ChannelType]
    BY <1>1, <1>3, <1>5
  <2> QED BY <1>3, <2>1, SeqOf DEF Channels
<1>7. /\ table' \in [Sides -> [Dlcis -> Nat]] /\ \A d \in Dlcis : table'[s][d] = 0
      /\ \A p \in Sides \ {s} : table'[p] = table[p]
  BY <1>1, <1>2 DEF Types
<1>8. /\ queue' \in [Sides -> Seq(Nat)] /\ queue'[s] = <<>> /\ \A p \in Sides \ {s} : queue'[p] = queue[p]
  BY <1>1, <1>2 DEF Types
<1>9. ASSUME NEW p \in Sides, NEW d \in Dlcis
      PROVE  /\ table'[p][d] \in {0, table[p][d]}
             /\ table'[p][d] # 0 => chan'[table[p][d]].registered
             /\ table[p][d] # 0 /\ table'[p][d] = 0 =>
                  /\ chan[table[p][d]].phase \in Ended
                  /\ ~alive[p] \/ ~chan'[table[p][d]].registered
  <2>1. CASE p = s
    <3>1. table[p][d] # 0 => table[p][d] \in Channels /\ chan[table[p][d]].side = s
      BY <1>1, <2>1 DEF Listed
    <3>2. table[p][d] # 0 => chan[table[p][d]].phase \in Ended
      BY <1>1, <1>2, <3>1 DEF LiveListed
    <3> QED BY <1>2, <1>7, <2>1, <3>2
  <2>2. CASE p # s
    BY <1>1, <1>5, <1>7, <2>2 DEF Listed
  <2> QED BY <2>1, <2>2
<1>10. ASSUME NEW p \in Sides
       PROVE  /\ Len(queue'[p]) <= Len(queue[p])
              /\ \A i \in DOMAIN queue'[p] : \E j \in DOMAIN queue[p] : queue'[p][i] = queue[p][j]
              /\ \A i, j \in DOMAIN queue'[p] : queue'[p][i] = queue'[p][j] => i = j
  <2>0. Len(queue[p]) \in Nat
    BY <1>1 DEF Types
  <2>1. CASE p = s
    BY <1>8, <2>0, <2>1
  <2>2. CASE p # s
    BY <1>1, <1>8, <2>0, <2>2 DEF Queued
  <2> QED BY <2>1, <2>2
<1>11. ASSUME NEW c \in Channels
       PROVE  /\ chan[c].side = s => ~InTable(c)' /\ ~InQueue(c)'
              /\ chan[c].side # s => (InTable(c)' <=> InTable(c)) /\ (InQueue(c)' <=> InQueue(c))
  <2>1. /\ c # 0 /\ \A p \in Sides, d \in Dlcis : table[p][d] = c => chan[c].side = p
        /\ \A p \in Sides : \A i \in DOMAIN queue[p] : queue[p][i] = c => chan[c].side = p
    BY <1>1, <1>3 DEF Listed, Queued
  <2>2. \A p \in Sides, d \in Dlcis : table'[p][d] = c <=> p # s /\ table[p][d] = c
    BY <1>7, <2>1
  <2>3. InTable(c)' <=> InTable(c) /\ chan[c].side # s
    BY <2>1, <2>2 DEF InTable
  <2>4. \A p \in Sides : (\E i \in DOMAIN queue'[p] : queue'[p][i] = c) <=> p # s /\ \E i \in DOMAIN queue[p] : queue[p][i] = c
    BY <1>8
  <2>5. InQueue(c)' <=> InQueue(c) /\ chan[c].side # s
    BY <2>1, <2>4 DEF InQueue
  <2> QED BY <2>3, <2>5
<1>12. ASSUME NEW x \in Channels
       PROVE  chan'[x].refs - One(InTable(x))' - One(InQueue(x))' - One(Calls(t, x))'
                = chan[x].refs - One(InTable(x)) - One(InQueue(x)) - One(Calls(t, x))
  <2>1. chan[x].refs \in Int /\ ~Calls(t, x)
    BY <1>2, <1>3 DEF ChannelType, Calls
  <2>2. ~Calls(t, x)'
    <3>1. work'[t].at = "idle"
      BY <1>1, <1>2, Gone DEF Labels
    <3> QED BY <3>1 DEF Calls, Retains, Retaining
  <2>3. CASE chan[x].side = s
    BY <1>4, <1>5, <1>11, <2>1, <2>2, <2>3 DEF One
  <2>4. CASE chan[x].side # s
    BY SMTT(30), <1>4, <1>5, <1>11, <2>1, <2>2, <2>4 DEF One
  <2> QED BY <2>3, <2>4
<1>13. Moves(t) /\ work'[t].at \notin Making
  <2>1. "idle" \in Places /\ "idle" \notin Handling \cup Dialling \cup Ending \cup Making
    BY DEF Places, Handling, Dialling, Ending, Making
  <2>2. \A c \in Channels : chan'[c].side = chan[c].side
    BY <1>5
  <2> QED BY <1>1, <1>6, <2>1, <2>2, ClientGoes
<1>14. Carried
  BY <1>1, CarriedSame
<1>15. /\ chan' \in Seq(ChannelType) /\ \A c \in Channels :
         /\ chan'[c].side = chan[c].side /\ chan'[c].dlci = chan[c].dlci /\ chan'[c].phase = chan[c].phase
         /\ chan'[c].conn = chan[c].conn /\ chan'[c].rx = chan[c].rx /\ chan'[c].registered = chan[c].registered
  BY SMTT(30), <1>5, <1>6
<1>16. Drops(t)
  BY ZenonT(40), <1>1, <1>2, <1>6, <1>7, <1>8, <1>9, <1>10, <1>12, <1>13, <1>14, <1>15 DEF Drops
<1> QED BY <1>2, <1>16, DropKeeps
----------------------------------------------------------------------------
(* The invariant.                                                           *)
LEMMA CmuxInit == ASSUME Init PROVE CmuxInv
<1>1. /\ closed = [s \in Sides |-> FALSE] /\ ready = [s \in Sides |-> FALSE] /\ shut = [s \in Sides |-> FALSE]
      /\ alive = [s \in Sides |-> TRUE] /\ table = [s \in Sides |-> [d \in Dlcis |-> 0]]
      /\ queue = [s \in Sides |-> <<>>] /\ chan = <<>> /\ asleep = {} /\ dials = 0
      /\ calls = [t \in Clients |-> 0] /\ Channels = {}
  BY DEF Init, Channels
<1>2. Idle \in PlaceType /\ Idle.at = "idle" /\ Idle.ch = 0
  BY DEF Idle, PlaceType, Labels
<1>3. /\ [Idle EXCEPT !.at = "listen"] \in PlaceType /\ [Idle EXCEPT !.at = "listen"].at = "listen"
      /\ [Idle EXCEPT !.at = "listen"].ch = 0
  BY DEF Idle, PlaceType, Labels
<1>4. /\ work \in [Threads -> PlaceType] /\ \A t \in Threads : work[t].ch = 0
      /\ \A s \in Sides : work[s].at = "listen"
      /\ \A t \in Clients : work[t].at = "idle"
  <2>1. work = [t \in Threads |-> IF t \in Sides THEN [Idle EXCEPT !.at = "listen"] ELSE Idle]
    BY DEF Init
  <2> QED BY <1>2, <1>3, <2>1, SidesOf
<1>5. wire \in [Sides -> Seq(Frames)] /\ \A s \in Sides : /\ Len(wire[s]) <= BearerCap
                                                          /\ \A i \in DOMAIN wire[s] : wire[s][i].type # "uih"
  <2> DEFINE f == Frame("sabm", 0, 0)
  <2>1. f \in Frames /\ f.type = "sabm"
    BY DEF Frame, Frames, Answers, Types4
  <2> HIDE DEF f
  <2>2. wire = [s \in Sides |-> IF s = "initiator" THEN <<f>> ELSE <<>>]
    BY DEF Init, f
  <2>3. /\ <<f>> \in Seq(Frames) /\ Len(<<f>>) = 1 /\ DOMAIN <<f>> = {1} /\ <<f>>[1] = f
        /\ <<>> \in Seq(Frames) /\ Len(<<>>) = 0 /\ DOMAIN <<>> = {}
    BY <2>1
  <2>4. 1 <= BearerCap /\ 0 <= BearerCap
    BY CmuxAssumption
  <2>5. \A s \in Sides : wire[s] = <<f>> \/ wire[s] = <<>>
    BY <2>2
  <2> QED BY <2>1, <2>2, <2>3, <2>4, <2>5
<1>6. Types
  <2>1. <<>> \in Seq(ChannelType) /\ <<>> \in Seq(Nat)
    OBVIOUS
  <2> QED BY <1>1, <1>4, <1>5, <2>1 DEF Types
<1>7. Bounded
  <2>1. \A t \in Clients : MaxCalls(t) \in Nat
    BY CmuxAssumption DEF MaxCalls
  <2>2. dials <= MaxDials /\ \A t \in Clients : calls[t] <= MaxCalls(t)
    BY <1>1, <2>1, CmuxAssumption
  <2>3. \A s \in Sides : Len(queue[s]) <= MaxQueue
    BY <1>1, CmuxAssumption
  <2>4. \A s \in Sides : work[s].at # "rx"
    BY <1>4
  <2> QED BY <1>1, <1>5, <2>2, <2>3, <2>4 DEF Bounded
<1>8. Placed
  <2>1. ASSUME NEW s \in Sides PROVE WorkerPlace(s)
    BY <1>4 DEF WorkerPlace
  <2>2. ASSUME NEW t \in Clients PROVE ClientPlace(t)
    <3>1. "idle" \notin Handling \cup Dialling \cup Ending \cup {"close", "disc", "join", "bye", "hangup"}
      BY DEF Handling, Dialling, Ending
    <3>2. work[t].at = "idle"
      BY <1>4
    <3> QED BY <3>1, <3>2 DEF ClientPlace
  <2> QED BY <1>4, <2>1, <2>2 DEF Placed
<1>9. Listed /\ Queued /\ LiveListed /\ AsleepRight
  BY <1>1 DEF Listed, Queued, LiveListed, AsleepRight
<1>10. MadeOnce
  <2>1. "idle" \notin Making
    BY DEF Making
  <2>2. \A t \in Clients : work[t].at \notin Making
    BY <1>4, <2>1
  <2>3. Channels = {}
    BY <1>1
  <2> QED BY <2>2, <2>3 DEF MadeOnce
<1>11. Counted
  BY <1>1 DEF Counted
<1> QED BY <1>6, <1>7, <1>8, <1>9, <1>10, <1>11 DEF CmuxInv

\* A client begins a call.
LEMMA StartKeeps == ASSUME CmuxInv, NEW t \in Clients, Start(t) PROVE CmuxInv'
<1>1. CASE \E d \in Dlcis : Dial(t, d)
  BY <1>1, ClientDial
<1>2. CASE Accept(t) \/ CloseSession(t) \/ \E c \in Conns(Home(t)) : Read(t, c) \/ Write(t, c)
  BY <1>2, ClientStarting
<1>3. CASE Destroy(t)
  BY <1>3, ClientDestroy
<1>4. CASE \E c \in Conns(Home(t)) : Close(t, c) \/ Deinit(t, c)
  BY <1>4, ClientEnding
<1> QED BY <1>1, <1>2, <1>3, <1>4 DEF Start

\* A client takes a step of its call.
LEMMA StepKeeps == ASSUME CmuxInv, NEW t \in Clients, Step(t) PROVE CmuxInv'
<1>1. CASE Sleep(t)
  BY <1>1, SidesOf, SleepKeeps
<1>2. CASE HangUp(t) \/ SayBye(t) \/ SendDisc(t)
  BY <1>2, ClientHangUp, ClientSayBye, ClientSendDisc
<1>3. CASE CloseChannel(t) \/ Release(t)
  BY <1>3, ClientCloseChannel, ClientRelease
<1>4. CASE Shutdown(t)
  BY <1>4, ClientShutdown, ClientPassing
<1>5. CASE DialStep(t)
  BY <1>5, ClientPassing, ClientDialBehind, ClientDialCreate, ClientDialSabm, ClientDialOpened, ClientConn DEF DialStep
<1>6. CASE AcceptChannel(t) \/ AcceptClosed(t) \/ AcceptConn(t)
  BY <1>6, ClientAccept, ClientPassing, ClientConn
<1>7. CASE ReadChannel(t) \/ SendData(t) \/ Sweep(t)
  BY <1>7, ClientRead, ClientSendData, ClientSweep
<1> QED BY <1>1, <1>2, <1>3, <1>4, <1>5, <1>6, <1>7 DEF Step

\* A worker takes a step.
LEMMA WorkKeeps == ASSUME CmuxInv, NEW s \in Sides, Work(s) PROVE CmuxInv'
<1>1. CASE HandleSessionUp(s) \/ HandleSessionDisc(s) \/ HandleOpenRequest(s)
  BY <1>1, WorkerSessionUp, WorkerSessionDisc, WorkerOpenRequest
<1>2. CASE HandleOpenAck(s) \/ HandleDisc(s) \/ HandleReject(s)
  BY <1>2, WorkerOpenAck, WorkerDisc, WorkerReject
<1>3. CASE HandleData(s) \/ StoreData(s) \/ Unregister(s)
  BY <1>3, WorkerData, WorkerStoreData, WorkerUnregister
<1>4. CASE Reply(s) \/ Offer(s) \/ Fail(s)
  BY <1>4, WorkerReply, WorkerPassing
<1>5. CASE Finish(s)
  BY <1>5, WorkerFinish, WorkerPassing
<1>6. CASE Sleep(s) \/ HangUp(s)
  BY <1>6, SidesOf, SleepKeeps, WorkerHangUp
<1> QED BY <1>1, <1>2, <1>3, <1>4, <1>5, <1>6 DEF Work

\* Every step keeps the invariant.
LEMMA CmuxStep == ASSUME CmuxInv, [Next]_vars PROVE CmuxInv'
<1>1. ASSUME NEW t \in Clients, Start(t) \/ Step(t) PROVE CmuxInv'
  BY <1>1, StartKeeps, StepKeeps
<1>2. ASSUME NEW s \in Sides, Work(s) PROVE CmuxInv'
  BY <1>2, WorkKeeps
<1>3. ASSUME NEW t \in Threads, WakeSpuriously(t) PROVE CmuxInv'
  BY <1>3, SleepKeeps
<1>4. CASE UNCHANGED vars
  <2>1. /\ UNCHANGED <<sessionVars, chan, bearerVars, alive, work, countVars>> /\ asleep' = asleep /\ asleep \subseteq Threads
    BY <1>4 DEF vars, CmuxInv, Types
  <2> QED BY <2>1, OnlySleep
<1> QED BY <1>1, <1>2, <1>3, <1>4 DEF Next

\* What holds in every state: the bounds, the places of the threads, the table,
\* the queues, the references by kind and why a thread sleeps.
THEOREM CmuxInvariant == Spec => []CmuxInv
<1>1. Init => CmuxInv
  BY CmuxInit
<1>2. CmuxInv /\ [Next]_vars => CmuxInv'
  BY CmuxStep
<1> QED BY <1>1, <1>2, PTL DEF Spec
----------------------------------------------------------------------------
(* What the runs check, for every value of the constants.                   *)

\* A sequence whose elements are of T is a sequence over T.
LEMMA Narrow == ASSUME NEW S, NEW T, NEW q \in Seq(S), \A i \in DOMAIN q : q[i] \in T PROVE q \in Seq(T)
<1>1. Len(q) \in Nat /\ DOMAIN q = 1..Len(q) /\ q \in [1..Len(q) -> T]
  OBVIOUS
<1> QED BY <1>1, SeqOf

\* The invariant implies the types a run checks.
LEMMA CmuxTypes == ASSUME CmuxInv PROVE TypeOK
<1>1. Types /\ Bounded /\ Placed /\ Listed /\ Queued /\ Counted
  BY DEF CmuxInv
<1>2. \A c \in Channels : c \in Nat /\ chan[c] \in ChannelType
  BY <1>1, ChannelsAre
<1>3. table \in [Sides -> [Dlcis -> Channels \cup {0}]]
  BY <1>1 DEF Types, Listed
<1>4. ASSUME NEW s \in Sides PROVE queue[s] \in Seq(Channels) /\ Len(queue[s]) <= MaxQueue
  <2>1. queue[s] \in Seq(Nat) /\ (\A i \in DOMAIN queue[s] : queue[s][i] \in Channels)
    BY <1>1 DEF Types, Queued
  <2>2. queue[s] \in Seq(Channels)
    BY ONLY <2>1, Narrow
  <2> QED BY <1>1, <2>2 DEF Bounded
<1>5. ASSUME NEW c \in Channels
      PROVE  /\ chan[c].phase \in Phases /\ chan[c].refs \in Nat /\ chan[c].registered \in BOOLEAN
             /\ chan[c].rx \in Seq(Tokens) /\ Len(chan[c].rx) <= RxCap
  <2>1. chan[c].phase \in Phases /\ chan[c].registered \in BOOLEAN /\ chan[c].rx \in Seq(Nat \X Nat)
    BY <1>2 DEF ChannelType
  <2>2. chan[c].refs \in Nat
    <3>1. Cardinality(Callers(c)) \in Nat
      BY CallersCount
    <3> QED BY <1>1, <3>1 DEF Counted, One
  <2>3. chan[c].rx \in Seq(Tokens)
    <3>1. ASSUME NEW i \in DOMAIN chan[c].rx PROVE chan[c].rx[i] \in Tokens
      <4>1. chan[c].rx[i] \in Nat \X Nat
        BY <2>1
      <4>2. chan[c].rx[i][1] \in Channels
        BY <1>1 DEF Bounded
      <4> QED BY <4>1, <4>2 DEF Tokens
    <3> QED BY ONLY <2>1, <3>1, Narrow
  <2> QED BY <1>1, <2>1, <2>2, <2>3 DEF Bounded
<1>6. \A t \in Threads : work[t].at \in Labels /\ work[t].ch \in Channels \cup {0}
  BY <1>1 DEF Types, PlaceType, Placed
<1>7. dials \in 0..MaxDials /\ \A t \in Clients : calls[t] \in 0..MaxCalls(t)
  BY <1>1, CmuxAssumption DEF Types, Bounded, MaxCalls
<1>8. \A s \in Sides : Len(wire[s]) <= BearerCap
  BY <1>1 DEF Bounded
<1> QED BY <1>1, <1>3, <1>4, <1>5, <1>6, <1>7, <1>8 DEF TypeOK, Types

\* The holders of a channel are as many as the invariant counts, kind by kind.
LEMMA HoldersCount ==
    ASSUME CmuxInv, NEW c \in Channels
    PROVE  Cardinality(Holders(c)) = One(InTable(c)) + One(InQueue(c)) + One(HasConn(c)) + Cardinality(Callers(c))
<1> DEFINE A == {<<"table", s>> : s \in {x \in Sides : c \in Tabled(x)}}
           B == UNION {{<<"queue", s, i>> : i \in {j \in DOMAIN queue[s] : queue[s][j] = c}} : s \in Sides}
           C == {<<"conn">> : x \in {y \in {c} : chan[y].conn \in {"open", "closed"}}}
           D == {<<"call", t>> : t \in Callers(c)}
<1>0. /\ c # 0 /\ chan[c].side \in Sides /\ \A r \in Sides, d \in Dlcis : table[r][d] = c => chan[c].side = r
      /\ \A r \in Sides : \A i \in DOMAIN queue[r] : queue[r][i] = c => chan[c].side = r
      /\ \A r \in Sides : \A i, j \in DOMAIN queue[r] : queue[r][i] = queue[r][j] => i = j
  <2>1. Types /\ Listed /\ Queued
    BY DEF CmuxInv
  <2>2. c # 0 /\ chan[c].side \in Sides
    BY <2>1, ChannelsAre DEF ChannelType
  <2>3. \A r \in Sides, d \in Dlcis : table[r][d] = c => chan[c].side = r
    BY <2>1, <2>2 DEF Listed
  <2>4. \A r \in Sides : \A i \in DOMAIN queue[r] : queue[r][i] = c => chan[c].side = r
    BY <2>1 DEF Queued
  <2>5. \A r \in Sides : \A i, j \in DOMAIN queue[r] : queue[r][i] = queue[r][j] => i = j
    BY <2>1 DEF Queued
  <2> QED BY <2>2, <2>3, <2>4, <2>5
<1>1. IsFiniteSet(A) /\ Cardinality(A) = One(InTable(c))
  <2>1. CASE InTable(c)
    <3>1. A = {<<"table", chan[c].side>>}
      <4>1. \A x \in Sides : c \in Tabled(x) <=> x = chan[c].side
        BY <1>0, <2>1 DEF InTable, Tabled
      <4> QED BY <1>0, <4>1
    <3>2. One(InTable(c)) = 1
      BY <2>1 DEF One
    <3> HIDE DEF A
    <3>3. IsFiniteSet(A) /\ Cardinality(A) = 1
      BY <3>1, FS_Singleton, Zenon
    <3> QED BY <3>2, <3>3
  <2>2. CASE ~InTable(c)
    <3>1. A = {}
      BY <2>2 DEF InTable, Tabled
    <3>2. One(InTable(c)) = 0
      BY <2>2 DEF One
    <3> HIDE DEF A
    <3>3. IsFiniteSet(A) /\ Cardinality(A) = 0
      BY <3>1, FS_EmptySet, Zenon
    <3> QED BY <3>2, <3>3
  <2> QED BY <2>1, <2>2
<1>2. IsFiniteSet(B) /\ Cardinality(B) = One(InQueue(c))
  <2>1. CASE InQueue(c)
    <3>1. PICK s \in Sides : \E i \in DOMAIN queue[s] : queue[s][i] = c
      BY <2>1 DEF InQueue
    <3>2. PICK i \in DOMAIN queue[s] : queue[s][i] = c
      BY <3>1
    <3>3. B = {<<"queue", s, i>>}
      <4>1. \A r \in Sides : \A j \in DOMAIN queue[r] : queue[r][j] = c <=> r = s /\ j = i
        BY <1>0, <3>2
      <4>2. {j \in DOMAIN queue[s] : queue[s][j] = c} = {i}
        BY <3>2, <4>1
      <4>3. \A r \in Sides \ {s} : {j \in DOMAIN queue[r] : queue[r][j] = c} = {}
        BY <4>1
      <4>4. \A x : x \in B <=> \E r \in Sides : \E j \in {k \in DOMAIN queue[r] : queue[r][k] = c} : x = <<"queue", r, j>>
        OBVIOUS
      <4>5. \A x : x \in B <=> x = <<"queue", s, i>>
        <5> HIDE DEF B
        <5> QED BY <4>2, <4>3, <4>4
      <4> HIDE DEF B
      <4> QED BY <4>5
    <3>4. One(InQueue(c)) = 1
      BY <2>1 DEF One
    <3> HIDE DEF B
    <3>5. IsFiniteSet(B) /\ Cardinality(B) = 1
      BY <3>3, FS_Singleton, Zenon
    <3> QED BY <3>4, <3>5
  <2>2. CASE ~InQueue(c)
    <3>1. B = {}
      <4>1. \A r \in Sides : {j \in DOMAIN queue[r] : queue[r][j] = c} = {}
        BY <2>2 DEF InQueue
      <4> QED BY <4>1
    <3>2. One(InQueue(c)) = 0
      BY <2>2 DEF One
    <3> HIDE DEF B
    <3>3. IsFiniteSet(B) /\ Cardinality(B) = 0
      BY <3>1, FS_EmptySet, Zenon
    <3> QED BY <3>2, <3>3
  <2> QED BY <2>1, <2>2
<1>3. IsFiniteSet(C) /\ Cardinality(C) = One(HasConn(c))
  <2>1. CASE HasConn(c)
    <3>1. C = {<<"conn">>}
      BY <2>1 DEF HasConn
    <3>2. One(HasConn(c)) = 1
      BY <2>1 DEF One
    <3> HIDE DEF C
    <3>3. IsFiniteSet(C) /\ Cardinality(C) = 1
      BY <3>1, FS_Singleton, Zenon
    <3> QED BY <3>2, <3>3
  <2>2. CASE ~HasConn(c)
    <3>1. C = {}
      BY <2>2 DEF HasConn
    <3>2. One(HasConn(c)) = 0
      BY <2>2 DEF One
    <3> HIDE DEF C
    <3>3. IsFiniteSet(C) /\ Cardinality(C) = 0
      BY <3>1, FS_EmptySet, Zenon
    <3> QED BY <3>2, <3>3
  <2> QED BY <2>1, <2>2
<1>4. IsFiniteSet(D) /\ Cardinality(D) = Cardinality(Callers(c)) /\ Cardinality(D) \in Nat
  <2>1. IsFiniteSet(Callers(c))
    BY CmuxAssumption, FS_Subset DEF Callers
  <2> DEFINE f == [t \in Callers(c) |-> <<"call", t>>]
  <2>2. f \in Bijection(Callers(c), D)
    BY DEF Bijection, Injection, Surjection, IsInjective
  <2>3. ExistsBijection(Callers(c), D)
    BY <2>2 DEF ExistsBijection
  <2> HIDE DEF D
  <2> QED BY <2>1, <2>3, FS_Bijection, FS_CardinalityType
<1>5. Holders(c) = ((A \cup B) \cup C) \cup D
  <2>1. Callers(c) = {x \in Clients :
            /\ work[x].ch = c
            /\ work[x].at \in Retaining
                \/ (work[x].at \in {"close", "disc"} /\ work[x].then = "release")}
    BY DEF Callers, Retains
  <2> HIDE DEF Callers
  <2> QED BY <2>1, Zenon DEF Holders
<1>6. A \cap B = {} /\ (A \cup B) \cap C = {} /\ ((A \cup B) \cup C) \cap D = {}
  <2>1. /\ \A x \in A : x[1] = "table"
        /\ \A x \in B : x[1] = "queue"
        /\ \A x \in C : x[1] = "conn"
        /\ \A x \in D : x[1] = "call"
    OBVIOUS
  <2> HIDE DEF A, B, C, D
  <2> QED BY <2>1
<1> HIDE DEF A, B, C, D
<1>7. IsFiniteSet(A \cup B) /\ Cardinality(A \cup B) = One(InTable(c)) + One(InQueue(c))
  <2>1. Cardinality(A \cap B) = 0
    BY <1>6, FS_EmptySet, Zenon
  <2> QED BY <1>1, <1>2, <2>1, FS_Union DEF One
<1>8. /\ IsFiniteSet((A \cup B) \cup C)
      /\ Cardinality((A \cup B) \cup C) = One(InTable(c)) + One(InQueue(c)) + One(HasConn(c))
  <2>1. Cardinality((A \cup B) \cap C) = 0
    BY <1>6, FS_EmptySet, Zenon
  <2> QED BY <1>3, <1>7, <2>1, FS_Union DEF One
<1>9. Cardinality(((A \cup B) \cup C) \cup D)
        = One(InTable(c)) + One(InQueue(c)) + One(HasConn(c)) + Cardinality(Callers(c))
  <2>1. Cardinality(((A \cup B) \cup C) \cap D) = 0
    BY <1>6, FS_EmptySet, Zenon
  <2>2. Cardinality((A \cup B) \cup C) \in Nat
    BY <1>8, FS_CardinalityType
  <2>3. Cardinality(((A \cup B) \cup C) \cup D) = Cardinality((A \cup B) \cup C) + Cardinality(D) - 0
    BY <1>4, <1>8, <2>1, FS_Union
  <2>4. Cardinality(((A \cup B) \cup C) \cup D) = Cardinality((A \cup B) \cup C) + Cardinality(Callers(c))
    BY <1>4, <2>2, <2>3
  <2> QED BY <1>8, <2>4
<1> QED BY <1>5, <1>9, Zenon

\* Types: the sequences stay within their bounds, every number stands for a
\* channel that was allocated, and no count of references is negative.
THEOREM TypesHold == Spec => []TypeOK
<1>1. CmuxInv => TypeOK
  BY CmuxTypes
<1> QED BY <1>1, CmuxInvariant, PTL

\* The invariant implies that the counts are exact,
LEMMA CountsExact == ASSUME CmuxInv PROVE RefsExact
BY HoldersCount DEF CmuxInv, Counted, RefsExact

\* The reference count of a channel is the number of its holders, for any number
\* of clients, channels and closings that race: releaseChannel frees a channel
\* when the last of them has let it go, and not before.
THEOREM ReferencesExact == Spec => []RefsExact
<1>1. CmuxInv => RefsExact
  BY CountsExact
<1> QED BY <1>1, CmuxInvariant, PTL

\* that table and queue agree,
LEMMA TablesAgree == ASSUME CmuxInv PROVE TableConsistent
<1> SUFFICES ASSUME NEW s \in Sides, alive[s]
             PROVE  /\ \A c \in Channels : chan[c].side = s =>
                          (chan[c].registered <=> table[s][chan[c].dlci] = c)
                    /\ \A i, j \in DOMAIN queue[s] : queue[s][i] = queue[s][j] => i = j
                    /\ \A i \in DOMAIN queue[s] : chan[queue[s][i]].side = s
  BY DEF TableConsistent
<1>1. ASSUME NEW c \in Channels, chan[c].side = s PROVE chan[c].registered <=> table[s][chan[c].dlci] = c
  <2>1. chan[c].registered \in BOOLEAN /\ chan[c].dlci \in Dlcis /\ c # 0
    BY ChannelsAre DEF CmuxInv, ChannelType
  <2>2. table[s][chan[c].dlci] = c => chan[c].registered
    BY <2>1 DEF CmuxInv, Listed
  <2>3. chan[c].registered => table[s][chan[c].dlci] = c
    BY <1>1 DEF CmuxInv, Listed
  <2> QED BY <2>1, <2>2, <2>3
<1> QED BY <1>1 DEF CmuxInv, Queued

\* Table, `registered` and accept queue agree as long as the session has not
\* been taken down.
THEOREM TableAgrees == Spec => []TableConsistent
<1>1. CmuxInv => TableConsistent
  BY TablesAgree
<1> QED BY <1>1, CmuxInvariant, PTL

\* and that whoever sleeps must wait.
LEMMA SleepersWait == ASSUME CmuxInv PROVE SleepersMustWait
BY DEF CmuxInv, AsleepRight, SleepersMustWait, Offering

\* No broadcast is missing: whoever sleeps on a condition variable would wait
\* again if it looked, or is about to be woken by the worker.
THEOREM NobodyOversleeps == Spec => []SleepersMustWait
<1>1. CmuxInv => SleepersMustWait
  BY SleepersWait
<1> QED BY <1>1, CmuxInvariant, PTL

----------------------------------------------------------------------------
(* Ends are final.                                                          *)

\* From the phase p a channel may go on to q.
Onward(p, q) ==
    /\ p \in Ended => q \in Ended
    /\ p = "closing_local" => q \notin {"opening", "open"}
    /\ p = "open" => q # "opening"
GoOn == \A c \in Channels : Onward(chan[c].phase, chan'[c].phase)

\* A step that leaves the phases alone goes on.
LEMMA StaysOn == ASSUME \A c \in Channels : chan'[c].phase = chan[c].phase PROVE GoOn
BY DEF GoOn, Onward, Ended

\* Only the phase of one channel changes.
LEMMA OnePhase ==
    ASSUME Types, NEW c, NEW p, chan' = [chan EXCEPT ![c].phase = p], c \in Channels => Onward(chan[c].phase, p)
    PROVE  GoOn
<1>1. ASSUME NEW d \in Channels PROVE Onward(chan[d].phase, chan'[d].phase)
  <2>1. chan[d] \in ChannelType /\ d \in DOMAIN chan
    BY ChannelsAre DEF Channels
  <2>2. CASE d = c
    <3>1. chan'[d] = [chan[d] EXCEPT !.phase = p]
      BY <2>1, <2>2
    <3>2. chan'[d].phase = p
      BY <2>1, <3>1 DEF ChannelType
    <3> QED BY <2>2, <3>2
  <2>3. CASE d # c
    <3>1. chan'[d] = chan[d]
      BY <2>1, <2>3
    <3> QED BY <3>1 DEF Onward, Ended
  <2> QED BY <2>2, <2>3
<1> QED BY <1>1 DEF GoOn

\* A step that appends a channel goes on,
LEMMA AppendGoesOn ==
    ASSUME Types, NEW q, chan' = Append(chan, q)
    PROVE  GoOn
<1>1. \A c \in Channels : chan'[c] = chan[c]
  BY DEF Types, Channels
<1> QED BY <1>1, StaysOn

\* so does the beginning of a close,
LEMMA CloseGoesOn == ASSUME Types, NEW s, BeginClose(s) PROVE GoOn
<1>1. ASSUME NEW c \in Channels PROVE Onward(chan[c].phase, chan'[c].phase)
  <2>1. chan'[c] = IF c \in Tabled(s) /\ chan[c].phase \notin Ended THEN [chan[c] EXCEPT !.phase = "closed"] ELSE chan[c]
    BY DEF BeginClose
  <2>2. chan[c] \in ChannelType
    BY ChannelsAre
  <2>3. chan'[c].phase = chan[c].phase \/ (chan[c].phase \notin Ended /\ chan'[c].phase = "closed")
    <3>1. CASE c \in Tabled(s) /\ chan[c].phase \notin Ended
      BY <2>1, <2>2, <3>1 DEF ChannelType
    <3>2. CASE ~(c \in Tabled(s) /\ chan[c].phase \notin Ended)
      BY <2>1, <3>2
    <3> QED BY <3>1, <3>2
  <2> QED BY <2>3 DEF Onward, Ended
<1> QED BY <1>1 DEF GoOn

\* Steps that change anything of a channel but its phase.
LEMMA OneKeepsPhase ==
    ASSUME Types, NEW c, NEW r, chan' = [chan EXCEPT ![c] = r], c \in Channels => r.phase = chan[c].phase
    PROVE  GoOn
<1>1. \A d \in Channels : chan'[d].phase = chan[d].phase
  BY DEF Types, Channels
<1> QED BY <1>1, StaysOn

\* the beginning of a call,
LEMMA StartGoesOn == ASSUME Types, NEW t \in Clients, Start(t) PROVE GoOn
<1>1. CASE chan' = chan
  BY <1>1, StaysOn
<1>2. ASSUME NEW c \in Channels, NEW v, chan' = [chan EXCEPT ![c].conn = v] PROVE GoOn
  <2>1. \A d \in Channels : chan[d] \in ChannelType /\ d \in DOMAIN chan
    BY ChannelsAre DEF Channels
  <2>2. \A d \in Channels : chan'[d].phase = chan[d].phase
    BY <1>2, <2>1 DEF ChannelType
  <2> QED BY <2>2, StaysOn
<1>3. chan' = chan \/ \E c \in Channels, v \in {"closed", "gone"} : chan' = [chan EXCEPT ![c].conn = v]
  BY DEF Start, Dial, Accept, CloseSession, Destroy, Read, Write, Close, Deinit, Conns
<1> QED BY <1>1, <1>2, <1>3

\* a step of a client,
LEMMA StepGoesOn == ASSUME Types, NEW t \in Clients, Step(t) PROVE GoOn
<1> DEFINE c == work[t].ch
<1>0. \A d \in Channels : chan[d] \in ChannelType /\ d \in DOMAIN chan
  BY ChannelsAre DEF Channels
<1>1. CASE chan' = chan
  BY <1>1, StaysOn
<1>2. CASE CloseChannel(t)
  <2>1. CASE Open(c)
    <3>1. chan' = [chan EXCEPT ![c].phase = "closing_local"]
      BY <1>2, <2>1 DEF CloseChannel
    <3>2. Onward(chan[c].phase, "closing_local")
      BY <2>1 DEF Open, Onward, Ended
    <3> QED BY <3>1, <3>2, OnePhase
  <2>2. CASE ~Open(c)
    BY <1>1, <1>2, <2>2 DEF CloseChannel
  <2> QED BY <2>1, <2>2
<1>3. CASE Shutdown(t)
  BY <1>1, <1>3, CloseGoesOn DEF Shutdown
<1>4. CASE DialCreate(t)
  BY <1>4, AppendGoesOn DEF DialCreate
<1>5. CASE Release(t) \/ DialBehind(t) \/ AcceptChannel(t)
  <2>1. \/ chan' = chan
        \/ \E d, k : chan' = [chan EXCEPT ![d].refs = k]
    BY <1>5 DEF Release, DialBehind, AcceptChannel
  <2>2. ASSUME NEW d, NEW k, chan' = [chan EXCEPT ![d].refs = k] PROVE \A e \in Channels : chan'[e].phase = chan[e].phase
    BY <1>0, <2>2 DEF ChannelType
  <2> QED BY SMTT(30), <1>1, <2>1, <2>2, StaysOn
<1>6. CASE DialConn(t) \/ AcceptConn(t)
  <2>1. \/ chan' = chan
        \/ \E d, k, v : chan' = [chan EXCEPT ![d].refs = k, ![d].conn = v]
    BY <1>6 DEF DialConn, AcceptConn
  <2>2. ASSUME NEW d, NEW k, NEW v, chan' = [chan EXCEPT ![d].refs = k, ![d].conn = v]
        PROVE  \A e \in Channels : chan'[e].phase = chan[e].phase
    BY <1>0, <2>2 DEF ChannelType
  <2> QED BY <1>1, <2>1, <2>2, StaysOn
<1>7. CASE ReadChannel(t)
  <2>1. \E d, a, b : chan' = [chan EXCEPT ![d].got = a, ![d].rx = b]
    BY ZenonT(40), <1>7 DEF ReadChannel
  <2>2. ASSUME NEW d, NEW a, NEW b, chan' = [chan EXCEPT ![d].got = a, ![d].rx = b]
        PROVE  \A e \in Channels : chan'[e].phase = chan[e].phase
    BY <1>0, <2>2 DEF ChannelType
  <2> QED BY <2>1, <2>2, StaysOn
<1>8. CASE SendData(t)
  <2>1. \/ chan' = chan
        \/ \E d, k : chan' = [chan EXCEPT ![d].sent = k]
    BY <1>8 DEF SendData
  <2>2. ASSUME NEW d, NEW k, chan' = [chan EXCEPT ![d].sent = k] PROVE \A e \in Channels : chan'[e].phase = chan[e].phase
    BY <1>0, <2>2 DEF ChannelType
  <2> QED BY <1>1, <2>1, <2>2, StaysOn
<1>9. CASE Sweep(t)
  <2>1. \A d \in Channels : chan'[d] = [chan[d] EXCEPT !.refs = @ - RefsFrom(Home(t), d)]
    BY <1>9 DEF Sweep
  <2>2. \A d \in Channels : chan'[d].phase = chan[d].phase
    BY <1>0, <2>1 DEF ChannelType
  <2> QED BY <2>2, StaysOn
<1>10. CASE Sleep(t) \/ HangUp(t) \/ SendDisc(t) \/ SayBye(t) \/ DialReady(t) \/ DialRefused(t) \/ DialAwaited(t)
            \/ DialSabm(t) \/ DialOpened(t) \/ AcceptClosed(t)
  BY <1>1, <1>10 DEF Sleep, HangUp, SendDisc, SayBye, DialReady, DialRefused, DialAwaited, DialSabm, DialOpened, AcceptClosed
<1> HIDE DEF c
<1> QED BY <1>2, <1>3, <1>4, <1>5, <1>6, <1>7, <1>8, <1>9, <1>10 DEF Step, DialStep

\* a step of a worker,
LEMMA WorkGoesOn == ASSUME Types, NEW s \in Sides, Work(s) PROVE GoOn
<1>0. \A d \in Channels : chan[d] \in ChannelType /\ d \in DOMAIN chan /\ chan[d].phase \in Phases
  BY ChannelsAre DEF Channels, ChannelType
<1>1. CASE chan' = chan
  BY <1>1, StaysOn
<1>2. ASSUME NEW c, NEW p \in {"closed", "rejected"}, chan' = [chan EXCEPT ![c].phase = p] PROVE GoOn
  <2>1. Onward(chan[c].phase, p)
    BY <1>2 DEF Onward, Ended
  <2> QED BY <1>2, <2>1, OnePhase
<1>3. CASE HandleOpenRequest(s)
  <2>1. chan' = chan \/ \E q : chan' = Append(chan, q)
    BY <1>3 DEF HandleOpenRequest, Ignore
  <2> QED BY <1>1, <2>1, AppendGoesOn
<1>4. CASE HandleOpenAck(s)
  <2>1. CASE Looked(s) = 0
    BY <1>1, <1>4, <2>1 DEF HandleOpenAck, Ignore
  <2>2. CASE Looked(s) # 0
    <3>1. chan' = [chan EXCEPT ![Looked(s)].phase = Acked(chan[Looked(s)].phase)]
      BY <1>4, <2>2 DEF HandleOpenAck, SetPhase
    <3>2. Onward(chan[Looked(s)].phase, Acked(chan[Looked(s)].phase))
      BY DEF Onward, Acked, Ended
    <3> QED BY <3>1, <3>2, OnePhase
  <2> QED BY <2>1, <2>2
<1>5. CASE HandleDisc(s)
  BY <1>1, <1>2, <1>5 DEF HandleDisc, SetPhase
<1>6. CASE HandleReject(s)
  BY <1>1, <1>2, <1>6 DEF HandleReject, SetPhase, Ignore
<1>7. CASE StoreData(s)
  <2>1. chan' = chan \/ \E d, k : chan' = [chan EXCEPT ![d].rx = k]
    BY <1>7 DEF StoreData
  <2>2. ASSUME NEW d, NEW k, chan' = [chan EXCEPT ![d].rx = k] PROVE \A e \in Channels : chan'[e].phase = chan[e].phase
    BY <1>0, <2>2 DEF ChannelType
  <2> QED BY <1>1, <2>1, <2>2, StaysOn
<1>8. CASE Unregister(s)
  <2>1. \E d, b, k : chan' = [chan EXCEPT ![d].registered = b, ![d].refs = k]
    BY <1>8 DEF Unregister
  <2>2. ASSUME NEW d, NEW b, NEW k, chan' = [chan EXCEPT ![d].registered = b, ![d].refs = k]
        PROVE  \A e \in Channels : chan'[e].phase = chan[e].phase
    BY <1>0, <2>2 DEF ChannelType
  <2> QED BY <2>1, <2>2, StaysOn
<1>9. CASE Finish(s)
  BY <1>1, <1>9, CloseGoesOn DEF Finish
<1>10. CASE HandleSessionUp(s) \/ HandleSessionDisc(s) \/ HandleData(s) \/ Reply(s) \/ Offer(s) \/ Fail(s)
            \/ Sleep(s) \/ HangUp(s)
  BY <1>1, <1>10 DEF HandleSessionUp, HandleSessionDisc, HandleData, Reply, Offer, Fail, Sleep, HangUp
<1> QED BY <1>3, <1>4, <1>5, <1>6, <1>7, <1>8, <1>9, <1>10 DEF Work

\* and so every step.
LEMMA NextGoesOn == ASSUME Types, [Next]_vars PROVE GoOn
<1>1. ASSUME NEW t \in Clients, Start(t) \/ Step(t) PROVE GoOn
  BY <1>1, StartGoesOn, StepGoesOn
<1>2. ASSUME NEW s \in Sides, Work(s) PROVE GoOn
  BY <1>2, WorkGoesOn
<1>3. ASSUME NEW t \in Threads, WakeSpuriously(t) PROVE GoOn
  BY <1>3, StaysOn DEF WakeSpuriously
<1>4. CASE UNCHANGED vars
  BY <1>4, StaysOn DEF vars
<1> QED BY <1>1, <1>2, <1>3, <1>4 DEF Next

\* A closed session has no channel that has not ended.
LEMMA ClosedStays == ASSUME CmuxInv PROVE ClosedIsFinal
BY DEF CmuxInv, LiveListed, ClosedIsFinal

\* No frame that is still on its way and no dial that races with a close brings
\* a channel back that has ended or is closing, and a session that is closed
\* has no channel that is open.
THEOREM EndsStayFinal == Spec => EndsAreFinal
<1>1. ASSUME CmuxInv, [Next]_vars
      PROVE  [/\ ClosedIsFinal'
              /\ \A c \in Channels :
                   /\ chan[c].phase \in Ended => chan'[c].phase \in Ended
                   /\ chan[c].phase = "closing_local" => chan'[c].phase \notin {"opening", "open"}
                   /\ chan[c].phase = "open" => chan'[c].phase # "opening"]_vars
  <2>1. GoOn
    BY <1>1, NextGoesOn DEF CmuxInv
  <2>2. CmuxInv'
    BY <1>1, CmuxStep
  <2>3. ClosedIsFinal'
    BY <2>2 DEF CmuxInv, LiveListed, ClosedIsFinal
  <2> QED BY <2>1, <2>3 DEF GoOn, Onward
<1> QED BY <1>1, CmuxInvariant, PTL DEF Spec, EndsAreFinal
----------------------------------------------------------------------------
(* The streams. What is written, what is under way and what has arrived,    *)
(* and the frame between the bearer and the buffer in the worker's hand.    *)
Owned(s, f) ==
    /\ f.tag[1] \in Channels /\ chan[f.tag[1]].side = s /\ chan[f.tag[1]].dlci = f.dlci
    /\ f.tag[2] \in 1..chan[f.tag[1]].sent

\* A bearer that is shut, or about to be, is that of a session that is closed.
Shuts == \A s \in Sides : shut[s] \/ work[s].at = "hangup" => closed[s]

\* The channel of the frame in hand stays in the table.
HandPlaced == \A s \in Sides : work[s].at = "rx" => table[s][work[s].frame.dlci] = work[s].ch

\* Data under way was written by a channel of its number.
LineOwned ==
    \A s \in Sides :
        /\ \A i \in Data(s) : Owned(s, wire[s][i])
        /\ work[Peer(s)].at = "rx" => Owned(s, work[Peer(s)].frame)

\* Until the reader's side has closed the bearer, what was written after
\* something that is under way is under way too.
LineWhole ==
    \A s \in Sides : ~shut[Peer(s)] =>
        \A x \in Underway(s) : \A n \in x[2]..chan[x[1]].sent : <<x[1], n>> \in Underway(s)

\* What has arrived comes before what is under way, and nothing arrives before a
\* channel is open.
Ahead(c) == \A x \in Arrived(c) : \A y \in Underway(Peer(chan[c].side)) : Before(x, y)
NotYet(c) == chan[c].phase = "opening" => Stream(c) = <<>>

StreamInv ==
    /\ Shuts /\ HandPlaced /\ LineOwned /\ LineWhole
    /\ \A s \in Sides : SentInOrder(s)
    /\ \A c \in Channels : /\ WrittenByPartner(c) /\ ArrivedInRuns(c) /\ Ahead(c) /\ NotYet(c)
                           /\ chan[c].phase = "open" => RestUnderway(c)

\* Whoever wrote it, a channel that is open belongs to a session that has not
\* closed its bearer, and its number leads to it.
LEMMA OpenIsListed ==
    ASSUME CmuxInv, Shuts, NEW c \in Channels, chan[c].phase = "open"
    PROVE  /\ ~closed[chan[c].side] /\ ~shut[chan[c].side]
           /\ table[chan[c].side][chan[c].dlci] = c
<1>1. chan[c].side \in Sides /\ chan[c].phase \notin Ended
  BY ChannelsAre DEF CmuxInv, ChannelType, Ended
<1> QED BY <1>1 DEF CmuxInv, LiveListed, Shuts

\* The peer of the peer is the side itself.
LEMMA PeersAre == \A s \in Sides : Peer(s) \in Sides /\ Peer(Peer(s)) = s /\ Peer(s) # s
<1>1. \A s, p, q \in Sides : p # s /\ q # p => q = s
  BY DEF Sides
<1> QED BY <1>1, SidesOf

\* A step that moves no data: the streams stay, and the bearer loses data only
\* when the session that reads it is closed.
KeepsData ==
    /\ \A c \in Channels :
        /\ c \in Channels' /\ chan'[c].side = chan[c].side /\ chan'[c].dlci = chan[c].dlci
        /\ chan'[c].sent = chan[c].sent /\ Stream(c)' = Stream(c)
    /\ \A c \in Channels' \ Channels : Stream(c)' = <<>>
KeepsHand ==
    \A s \in Sides :
        /\ work'[s].at = "rx" <=> work[s].at = "rx"
        /\ work[s].at = "rx" => /\ work'[s].frame = work[s].frame /\ work'[s].ch = work[s].ch
                                /\ table'[s][work[s].frame.dlci] = table[s][work[s].frame.dlci]
KeepsWire ==
    \A s \in Sides :
        /\ \E k \in {0, 1} : \A i \in Data(s)' : i + k \in Data(s) /\ wire'[s][i] = wire[s][i + k]
        /\ OnWire(s) \subseteq OnWire(s)' \/ (shut'[Peer(s)] /\ closed[Peer(s)])
        /\ shut[s] => shut'[s]
Quiet == KeepsData /\ KeepsHand /\ KeepsWire /\ Shuts'

\* Such a step keeps the streams' invariant.
LEMMA QuietKeeps ==
    ASSUME CmuxInv, CmuxInv', StreamInv, GoOn, Quiet
    PROVE  StreamInv'
<1>0. Types /\ Types' /\ \A s \in Sides : Peer(s) \in Sides /\ Peer(Peer(s)) = s
  BY PeersAre DEF CmuxInv
<1>1. ASSUME NEW s \in Sides PROVE InHand(s)' = InHand(s)
  BY <1>0, <1>1 DEF InHand, Quiet, KeepsHand, Peer
<1>2. ASSUME NEW s \in Sides
      PROVE  \E k \in {0, 1} : \A i \in Data(s)' : i + k \in Data(s) /\ wire'[s][i] = wire[s][i + k]
  BY <1>2 DEF Quiet, KeepsWire
<1>3. ASSUME NEW s \in Sides
      PROVE  /\ OnWire(s)' \subseteq OnWire(s) /\ Underway(s)' \subseteq Underway(s)
             /\ Underway(s) \subseteq Underway(s)' \/ (shut'[Peer(s)] /\ closed[Peer(s)])
  <2>1. OnWire(s)' \subseteq OnWire(s)
    BY <1>2, <1>3 DEF OnWire
  <2>2. OnWire(s) \subseteq OnWire(s)' \/ (shut'[Peer(s)] /\ closed[Peer(s)])
    BY <1>3 DEF Quiet, KeepsWire
  <2> QED BY <1>1, <1>3, <2>1, <2>2 DEF Underway
<1>4. \A c \in Channels : /\ c \in Channels' /\ chan'[c].side = chan[c].side /\ chan'[c].dlci = chan[c].dlci
                           /\ chan'[c].sent = chan[c].sent /\ Stream(c)' = Stream(c) /\ chan[c].side \in Sides
  BY ChannelsAre DEF Quiet, KeepsData, CmuxInv, ChannelType
<1>5. \A c \in Channels : Arrived(c)' = Arrived(c)
  BY <1>4 DEF Arrived
<1>6. \A c \in Channels' \ Channels : Stream(c)' = <<>> /\ Arrived(c)' = {}
  BY DEF Quiet, KeepsData, Arrived
<1>7. Shuts'
  BY DEF Quiet
<1>8. HandPlaced'
  BY DEF Quiet, KeepsHand, StreamInv, HandPlaced
<1>9. LineOwned'
  <2>2. ASSUME NEW s \in Sides, NEW i \in Data(s)' PROVE Owned(s, wire[s][i])'
    <3>1. PICK k \in {0, 1} : i + k \in Data(s) /\ wire'[s][i] = wire[s][i + k]
      BY <1>2, <2>2
    <3>2. Owned(s, wire[s][i + k])
      BY <2>2, <3>1 DEF StreamInv, LineOwned
    <3> QED BY <1>4, <3>1, <3>2 DEF Owned
  <2>3. ASSUME NEW s \in Sides, work'[Peer(s)].at = "rx" PROVE Owned(s, work[Peer(s)].frame)'
    <3>1. work[Peer(s)].at = "rx" /\ work'[Peer(s)].frame = work[Peer(s)].frame
      BY <1>0, <2>3 DEF Quiet, KeepsHand
    <3>2. Owned(s, work[Peer(s)].frame)
      BY <2>3, <3>1 DEF StreamInv, LineOwned
    <3> QED BY <1>4, <3>1, <3>2 DEF Owned, Peer
  <2> QED BY <2>2, <2>3 DEF LineOwned, Peer
<1>10. ASSUME NEW s \in Sides, NEW x \in Underway(s) PROVE x[1] \in Channels /\ chan[x[1]].side = s
  <2>1. CASE x \in OnWire(s)
    BY <1>10, <2>1 DEF OnWire, StreamInv, LineOwned, Owned
  <2>2. CASE x \in InHand(s)
    BY <1>10, <2>2 DEF InHand, StreamInv, LineOwned, Owned
  <2> QED BY <1>10, <2>1, <2>2 DEF Underway
<1>11. LineWhole'
  <2> SUFFICES ASSUME NEW s \in Sides, ~shut'[Peer(s)], NEW x \in Underway(s)', NEW n \in x[2]..chan'[x[1]].sent
               PROVE  <<x[1], n>> \in Underway(s)'
    BY DEF LineWhole, Peer
  <2>1. ~shut[Peer(s)] /\ x \in Underway(s) /\ chan'[x[1]].sent = chan[x[1]].sent
    BY <1>0, <1>3, <1>4, <1>10 DEF Quiet, KeepsWire
  <2>2. <<x[1], n>> \in Underway(s)
    BY <2>1 DEF StreamInv, LineWhole
  <2> QED BY <1>3, <2>2
<1>12. ASSUME NEW s \in Sides PROVE SentInOrder(s)'
  <2>1. SentInOrder(s)
    BY <1>12 DEF StreamInv
  <2>2. ASSUME NEW i \in Data(s)', NEW j \in Data(s)', i < j
        PROVE  Before(wire'[s][i].tag, wire'[s][j].tag)
    <3>1. PICK k \in {0, 1} : \A h \in Data(s)' : h + k \in Data(s) /\ wire'[s][h] = wire[s][h + k]
      BY <1>2, <1>12
    <3>2. i \in Nat /\ j \in Nat
      BY <1>0, <1>12, <2>2 DEF Data, Types
    <3>3. i + k < j + k
      BY <2>2, <3>2
    <3> QED BY <2>1, <2>2, <3>1, <3>3 DEF SentInOrder
  <2>3. \A x \in InHand(s)', y \in OnWire(s)' : Before(x, y)
    BY <1>1, <1>3, <1>12, <2>1 DEF SentInOrder
  <2> QED BY <2>2, <2>3 DEF SentInOrder
<1>13. ASSUME NEW c \in Channels'
       PROVE  /\ WrittenByPartner(c)' /\ ArrivedInRuns(c)' /\ Ahead(c)' /\ NotYet(c)'
              /\ chan'[c].phase = "open" => RestUnderway(c)'
  <2>1. CASE c \notin Channels
    BY <1>6, <1>13, <2>1 DEF WrittenByPartner, ArrivedInRuns, Ahead, NotYet, RestUnderway
  <2>2. CASE c \in Channels
    <3>1. WrittenByPartner(c) /\ ArrivedInRuns(c) /\ Ahead(c) /\ NotYet(c) /\ (chan[c].phase = "open" => RestUnderway(c))
      BY <2>2 DEF StreamInv
    <3>2. /\ Arrived(c)' = Arrived(c) /\ Stream(c)' = Stream(c) /\ chan'[c].side = chan[c].side
          /\ chan'[c].dlci = chan[c].dlci /\ chan[c].side \in Sides
      BY <1>4, <1>5, <2>2
    <3>3. \A x \in Arrived(c) : /\ x[1] \in Channels /\ x[1] \in Channels' /\ chan'[x[1]].side = chan[x[1]].side
                                /\ chan'[x[1]].dlci = chan[x[1]].dlci /\ chan'[x[1]].sent = chan[x[1]].sent
      BY <1>4, <3>1 DEF WrittenByPartner
    <3>4. WrittenByPartner(c)'
      BY <3>1, <3>2, <3>3 DEF WrittenByPartner, Peer
    <3>5. ArrivedInRuns(c)'
      BY <3>1, <3>2 DEF ArrivedInRuns
    <3>6. PICK far \in Sides : far = Peer(chan[c].side) /\ far = Peer(chan'[c].side) /\ Peer(far) = chan[c].side
      BY <1>0, <3>2
    <3>7. Underway(far)' \subseteq Underway(far)
      BY <1>3, <3>6
    <3>8. Ahead(c)'
      BY <3>1, <3>2, <3>6, <3>7 DEF Ahead, Peer
    <3>9. NotYet(c)'
      <4>1. chan[c].phase \in Phases
        BY <2>2, ChannelsAre DEF CmuxInv, ChannelType
      <4>2. chan'[c].phase = "opening" => chan[c].phase = "opening"
        BY <2>2, <4>1 DEF GoOn, Onward, Ended, Phases
      <4> QED BY <3>1, <3>2, <4>2 DEF NotYet
    <3>10. ASSUME chan'[c].phase = "open" PROVE RestUnderway(c)'
      <4>1. CASE chan[c].phase # "open"
        <5>1. chan[c].phase \in Phases
          BY <2>2, ChannelsAre DEF CmuxInv, ChannelType
        <5>2. chan[c].phase = "opening"
          BY <2>2, <3>10, <4>1, <5>1 DEF GoOn, Onward, Ended, Phases
        <5>3. Stream(c)' = <<>>
          BY <3>1, <3>2, <5>2 DEF NotYet
        <5> QED BY <5>3 DEF RestUnderway, Arrived
      <4>2. CASE chan[c].phase = "open"
        <5>0. ~closed[chan[c].side]
          BY <2>2, <4>2, OpenIsListed DEF StreamInv
        <5>1. ~closed[Peer(far)] /\ RestUnderway(c)
          BY <3>1, <3>6, <4>2, <5>0
        <5>2. Underway(far)' = Underway(far)
          BY <1>3, <3>6, <5>1
        <5>3. ASSUME NEW x \in Arrived(c) PROVE \A n \in x[2]..chan[x[1]].sent : <<x[1], n>> \in Arrived(c) \cup Underway(far)
          BY <3>6, <5>1, <5>3 DEF RestUnderway
        <5>4. ASSUME NEW x \in Arrived(c), NEW y \in Underway(far) PROVE Before(x, y)
          BY <3>6, <5>1, <5>4 DEF RestUnderway
        <5>5. ASSUME NEW x \in Arrived(c)'
              PROVE  /\ \A y \in Underway(far)' : Before(x, y)
                     /\ \A n \in x[2]..chan'[x[1]].sent : <<x[1], n>> \in Arrived(c)' \cup Underway(far)'
          BY <3>2, <3>3, <5>2, <5>3, <5>4, <5>5
        <5> QED BY <3>6, <5>5 DEF RestUnderway, Peer
      <4> QED BY <4>1, <4>2
    <3> QED BY <3>4, <3>5, <3>8, <3>9, <3>10
  <2> QED BY <2>1, <2>2
<1> QED BY <1>7, <1>8, <1>9, <1>11, <1>12, <1>13 DEF StreamInv

\* The streams stay with the fields they are made of; a new channel has none.
LEMMA FieldsKeep ==
    ASSUME \A c \in Channels : /\ c \in Channels' /\ chan'[c].side = chan[c].side /\ chan'[c].dlci = chan[c].dlci
                               /\ chan'[c].sent = chan[c].sent /\ chan'[c].rx = chan[c].rx /\ chan'[c].got = chan[c].got,
           \A c \in Channels' \ Channels : chan'[c].rx = <<>> /\ chan'[c].got = <<>>
    PROVE  KeepsData
<1>1. <<>> \o <<>> = <<>>
  OBVIOUS
<1> QED BY <1>1 DEF KeepsData, Stream

\* Nothing changes in the channels,
LEMMA SameChannels == ASSUME chan' = chan PROVE KeepsData
BY FieldsKeep DEF Channels

\* or a channel is added.
LEMMA NewStream ==
    ASSUME Types, NEW s, NEW d, NEW phase, NEW n, NEW from, chan' = Append(chan, NewChannel(s, d, phase, n, from))
    PROVE  KeepsData
<1> DEFINE q == NewChannel(s, d, phase, n, from)
<1>1. q.rx = <<>> /\ q.got = <<>>
  BY DEF NewChannel
<1> HIDE DEF q
<1>2. /\ Channels = 1..Len(chan) /\ Len(chan) \in Nat
      /\ Channels' = 1..(Len(chan) + 1) /\ chan'[Len(chan) + 1] = q
      /\ \A c \in Channels : c \in Channels' /\ chan'[c] = chan[c]
  BY DEF Types, Channels, q
<1> QED BY <1>1, <1>2, FieldsKeep

\* The bearer keeps its data when nothing is sent or read,
LEMMA SameWire == ASSUME Types, UNCHANGED <<wire, shut>> PROVE KeepsWire
<1>1. wire' = wire /\ shut' = shut /\ \A s \in Sides : DOMAIN wire[s] \subseteq Int
  BY DEF Types
<1>2. \A s \in Sides : Data(s)' = Data(s) /\ OnWire(s)' = OnWire(s) /\ \A i \in Data(s) : i + 0 = i
  BY <1>1 DEF Data, OnWire
<1> QED BY <1>1, <1>2 DEF KeepsWire

\* when a frame without data is sent,
LEMMA SentWire ==
    ASSUME Types, NEW s \in Sides, NEW f, f.type # "uih", NEW ok, Sends(s, f, ok)
    PROVE  KeepsWire /\ shut' = shut
<1>1. shut' = shut
  BY DEF Sends
<1>2. CASE wire' = wire
  BY <1>1, <1>2, SameWire
<1>3. CASE wire' = [wire EXCEPT ![s] = Append(@, f)]
  <2>1. wire[s] \in Seq(Frames) /\ wire'[s] = Append(wire[s], f) /\ \A r \in Sides \ {s} : wire'[r] = wire[r]
    BY <1>3 DEF Types
  <2>2. /\ DOMAIN wire[s] \subseteq DOMAIN wire'[s] /\ \A i \in DOMAIN wire[s] : wire'[s][i] = wire[s][i]
        /\ \A i \in DOMAIN wire'[s] : i \in DOMAIN wire[s] \/ wire'[s][i] = f
    BY <2>1
  <2>3. Data(s)' = Data(s) /\ \A i \in Data(s) : wire'[s][i] = wire[s][i]
    BY <2>2 DEF Data
  <2>4. \A r \in Sides : Data(r)' = Data(r) /\ \A i \in Data(r) : wire'[r][i] = wire[r][i]
    BY <2>1, <2>3 DEF Data
  <2>5. \A r \in Sides : OnWire(r)' = OnWire(r) /\ \A i \in Data(r) : i + 0 = i
    BY <2>4 DEF OnWire, Data, Types
  <2> QED BY <1>1, <2>4, <2>5 DEF KeepsWire
<1> QED BY <1>1, <1>2, <1>3 DEF Sends

\* What is left of a sequence without its first element.
LEMMA TailIs ==
    ASSUME NEW T, NEW q \in Seq(T), q # <<>>
    PROVE  /\ Tail(q) \in Seq(T) /\ Head(q) = q[1] /\ 1 \in DOMAIN q
           /\ \A i \in DOMAIN Tail(q) : i \in Nat /\ i + 1 \in DOMAIN q /\ Tail(q)[i] = q[i + 1]
           /\ \A i \in DOMAIN q : i # 1 => i - 1 \in DOMAIN Tail(q) /\ Tail(q)[i - 1] = q[i]
OBVIOUS

\* and when one is read.
LEMMA ReadWire ==
    ASSUME Types, NEW s \in Sides, NEW type, type # "uih", NEW control, Receive(s, type, control)
    PROVE  KeepsWire /\ shut' = shut
<1>1. PICK p \in Sides : p = Peer(s)
  BY SidesOf
<1>2. /\ shut' = shut /\ wire[p] \in Seq(Frames) /\ wire[p] # <<>> /\ Head(wire[p]).type = type
      /\ wire' = [wire EXCEPT ![p] = Tail(wire[p])]
  BY <1>1 DEF Receive, Types
<1>3. wire'[p] = Tail(wire[p]) /\ \A r \in Sides \ {p} : wire'[r] = wire[r]
  BY <1>2 DEF Types
<1>4. /\ \A i \in DOMAIN wire'[p] : i + 1 \in DOMAIN wire[p] /\ wire'[p][i] = wire[p][i + 1]
      /\ \A i \in DOMAIN wire[p] : i # 1 => i - 1 \in DOMAIN wire'[p] /\ wire'[p][i - 1] = wire[p][i]
      /\ wire[p][1].type # "uih"
  <2>1. /\ Head(wire[p]) = wire[p][1]
        /\ \A i \in DOMAIN Tail(wire[p]) : i + 1 \in DOMAIN wire[p] /\ Tail(wire[p])[i] = wire[p][i + 1]
        /\ \A i \in DOMAIN wire[p] : i # 1 => i - 1 \in DOMAIN Tail(wire[p]) /\ Tail(wire[p])[i - 1] = wire[p][i]
    BY ONLY <1>2, TailIs
  <2>2. Head(wire[p]).type # "uih"
    BY <1>2
  <2> QED BY <1>3, <2>1, <2>2
<1>5. \A i \in Data(p)' : i + 1 \in Data(p) /\ wire'[p][i] = wire[p][i + 1]
  BY <1>4 DEF Data
<1>6. OnWire(p) \subseteq OnWire(p)'
  <2>1. ASSUME NEW i \in Data(p) PROVE \E j \in Data(p)' : wire'[p][j] = wire[p][i]
    <3>1. i \in DOMAIN wire[p] /\ wire[p][i].type = "uih"
      BY <2>1 DEF Data
    <3>2. i - 1 \in DOMAIN wire'[p] /\ wire'[p][i - 1] = wire[p][i]
      BY <1>4, <3>1
    <3>3. i - 1 \in Data(p)'
      BY <3>1, <3>2 DEF Data
    <3> QED BY <3>2, <3>3
  <2> QED BY <2>1 DEF OnWire
<1>7. ASSUME NEW r \in Sides \ {p}
      PROVE  OnWire(r)' = OnWire(r) /\ \A i \in Data(r)' : i + 0 \in Data(r) /\ wire'[r][i] = wire[r][i + 0]
  <2>1. wire'[r] = wire[r] /\ DOMAIN wire[r] \subseteq Int
    BY <1>3, <1>7 DEF Types
  <2> QED BY <2>1 DEF OnWire, Data
<1>8. ASSUME NEW r \in Sides
      PROVE  \E k \in {0, 1} : \A i \in Data(r)' : i + k \in Data(r) /\ wire'[r][i] = wire[r][i + k]
  BY <1>5, <1>7
<1>9. ASSUME NEW r \in Sides PROVE OnWire(r) \subseteq OnWire(r)'
  BY <1>6, <1>7
<1>10. KeepsWire
  BY <1>2, <1>8, <1>9 DEF KeepsWire
<1> QED BY <1>2, <1>10

\* A session that is closed loses what its peer has sent when it hangs up.
LEMMA LostWire ==
    ASSUME Types, NEW t \in Threads, HangUp(t), closed[Home(t)]
    PROVE  KeepsWire /\ \A s \in Sides : shut'[s] => shut[s] \/ closed[s]
<1>1. PICK s, p \in Sides : s = Home(t) /\ p = Peer(s) /\ Peer(p) = s
  BY SidesOf, PeersAre
<1>2. /\ shut' = [shut EXCEPT ![s] = TRUE] /\ wire' = [wire EXCEPT ![p] = <<>>]
  BY <1>1 DEF HangUp
<1>3. /\ wire'[p] = <<>> /\ \A r \in Sides \ {p} : wire'[r] = wire[r]
      /\ shut'[s] /\ \A r \in Sides : shut[r] => shut'[r]
      /\ \A r \in Sides : shut'[r] => shut[r] \/ r = s
  BY <1>2 DEF Types
<1>4. Data(p)' = {}
  BY <1>3 DEF Data
<1>5. \A r \in Sides \ {p} : Data(r)' = Data(r) /\ OnWire(r)' = OnWire(r) /\ \A i \in Data(r) : i + 0 = i /\ wire'[r][i] = wire[r][i]
  BY <1>3 DEF Data, OnWire, Types
<1> QED BY <1>1, <1>3, <1>4, <1>5 DEF KeepsWire

\* A client's step that keeps the streams and the bearer is quiet,
LEMMA ClientQuiet ==
    ASSUME CmuxInv, StreamInv, NEW t \in Clients, KeepsData, KeepsWire,
           \A u \in Threads \ {t} : work'[u] = work[u],
           \A s \in Sides : closed[s] => closed'[s],
           \A s \in Sides : shut'[s] => shut[s] \/ closed[s],
           \A s \in Sides, d \in Dlcis : work[s].at = "rx" /\ table[s][d] # 0 => table'[s][d] = table[s][d]
    PROVE  Quiet
<1>1. \A s \in Sides : work'[s] = work[s]
  BY SidesOf
<1>2. ASSUME NEW s \in Sides, work[s].at = "rx"
      PROVE  work[s].frame.dlci \in Dlcis /\ table[s][work[s].frame.dlci] # 0
  <2>1. work[s].frame \in Frames /\ work[s].frame.type = "uih" /\ work[s].ch \in Channels
    BY <1>2, WorkerAt
  <2>2. table[s][work[s].frame.dlci] = work[s].ch /\ 0 \notin Channels
    BY <1>2, ChannelsAre DEF StreamInv, HandPlaced, CmuxInv
  <2> QED BY <2>1, <2>2 DEF Frames, Answers, Types4
<1>3. KeepsHand
  BY <1>1, <1>2 DEF KeepsHand
<1>4. Shuts'
  BY <1>1 DEF Shuts, StreamInv
<1> QED BY <1>3, <1>4 DEF Quiet

\* and so is a worker's that takes no data up or down.
LEMMA WorkerQuiet ==
    ASSUME CmuxInv, StreamInv, NEW s \in Sides, KeepsData, KeepsWire,
           \A u \in Threads \ {s} : work'[u] = work[u],
           work[s].at # "rx", work'[s].at # "rx", work'[s].at = "hangup" => closed'[s],
           \A r \in Sides : closed[r] => closed'[r],
           \A r \in Sides : shut'[r] => shut[r] \/ closed[r],
           \A r \in Sides \ {s} : table'[r] = table[r]
    PROVE  Quiet
<1>1. \A r \in Sides \ {s} : work'[r] = work[r]
  BY SidesOf
<1>2. KeepsHand
  BY <1>1 DEF KeepsHand
<1>3. Shuts'
  BY <1>1 DEF Shuts, StreamInv
<1> QED BY <1>2, <1>3 DEF Quiet
----------------------------------------------------------------------------
(* Which steps are quiet.                                                   *)

\* The fields that no stream is made of.
LEMMA OtherFields ==
    ASSUME Types, NEW d, NEW k
    PROVE  /\ chan' = [chan EXCEPT ![d].refs = k] => KeepsData
           /\ chan' = [chan EXCEPT ![d].phase = k] => KeepsData
           /\ chan' = [chan EXCEPT ![d].conn = k] => KeepsData
           /\ \A m : chan' = [chan EXCEPT ![d].refs = k, ![d].conn = m] => KeepsData
           /\ \A m : chan' = [chan EXCEPT ![d].registered = k, ![d].refs = m] => KeepsData
<1>0. \A e \in Channels : chan[e] \in ChannelType /\ e \in DOMAIN chan
  BY ChannelsAre DEF Channels
<1>1. ASSUME chan' = [chan EXCEPT ![d].refs = k] PROVE KeepsData
  <2>1. Channels' = Channels /\ \A c \in Channels :
          /\ chan'[c].side = chan[c].side /\ chan'[c].dlci = chan[c].dlci
          /\ chan'[c].sent = chan[c].sent /\ chan'[c].rx = chan[c].rx /\ chan'[c].got = chan[c].got
    BY <1>0, <1>1 DEF ChannelType, Channels
  <2> QED BY <2>1, FieldsKeep
<1>2. ASSUME chan' = [chan EXCEPT ![d].phase = k] PROVE KeepsData
  <2>1. Channels' = Channels /\ \A c \in Channels :
          /\ chan'[c].side = chan[c].side /\ chan'[c].dlci = chan[c].dlci
          /\ chan'[c].sent = chan[c].sent /\ chan'[c].rx = chan[c].rx /\ chan'[c].got = chan[c].got
    BY <1>0, <1>2 DEF ChannelType, Channels
  <2> QED BY <2>1, FieldsKeep
<1>3. ASSUME chan' = [chan EXCEPT ![d].conn = k] PROVE KeepsData
  <2>1. Channels' = Channels /\ \A c \in Channels :
          /\ chan'[c].side = chan[c].side /\ chan'[c].dlci = chan[c].dlci
          /\ chan'[c].sent = chan[c].sent /\ chan'[c].rx = chan[c].rx /\ chan'[c].got = chan[c].got
    BY <1>0, <1>3 DEF ChannelType, Channels
  <2> QED BY <2>1, FieldsKeep
<1>4. ASSUME NEW m, chan' = [chan EXCEPT ![d].refs = k, ![d].conn = m] PROVE KeepsData
  <2>1. Channels' = Channels /\ \A c \in Channels :
          /\ chan'[c].side = chan[c].side /\ chan'[c].dlci = chan[c].dlci
          /\ chan'[c].sent = chan[c].sent /\ chan'[c].rx = chan[c].rx /\ chan'[c].got = chan[c].got
    BY <1>0, <1>4 DEF ChannelType, Channels
  <2> QED BY <2>1, FieldsKeep
<1>5. ASSUME NEW m, chan' = [chan EXCEPT ![d].registered = k, ![d].refs = m] PROVE KeepsData
  <2>1. Channels' = Channels /\ \A c \in Channels :
          /\ chan'[c].side = chan[c].side /\ chan'[c].dlci = chan[c].dlci
          /\ chan'[c].sent = chan[c].sent /\ chan'[c].rx = chan[c].rx /\ chan'[c].got = chan[c].got
    BY <1>0, <1>5 DEF ChannelType, Channels
  <2> QED BY <2>1, FieldsKeep
<1> QED BY <1>1, <1>2, <1>3, <1>4, <1>5

\* So is the phase that the beginning of a close sets.
LEMMA CloseKeepsData == ASSUME Types, NEW s, BeginClose(s) PROVE KeepsData
<1>1. ASSUME NEW c \in Channels
      PROVE  /\ chan'[c].side = chan[c].side /\ chan'[c].dlci = chan[c].dlci
             /\ chan'[c].sent = chan[c].sent /\ chan'[c].rx = chan[c].rx /\ chan'[c].got = chan[c].got
  <2>1. chan'[c] = IF c \in Tabled(s) /\ chan[c].phase \notin Ended THEN [chan[c] EXCEPT !.phase = "closed"] ELSE chan[c]
    BY <1>1 DEF BeginClose
  <2>2. chan[c] \in ChannelType
    BY <1>1, ChannelsAre
  <2> QED BY <2>1, <2>2 DEF ChannelType
<1>2. Channels' = Channels
  <2>1. DOMAIN chan' = Channels
    BY DEF BeginClose
  <2> QED BY <2>1 DEF Channels
<1> QED BY <1>1, <1>2, FieldsKeep

\* Two sequences, one after the other.
LEMMA Joined ==
    ASSUME NEW T, NEW p \in Seq(T), NEW q \in Seq(T)
    PROVE  /\ p \o q \in Seq(T) /\ Len(p \o q) = Len(p) + Len(q) /\ Len(p) \in Nat /\ Len(q) \in Nat
           /\ \A i \in 1..Len(p) : (p \o q)[i] = p[i]
           /\ \A i \in 1..Len(q) : (p \o q)[Len(p) + i] = q[i]
OBVIOUS

\* Equal sequences.
LEMMA SameSeq ==
    ASSUME NEW T, NEW p \in Seq(T), NEW q \in Seq(T), Len(p) = Len(q), \A i \in 1..Len(p) : p[i] = q[i]
    PROVE  p = q
OBVIOUS

\* A read moves data from the buffer to the reader: the stream stays.
LEMMA Moved ==
    ASSUME NEW T, NEW p \in Seq(T), NEW q \in Seq(T), NEW n \in 0..Len(q)
    PROVE  (p \o SubSeq(q, 1, n)) \o SubSeq(q, n + 1, Len(q)) = p \o q
<1>1. PICK a, b : a = SubSeq(q, 1, n) /\ b = SubSeq(q, n + 1, Len(q))
  OBVIOUS
<1>2. /\ a \in Seq(T) /\ Len(a) = n /\ b \in Seq(T) /\ Len(b) = Len(q) - n
      /\ \A i \in 1..n : a[i] = q[i]
      /\ \A i \in 1..(Len(q) - n) : b[i] = q[n + i]
      /\ Len(p) \in Nat /\ Len(q) \in Nat /\ n \in Nat /\ n <= Len(q)
  BY <1>1
<1>t. p \in Seq(T) /\ q \in Seq(T) /\ a \in Seq(T) /\ b \in Seq(T)
  BY <1>2
<1>3. PICK pa, pq, pab : pa = p \o a /\ pq = p \o q /\ pab = pa \o b
  OBVIOUS
<1>4. /\ pa \in Seq(T) /\ Len(pa) = Len(p) + n
      /\ \A i \in 1..Len(p) : pa[i] = p[i]
      /\ \A i \in 1..n : pa[Len(p) + i] = a[i]
  <2>1. /\ p \o a \in Seq(T) /\ Len(p \o a) = Len(p) + Len(a)
        /\ \A i \in 1..Len(p) : (p \o a)[i] = p[i]
        /\ \A i \in 1..Len(a) : (p \o a)[Len(p) + i] = a[i]
    BY ONLY <1>t, Joined, SMT
  <2> QED BY <1>2, <1>3, <2>1
<1>u. pa \in Seq(T)
  BY <1>4
<1>5. /\ pab \in Seq(T) /\ Len(pab) = Len(p) + n + (Len(q) - n)
      /\ \A i \in 1..(Len(p) + n) : pab[i] = pa[i]
      /\ \A i \in 1..(Len(q) - n) : pab[Len(p) + n + i] = b[i]
  <2>1. /\ pa \o b \in Seq(T) /\ Len(pa \o b) = Len(pa) + Len(b)
        /\ \A i \in 1..Len(pa) : (pa \o b)[i] = pa[i]
        /\ \A i \in 1..Len(b) : (pa \o b)[Len(pa) + i] = b[i]
    BY ONLY <1>t, <1>u, Joined, SMT
  <2> QED BY <1>2, <1>3, <1>4, <2>1
<1>6. /\ pq \in Seq(T) /\ Len(pq) = Len(p) + Len(q)
      /\ \A i \in 1..Len(p) : pq[i] = p[i]
      /\ \A i \in 1..Len(q) : pq[Len(p) + i] = q[i]
  BY <1>3, Joined
<1>7. ASSUME NEW i \in 1..(Len(p) + Len(q)) PROVE pab[i] = pq[i]
  <2>1. CASE i <= Len(p)
    BY <1>2, <1>4, <1>5, <1>6, <1>7, <2>1
  <2>2. CASE i > Len(p) /\ i <= Len(p) + n
    <3>1. PICK j \in 1..n : i = Len(p) + j
      <4>1. i - Len(p) \in 1..n /\ i = Len(p) + (i - Len(p))
        BY <1>2, <1>7, <2>2
      <4> QED BY <4>1
    <3>2. pab[i] = a[j] /\ a[j] = q[j]
      <4>1. pab[i] = pa[i]
        BY <1>2, <1>5, <1>7, <2>2
      <4>2. pa[Len(p) + j] = a[j] /\ a[j] = q[j]
        BY <1>2, <1>4
      <4> QED BY <3>1, <4>1, <4>2
    <3>3. pq[i] = q[j]
      <4>1. j \in 1..Len(q)
        BY <1>2
      <4>2. pq[Len(p) + j] = q[j]
        BY <1>6, <4>1
      <4> QED BY <3>1, <4>2
    <3> QED BY <3>2, <3>3
  <2>3. CASE i > Len(p) + n
    <3>1. PICK j \in 1..(Len(q) - n) : i = Len(p) + n + j
      <4>1. i - (Len(p) + n) \in 1..(Len(q) - n) /\ i = Len(p) + n + (i - (Len(p) + n))
        BY <1>2, <1>7, <2>3
      <4> QED BY <4>1
    <3>2. pab[i] = b[j] /\ b[j] = q[n + j]
      BY <1>2, <1>5, <3>1
    <3>3. i = Len(p) + (n + j) /\ n + j \in 1..Len(q)
      BY <1>2, <3>1
    <3>4. pq[i] = q[n + j]
      BY <1>6, <3>3
    <3> QED BY <3>2, <3>4
  <2> QED BY <1>2, <1>7, <2>1, <2>2, <2>3
<1>8. Len(pab) = Len(pq) /\ Len(pq) = Len(p) + Len(q)
  BY <1>2, <1>5, <1>6
<1>9. pab = pq
  BY <1>5, <1>6, <1>7, <1>8, SameSeq
<1> QED BY <1>1, <1>3, <1>9

\* A read keeps the streams.
LEMMA ReadKeepsData == ASSUME CmuxInv, NEW t \in Clients, ReadChannel(t) PROVE KeepsData
<1>1. PICK c : c = work[t].ch
  OBVIOUS
<1>2. c \in Channels /\ chan[c] \in ChannelType /\ Types
  <2>1. work[t].at \in Handling
    BY DEF ReadChannel, Proceeds, At, Handling
  <2> QED BY <1>1, <2>1, Hands DEF CmuxInv
<1>3. PICK n \in 0..Len(chan[c].rx) :
        chan' = [chan EXCEPT ![c].got = @ \o SubSeq(chan[c].rx, 1, n), ![c].rx = SubSeq(@, n + 1, Len(@))]
  BY ZenonT(40), <1>1 DEF ReadChannel
<1>4. PICK got, rx : /\ got = chan[c].got \o SubSeq(chan[c].rx, 1, n)
                     /\ rx = SubSeq(chan[c].rx, n + 1, Len(chan[c].rx))
  OBVIOUS
<1>5. chan' = [chan EXCEPT ![c] = [chan[c] EXCEPT !.got = got, !.rx = rx]]
  BY <1>2, <1>3, <1>4
<1>6. /\ Channels' = Channels /\ \A d \in Channels \ {c} : chan'[d] = chan[d]
      /\ chan'[c] = [chan[c] EXCEPT !.got = got, !.rx = rx]
  BY <1>2, <1>5 DEF Types, Channels
<1>7. /\ chan'[c].side = chan[c].side /\ chan'[c].dlci = chan[c].dlci /\ chan'[c].sent = chan[c].sent
      /\ chan'[c].got = got /\ chan'[c].rx = rx
  BY <1>2, <1>6 DEF ChannelType
<1>8. got \o rx = chan[c].got \o chan[c].rx
  <2>1. chan[c].got \in Seq(Nat \X Nat) /\ chan[c].rx \in Seq(Nat \X Nat)
    BY <1>2 DEF ChannelType
  <2> QED BY <1>4, <2>1, Moved
<1>9. Stream(c)' = Stream(c)
  BY <1>7, <1>8 DEF Stream
<1> QED BY <1>2, <1>6, <1>7, <1>9 DEF KeepsData, Stream

\* A client's step moves no other thread,
LEMMA ClientAlone ==
    ASSUME Types, NEW t \in Clients, Start(t) \/ Step(t)
    PROVE  \A u \in Threads \ {t} : work'[u] = work[u]
<1>1. \A v : work' = [work EXCEPT ![t] = v] => \A u \in Threads \ {t} : work'[u] = work[u]
  BY SMTT(30) DEF Types
<1>2. \A l : Goto(t, l) => \A u \in Threads \ {t} : work'[u] = work[u]
  BY SMTT(30), <1>1 DEF Goto
<1>3. ASSUME Start(t) PROVE \A u \in Threads \ {t} : work'[u] = work[u]
  BY <1>1, <1>3 DEF Start, Dial, Accept, CloseSession, Destroy, Read, Write, Close, Deinit, Begin
<1>4. ASSUME DialStep(t) PROVE \A u \in Threads \ {t} : work'[u] = work[u]
  <2>1. CASE DialBehind(t) \/ DialCreate(t)
    BY <2>1 DEF DialBehind, DialCreate, Types
  <2>2. CASE DialReady(t) \/ DialRefused(t) \/ DialAwaited(t)
    BY <1>2, <2>2 DEF DialReady, DialRefused, DialAwaited
  <2>3. CASE DialSabm(t) \/ DialOpened(t) \/ DialConn(t)
    BY <1>2, <2>3 DEF DialSabm, DialOpened, DialConn, GiveUp, Types
  <2> QED BY <1>4, <2>1, <2>2, <2>3 DEF DialStep
<1>5. CASE Sleep(t) \/ HangUp(t) \/ CloseChannel(t) \/ SendDisc(t) \/ Release(t)
  BY <1>2, <1>5 DEF Sleep, HangUp, CloseChannel, SendDisc, Release
<1>6. CASE Shutdown(t) \/ SayBye(t) \/ AcceptClosed(t) \/ AcceptConn(t)
  BY SMTT(30), <1>2, <1>6 DEF Shutdown, SayBye, AcceptClosed, AcceptConn
<1>7. CASE AcceptChannel(t)
  BY SMTT(30), <1>7 DEF AcceptChannel, Types
<1>8. CASE ReadChannel(t) \/ SendData(t) \/ Sweep(t)
  BY <1>2, <1>8 DEF ReadChannel, SendData, Sweep
<1> QED BY SMTT(30), <1>3, <1>4, <1>5, <1>6, <1>7, <1>8 DEF Step

\* opens no session that has been closed,
LEMMA ClientCloses ==
    ASSUME Types, NEW t \in Clients, Start(t) \/ Step(t)
    PROVE  \A s \in Sides : closed[s] => closed'[s]
<1>1. CASE closed' = closed
  BY <1>1
<1>2. CASE Shutdown(t)
  BY <1>2 DEF Shutdown, BeginClose, Types, sessionVars
<1>3. CASE Start(t)
  BY <1>1, <1>3 DEF Start, Dial, Accept, CloseSession, Destroy, Read, Write, Close, Deinit, sessionVars
<1>4. CASE DialStep(t)
  <2>1. CASE DialReady(t) \/ DialRefused(t) \/ DialBehind(t) \/ DialAwaited(t)
    BY <1>1, <2>1 DEF DialReady, DialRefused, DialBehind, DialAwaited, sessionVars
  <2>2. CASE DialCreate(t)
    BY <1>1, <2>2 DEF DialCreate
  <2>3. CASE DialSabm(t) \/ DialOpened(t) \/ DialConn(t)
    BY <1>1, <2>3 DEF DialSabm, DialOpened, DialConn, sessionVars
  <2> QED BY <1>4, <2>1, <2>2, <2>3 DEF DialStep
<1>5. CASE Step(t) /\ ~Shutdown(t) /\ ~DialStep(t)
  BY <1>1, <1>5 DEF Step, Sleep, HangUp, CloseChannel, SendDisc, Release, SayBye, AcceptChannel, AcceptClosed, AcceptConn,
    ReadChannel, SendData, Sweep, sessionVars
<1> QED BY <1>2, <1>3, <1>4, <1>5

\* takes no channel from a worker that is at work,
LEMMA ClientKeepsTable ==
    ASSUME Types, NEW t \in Clients, Start(t) \/ Step(t)
    PROVE  \A s \in Sides, d \in Dlcis : work[s].at = "rx" /\ table[s][d] # 0 => table'[s][d] = table[s][d]
<1>1. CASE table' = table
  BY <1>1
<1>2. CASE DialCreate(t)
  BY SMTT(30), <1>2 DEF DialCreate, Types
<1>3. CASE Sweep(t)
  <2>1. table' = [table EXCEPT ![Home(t)] = [d \in Dlcis |-> 0]] /\ work[Home(t)].at = "done"
    BY SMTT(30), <1>3 DEF Sweep
  <2> QED BY SMTT(30), <2>1 DEF Types
<1>4. CASE Start(t)
  BY <1>1, <1>4 DEF Start, Dial, Accept, CloseSession, Destroy, Read, Write, Close, Deinit, sessionVars
<1>5. CASE DialStep(t) /\ ~DialCreate(t)
  BY <1>1, <1>5 DEF DialStep, DialReady, DialRefused, DialBehind, DialAwaited, DialSabm, DialOpened, DialConn, sessionVars
<1>6. CASE Shutdown(t)
  BY SMTT(30), <1>1, <1>6 DEF Shutdown, BeginClose, sessionVars
<1>7. CASE Step(t) /\ ~Shutdown(t) /\ ~DialStep(t) /\ ~Sweep(t)
  BY <1>1, <1>7 DEF Step, Sleep, HangUp, CloseChannel, SendDisc, Release, SayBye, AcceptChannel, AcceptClosed, AcceptConn,
    ReadChannel, SendData, sessionVars
<1> QED BY <1>2, <1>3, <1>4, <1>5, <1>6, <1>7

\* keeps the streams unless it sends,
LEMMA ClientKeepsData ==
    ASSUME CmuxInv, NEW t \in Clients, Start(t) \/ (Step(t) /\ ~SendData(t))
    PROVE  KeepsData
<1>0. Types
  BY DEF CmuxInv
<1>1. CASE chan' = chan
  BY SMTT(30), <1>1, SameChannels
<1>2. CASE Start(t)
  <2>1. chan' = chan \/ \E c \in Channels, v \in {"closed", "gone"} : chan' = [chan EXCEPT ![c].conn = v]
    BY <1>2 DEF Start, Dial, Accept, CloseSession, Destroy, Read, Write, Close, Deinit, Conns
  <2> QED BY <1>0, <1>1, <2>1, OtherFields
<1>3. CASE CloseChannel(t)
  BY <1>0, <1>1, <1>3, OtherFields DEF CloseChannel
<1>4. CASE Shutdown(t)
  BY <1>0, <1>1, <1>4, CloseKeepsData DEF Shutdown
<1>5. CASE DialCreate(t)
  BY <1>0, <1>5, NewStream DEF DialCreate
<1>6. CASE Release(t) \/ DialBehind(t) \/ AcceptChannel(t)
  <2>1. chan' = chan \/ \E d, k : chan' = [chan EXCEPT ![d].refs = k]
    BY <1>6 DEF Release, DialBehind, AcceptChannel
  <2> QED BY <1>0, <1>1, <2>1, OtherFields
<1>7. CASE DialConn(t) \/ AcceptConn(t)
  <2>1. chan' = chan \/ \E d, k, v : chan' = [chan EXCEPT ![d].refs = k, ![d].conn = v]
    BY <1>7 DEF DialConn, AcceptConn
  <2> QED BY <1>0, <1>1, <2>1, OtherFields
<1>8. CASE ReadChannel(t)
  BY <1>8, ReadKeepsData
<1>9. CASE Sweep(t)
  <2>1. chan' = [c \in Channels |-> [chan[c] EXCEPT !.refs = @ - RefsFrom(Home(t), c)]]
    BY <1>9 DEF Sweep
  <2>2. Channels' = Channels
    BY <2>1 DEF Channels
  <2>3. \A d \in Channels : chan[d] \in ChannelType /\ chan'[d] = [chan[d] EXCEPT !.refs = @ - RefsFrom(Home(t), d)]
    BY <1>0, <2>1, ChannelsAre
  <2>4. \A d \in Channels :
          /\ chan'[d].side = chan[d].side /\ chan'[d].dlci = chan[d].dlci
          /\ chan'[d].sent = chan[d].sent /\ chan'[d].rx = chan[d].rx /\ chan'[d].got = chan[d].got
    BY <2>3 DEF ChannelType
  <2> QED BY <2>2, <2>4, FieldsKeep
<1>10. CASE Sleep(t) \/ HangUp(t) \/ SendDisc(t) \/ SayBye(t) \/ DialReady(t) \/ DialRefused(t) \/ DialAwaited(t)
            \/ DialSabm(t) \/ DialOpened(t) \/ AcceptClosed(t)
  BY <1>1, <1>10 DEF Sleep, HangUp, SendDisc, SayBye, DialReady, DialRefused, DialAwaited, DialSabm, DialOpened, AcceptClosed
<1> QED BY <1>2, <1>3, <1>4, <1>5, <1>6, <1>7, <1>8, <1>9, <1>10 DEF Step, DialStep

\* and keeps the bearer's data unless it sends.
LEMMA ClientKeepsWire ==
    ASSUME CmuxInv, NEW t \in Clients, Start(t) \/ (Step(t) /\ ~SendData(t))
    PROVE  KeepsWire /\ \A s \in Sides : shut'[s] => shut[s] \/ closed[s]
<1>0. Types /\ t \in Threads /\ Home(t) \in Sides
  BY SidesOf DEF CmuxInv
<1>1. CASE UNCHANGED bearerVars
  BY <1>0, <1>1, SameWire DEF bearerVars
<1>2. CASE HangUp(t)
  <2>1. closed[Home(t)]
    BY <1>2, SidesOf DEF HangUp, At, CmuxInv, Placed, ClientPlace
  <2> QED BY <1>0, <1>2, <2>1, LostWire
<1>3. CASE SendDisc(t) \/ SayBye(t) \/ DialSabm(t)
  <2>1. PICK f, ok : Sends(Home(t), f, ok) /\ f.type # "uih"
    <3>1. \A type, d, tag : Frame(type, d, tag).type = type
      BY DEF Frame
    <3>2. \E f : \E ok \in BOOLEAN : Transmit(t, f, ok) /\ f.type # "uih"
      BY <1>3, <3>1 DEF SendDisc, SayBye, DialSabm
    <3> QED BY <1>0, <3>2, Transmits
  <2> QED BY <1>0, <2>1, SentWire
<1>4. CASE Start(t)
  BY <1>1, <1>4 DEF Start, Dial, Accept, CloseSession, Destroy, Read, Write, Close, Deinit, bearerVars
<1>5. CASE DialStep(t) /\ ~DialSabm(t)
  <2>1. CASE DialReady(t) \/ DialRefused(t) \/ DialBehind(t) \/ DialAwaited(t)
    BY <1>1, <2>1 DEF DialReady, DialRefused, DialBehind, DialAwaited
  <2>2. CASE DialCreate(t)
    BY <1>1, <2>2 DEF DialCreate
  <2>3. CASE DialOpened(t) \/ DialConn(t)
    BY <1>1, <2>3 DEF DialOpened, DialConn
  <2> QED BY <1>5, <2>1, <2>2, <2>3 DEF DialStep
<1>6. CASE Step(t) /\ ~SendData(t) /\ ~HangUp(t) /\ ~SendDisc(t) /\ ~SayBye(t) /\ ~DialStep(t)
  BY <1>1, <1>6 DEF Step, Sleep, CloseChannel, Release, Shutdown, AcceptChannel, AcceptClosed, AcceptConn, ReadChannel, Sweep
<1> QED BY <1>2, <1>3, <1>4, <1>5, <1>6

\* So it keeps the invariant.
LEMMA ClientStreams ==
    ASSUME CmuxInv, CmuxInv', StreamInv, GoOn, NEW t \in Clients, Start(t) \/ (Step(t) /\ ~SendData(t))
    PROVE  StreamInv'
<1>1. Types
  BY DEF CmuxInv
<1>2. Quiet
  BY <1>1, ClientQuiet, ClientAlone, ClientCloses, ClientKeepsTable, ClientKeepsData, ClientKeepsWire
<1> QED BY <1>2, QuietKeeps

\* Where Goto and Handle take a worker.
LEMMA Walked ==
    ASSUME Types, NEW s \in Sides, NEW l
    PROVE  /\ Goto(s, l) => work'[s].at = l /\ \A u \in Threads \ {s} : work'[u] = work[u]
           /\ \A c, f, then : Handle(s, l, c, f, then) =>
                /\ work'[s].at = l /\ work'[s].ch = c /\ work'[s].frame = f
                /\ \A u \in Threads \ {s} : work'[u] = work[u]
           /\ work' = work => \A u \in Threads : work'[u] = work[u]
<1>1. s \in Threads /\ work \in [Threads -> PlaceType] /\ work[s] \in PlaceType
  BY SidesOf DEF Types
<1>2. \A v : work' = [work EXCEPT ![s] = v] => work'[s] = v /\ \A u \in Threads \ {s} : work'[u] = work[u]
  BY <1>1
<1>3. ASSUME Goto(s, l) PROVE work'[s].at = l /\ \A u \in Threads \ {s} : work'[u] = work[u]
  <2>1. CASE l = "idle"
    BY <1>2, <1>3, <2>1 DEF Goto, Idle
  <2>2. CASE l = "listen"
    BY <1>2, <1>3, <2>2 DEF Goto, Idle
  <2>3. CASE l \notin {"idle", "listen"}
    <3>1. work' = [work EXCEPT ![s] = [work[s] EXCEPT !.at = l]]
      BY <1>3, <2>3 DEF Goto
    <3> QED BY <1>1, <1>2, <3>1 DEF PlaceType
  <2> QED BY <2>1, <2>2, <2>3
<1>4. ASSUME NEW c, NEW f, NEW then, Handle(s, l, c, f, then)
      PROVE  /\ work'[s].at = l /\ work'[s].ch = c /\ work'[s].frame = f
             /\ \A u \in Threads \ {s} : work'[u] = work[u]
  <2>1. work' = [work EXCEPT ![s] = [Idle EXCEPT !.at = l, !.ch = c, !.frame = f, !.then = then]]
    BY <1>4 DEF Handle
  <2>2. work'[s] = [Idle EXCEPT !.at = l, !.ch = c, !.frame = f, !.then = then]
        /\ \A u \in Threads \ {s} : work'[u] = work[u]
    BY <1>2, <2>1
  <2> QED BY <2>2 DEF Idle
<1> QED BY <1>3, <1>4

\* The steps of a worker that take no data up or down.
Controls(s) ==
    \/ HandleSessionUp(s) \/ HandleSessionDisc(s)
    \/ HandleOpenRequest(s) \/ HandleOpenAck(s) \/ HandleDisc(s) \/ HandleReject(s)
    \/ Unregister(s) \/ Reply(s) \/ Offer(s) \/ Fail(s) \/ Finish(s) \/ HangUp(s)

\* They move the worker alone, and not to or from a buffer that is full.
LEMMA WorkerMoves ==
    ASSUME CmuxInv, NEW s \in Sides, Controls(s)
    PROVE  /\ work[s].at # "rx" /\ work'[s].at # "rx" /\ \A u \in Threads \ {s} : work'[u] = work[u]
           /\ work'[s].at = "hangup" => closed'[s]
<1>0. Types /\ s \in Threads /\ WorkerPlace(s)
  BY SidesOf DEF CmuxInv, Placed
<1>1. \A type, control : Receive(s, type, control) => work[s].at = "listen"
  BY DEF Receive, At
<1>2. ASSUME NEW l, l \notin {"rx", "hangup"}, Goto(s, l)
      PROVE  work'[s].at \notin {"rx", "hangup"} /\ \A u \in Threads \ {s} : work'[u] = work[u]
  BY <1>0, <1>2, Walked
<1>3. ASSUME NEW l, l \notin {"rx", "hangup"}, NEW c, NEW f, NEW then, Handle(s, l, c, f, then)
      PROVE  work'[s].at \notin {"rx", "hangup"} /\ \A u \in Threads \ {s} : work'[u] = work[u]
  BY <1>0, <1>3, Walked
<1>4. CASE work' = work /\ work[s].at = "listen"
  BY <1>0, <1>4, Walked
<1>5. CASE HandleSessionUp(s)
  BY <1>1, <1>3, <1>4, <1>5 DEF HandleSessionUp
<1>6. CASE HandleSessionDisc(s)
  BY <1>1, <1>3, <1>6 DEF HandleSessionDisc
<1>7. CASE HandleOpenRequest(s)
  <2>1. work[s].at = "listen"
    BY <1>1, <1>7 DEF HandleOpenRequest
  <2>2. \/ work' = work
        \/ \E c, f, then : Handle(s, "reply", c, f, then) \/ Handle(s, "unregister", c, f, then)
    BY <1>7 DEF HandleOpenRequest, Ignore
  <2> QED BY <1>3, <1>4, <2>1, <2>2
<1>8. CASE HandleOpenAck(s)
  BY <1>1, <1>3, <1>4, <1>8 DEF HandleOpenAck, Ignore
<1>9. CASE HandleDisc(s)
  BY <1>1, <1>3, <1>9 DEF HandleDisc
<1>10. CASE HandleReject(s)
  BY <1>1, <1>3, <1>4, <1>10 DEF HandleReject, Ignore
<1>11. CASE Unregister(s)
  <2>1. work[s].at = "unregister"
    BY <1>11 DEF Unregister, At
  <2>2. CASE work[s].frame = None
    BY <1>2, <1>11, <2>1, <2>2 DEF Unregister
  <2>3. CASE work[s].frame # None
    <3>1. work' = [work EXCEPT ![s].at = "reply", ![s].ch = 0]
      BY <1>11, <2>3 DEF Unregister
    <3>2. work'[s] = [work[s] EXCEPT !.at = "reply", !.ch = 0] /\ \A u \in Threads \ {s} : work'[u] = work[u]
      BY <1>0, <3>1 DEF Types
    <3>3. work[s] \in PlaceType
      BY <1>0 DEF Types
    <3> QED BY <2>1, <3>2, <3>3 DEF PlaceType
  <2> QED BY <2>2, <2>3
<1>12. CASE Reply(s)
  <2>1. work[s].at = "reply" /\ work[s].then \in {"listen", "offer", "leave"}
    BY <1>0, <1>12 DEF Reply, At, WorkerPlace
  <2> QED BY <1>2, <1>12, <2>1 DEF Reply
<1>13. CASE Offer(s) \/ Fail(s)
  BY <1>2, <1>13 DEF Offer, Fail, At
<1>14. CASE Finish(s)
  <2>1. PICK l \in {"finish", "leave"} :
            LET next == IF l = "leave" THEN "listen" ELSE "done" IN
            /\ At(s, l)
            /\ IF closed[s]
               THEN Goto(s, next) /\ UNCHANGED <<sessionVars, chan, asleep>>
               ELSE /\ BeginClose(s)
                    /\ work' = [work EXCEPT ![s].at = "hangup", ![s].then = next]
    BY <1>14 DEF Finish
  <2>2. CASE closed[s]
    BY <1>2, <2>1, <2>2 DEF At
  <2>3. CASE ~closed[s]
    <3>1. PICK next : BeginClose(s) /\ work' = [work EXCEPT ![s].at = "hangup", ![s].then = next]
      BY <2>1, <2>3
    <3>2. work'[s] = [work[s] EXCEPT !.at = "hangup", !.then = next] /\ \A u \in Threads \ {s} : work'[u] = work[u]
      BY <1>0, <3>1 DEF Types
    <3>3. work[s] \in PlaceType /\ closed'[s]
      BY <1>0, <3>1 DEF Types, BeginClose
    <3> QED BY <2>1, <3>2, <3>3 DEF PlaceType, At
  <2> QED BY <2>2, <2>3
<1>15. CASE HangUp(s)
  <2>1. Home(s) = s /\ work[s].at = "hangup" /\ work[s].then \in {"listen", "done"} /\ Goto(s, work[s].then)
    BY <1>0, <1>15, SidesOf DEF HangUp, At, WorkerPlace
  <2> QED BY <1>2, <2>1
<1> QED BY <1>5, <1>6, <1>7, <1>8, <1>9, <1>10, <1>11, <1>12, <1>13, <1>14, <1>15 DEF Controls

\* They open no session that is closed, and leave the other side's table alone.
LEMMA WorkerCloses ==
    ASSUME Types, NEW s \in Sides, Controls(s)
    PROVE  /\ \A r \in Sides : closed[r] => closed'[r]
           /\ \A r \in Sides \ {s} : table'[r] = table[r]
<1>1. CASE closed' = closed /\ table' = table
  BY <1>1
<1>2. CASE HandleOpenRequest(s)
  <2>1. closed' = closed /\ (table' = table \/ \E d, v : table' = [table EXCEPT ![s][d] = v])
    BY <1>2 DEF HandleOpenRequest, Ignore, sessionVars
  <2> QED BY <2>1 DEF Types
<1>3. CASE Unregister(s)
  <2>1. closed' = closed /\ (table' = table \/ \E d, v : table' = [table EXCEPT ![s][d] = v])
    BY <1>3 DEF Unregister
  <2> QED BY <2>1 DEF Types
<1>4. CASE Finish(s)
  <2>1. table' = table /\ (closed' = closed \/ closed' = [closed EXCEPT ![s] = TRUE])
    BY <1>4 DEF Finish, BeginClose, sessionVars
  <2> QED BY <2>1 DEF Types
<1>5. CASE HandleSessionUp(s) \/ HandleSessionDisc(s) \/ HandleOpenAck(s) \/ HandleDisc(s) \/ HandleReject(s)
  BY <1>1, <1>5 DEF HandleSessionUp, HandleSessionDisc, HandleOpenAck, HandleDisc, HandleReject, Ignore, sessionVars
<1>6. CASE Reply(s) \/ Offer(s) \/ Fail(s) \/ HangUp(s)
  BY <1>1, <1>6 DEF Reply, Offer, Fail, HangUp, sessionVars
<1> QED BY <1>2, <1>3, <1>4, <1>5, <1>6 DEF Controls

\* They keep the streams,
LEMMA WorkerKeepsData ==
    ASSUME CmuxInv, NEW s \in Sides, Controls(s)
    PROVE  KeepsData
<1>0. Types
  BY DEF CmuxInv
<1>1. CASE chan' = chan
  BY <1>1, SameChannels
<1>2. CASE HandleOpenRequest(s)
  <2>1. chan' = chan \/ \E d, phase, n, from : chan' = Append(chan, NewChannel(s, d, phase, n, from))
    BY <1>2 DEF HandleOpenRequest, Ignore
  <2> QED BY <1>0, <1>1, <2>1, NewStream
<1>3. CASE HandleOpenAck(s) \/ HandleDisc(s) \/ HandleReject(s)
  <2>1. chan' = chan \/ \E c, p : chan' = [chan EXCEPT ![c].phase = p]
    BY <1>3 DEF HandleOpenAck, HandleDisc, HandleReject, SetPhase, Ignore
  <2> QED BY <1>0, <1>1, <2>1, OtherFields
<1>4. CASE Unregister(s)
  <2>1. \E d, b, k : chan' = [chan EXCEPT ![d].registered = b, ![d].refs = k]
    BY <1>4 DEF Unregister
  <2> QED BY <1>0, <2>1, OtherFields
<1>5. CASE Finish(s)
  BY <1>0, <1>1, <1>5, CloseKeepsData DEF Finish
<1>6. CASE HandleSessionUp(s) \/ HandleSessionDisc(s) \/ Reply(s) \/ Offer(s) \/ Fail(s) \/ HangUp(s)
  BY <1>1, <1>6 DEF HandleSessionUp, HandleSessionDisc, Reply, Offer, Fail, HangUp
<1> QED BY <1>2, <1>3, <1>4, <1>5, <1>6 DEF Controls

\* and the bearer's data, but for a session that is closed and hangs up.
LEMMA WorkerKeepsWire ==
    ASSUME CmuxInv, StreamInv, NEW s \in Sides, Controls(s)
    PROVE  KeepsWire /\ \A r \in Sides : shut'[r] => shut[r] \/ closed[r]
<1>0. Types /\ s \in Threads /\ Home(s) = s
  BY SidesOf DEF CmuxInv
<1>1. CASE UNCHANGED bearerVars
  BY <1>0, <1>1, SameWire DEF bearerVars
<1>2. ASSUME NEW type, type # "uih", NEW control, Receive(s, type, control)
      PROVE  KeepsWire /\ \A r \in Sides : shut'[r] => shut[r] \/ closed[r]
  BY <1>0, <1>2, ReadWire
<1>3. CASE HandleSessionUp(s) \/ HandleSessionDisc(s)
  BY <1>2, <1>3 DEF HandleSessionUp, HandleSessionDisc
<1>4. CASE HandleOpenRequest(s) \/ HandleOpenAck(s) \/ HandleDisc(s) \/ HandleReject(s)
  BY <1>2, <1>4 DEF HandleOpenRequest, HandleOpenAck, HandleDisc, HandleReject
<1>5. CASE Reply(s)
  <2>1. work[s].frame \in Answers
    BY <1>5, WorkerAt DEF Reply, At
  <2>2. work[s].frame.type # "uih"
    BY <2>1 DEF Answers, Types4
  <2>3. \E ok : Sends(s, work[s].frame, ok)
    BY <1>0, <1>5, Transmits DEF Reply
  <2> QED BY <1>0, <2>2, <2>3, SentWire
<1>6. CASE HangUp(s)
  <2>1. closed[s]
    BY <1>6 DEF HangUp, At, StreamInv, Shuts
  <2> QED BY <1>0, <1>6, <2>1, LostWire
<1>7. CASE Unregister(s) \/ Offer(s) \/ Finish(s)
  BY <1>1, <1>7 DEF Unregister, Offer, Finish
<1>8. CASE Fail(s)
  BY <1>0, <1>8, SameWire DEF Fail
<1> QED BY <1>3, <1>4, <1>5, <1>6, <1>7, <1>8 DEF Controls

\* So they keep the invariant.
LEMMA WorkerStreams ==
    ASSUME CmuxInv, CmuxInv', StreamInv, GoOn, NEW s \in Sides, Controls(s)
    PROVE  StreamInv'
<1>1. Types
  BY DEF CmuxInv
<1>2. Quiet
  BY <1>1, WorkerQuiet, WorkerMoves, WorkerCloses, WorkerKeepsData, WorkerKeepsWire
<1> QED BY <1>2, QuietKeeps

\* Waiting and waking change nothing of it.
LEMMA StillStreams ==
    ASSUME CmuxInv, CmuxInv', StreamInv, UNCHANGED <<sessionVars, chan, bearerVars, work>>
    PROVE  StreamInv'
<1>1. /\ closed' = closed /\ table' = table /\ chan' = chan /\ wire' = wire /\ shut' = shut /\ work' = work
  BY DEF sessionVars, bearerVars
<1>2. KeepsData /\ KeepsWire
  BY <1>1, SameChannels, SameWire DEF CmuxInv
<1>3. KeepsHand
  BY <1>1 DEF KeepsHand
<1>4. Shuts'
  BY <1>1 DEF Shuts, StreamInv
<1>5. Quiet
  BY <1>2, <1>3, <1>4 DEF Quiet
<1>6. GoOn
  BY <1>1, StaysOn
<1> QED BY <1>5, <1>6, QuietKeeps
----------------------------------------------------------------------------
(* The steps that move data.                                                *)

\* Whatever is under way has been written by a channel of its side, and what has
\* arrived by one of the other side.
LEMMA TagsKnown ==
    ASSUME CmuxInv, StreamInv
    PROVE  /\ \A s \in Sides : \A x \in Underway(s) :
                /\ x \in Nat \X Nat /\ x[1] \in Channels /\ chan[x[1]].side = s
                /\ x[2] \in 1..chan[x[1]].sent
           /\ \A c \in Channels : /\ chan[c].side \in Sides /\ chan[c].sent \in Nat
                                  /\ Arrived(c) \subseteq Nat \X Nat
           /\ \A c \in Channels : \A x \in Arrived(c) :
                /\ x[1] \in Channels /\ chan[x[1]].side = Peer(chan[c].side)
                /\ chan[x[1]].dlci = chan[c].dlci /\ x[2] \in 1..chan[x[1]].sent
<1>0. Types /\ LineOwned
  BY DEF CmuxInv, StreamInv
<1>1. ASSUME NEW s \in Sides, NEW x \in Underway(s)
      PROVE  /\ x \in Nat \X Nat /\ x[1] \in Channels /\ chan[x[1]].side = s
             /\ x[2] \in 1..chan[x[1]].sent
  <2>1. PICK p \in Sides : p = Peer(s) /\ p \in Threads
    BY <1>1, SidesOf
  <2>2. CASE x \in OnWire(s)
    <3>1. PICK i \in Data(s) : x = wire[s][i].tag
      BY <2>2 DEF OnWire
    <3>2. wire[s][i] \in Frames /\ wire[s][i].type = "uih"
      BY <1>0, <1>1, <3>1 DEF Types, Data
    <3>3. Owned(s, wire[s][i])
      BY <1>0, <1>1, <3>1 DEF LineOwned
    <3> QED BY <3>1, <3>2, <3>3 DEF Owned, Frames, Answers, Types4
  <2>3. CASE x \in InHand(s)
    <3>1. work[p].at = "rx" /\ x = work[p].frame.tag
      BY <2>1, <2>3 DEF InHand
    <3>2. Owned(s, work[p].frame)
      BY <1>0, <1>1, <2>1, <3>1 DEF LineOwned
    <3>3. work[p].frame \in Frames /\ work[p].frame.type = "uih"
      BY <3>1, WorkerAt
    <3> QED BY <3>1, <3>2, <3>3 DEF Owned, Frames, Answers, Types4
  <2> QED BY <1>1, <2>2, <2>3 DEF Underway
<1>2. ASSUME NEW c \in Channels
      PROVE  chan[c].side \in Sides /\ chan[c].sent \in Nat /\ Arrived(c) \subseteq Nat \X Nat
  <2>1. chan[c].side \in Sides /\ chan[c].sent \in Nat
        /\ chan[c].got \in Seq(Nat \X Nat) /\ chan[c].rx \in Seq(Nat \X Nat)
    BY <1>0, <1>2, ChannelsAre DEF ChannelType
  <2>2. Stream(c) \in Seq(Nat \X Nat)
    BY <2>1 DEF Stream
  <2> QED BY <2>1, <2>2 DEF Arrived
<1>3. ASSUME NEW c \in Channels, NEW x \in Arrived(c)
      PROVE  /\ x[1] \in Channels /\ chan[x[1]].side = Peer(chan[c].side)
             /\ chan[x[1]].dlci = chan[c].dlci /\ x[2] \in 1..chan[x[1]].sent
  BY <1>3 DEF StreamInv, WrittenByPartner
<1> QED BY <1>1, <1>2, <1>3

\* The step leaves what a channel is, and what it has written, alone.
SameFields ==
    /\ Channels' = Channels /\ shut' = shut
    /\ \A c \in Channels : /\ chan'[c].side = chan[c].side /\ chan'[c].dlci = chan[c].dlci
                           /\ chan'[c].sent = chan[c].sent /\ chan'[c].phase = chan[c].phase

\* The first frame under way is taken, and put into the stream of the channel that
\* is open under its number, if there is one: what was whole stays whole.
LEMMA FirstTaken ==
    ASSUME CmuxInv, StreamInv, SameFields, NEW s \in Sides, NEW p \in Sides, p = Peer(s),
           NEW w \in Underway(p), Underway(p) = {w} \cup Underway(p)', \A y \in Underway(p)' : Before(w, y),
           \A r \in Sides \ {p} : Underway(r)' = Underway(r),
           NEW D \in SUBSET Channels, \A d \in D : Stream(d)' = Stream(d),
           \A d \in D : chan[d].phase = "open" /\ chan[d].side = s => chan[d].dlci # chan[w[1]].dlci
    PROVE  /\ LineWhole'
           /\ \A d \in D : /\ WrittenByPartner(d)' /\ ArrivedInRuns(d)' /\ Ahead(d)' /\ NotYet(d)'
                           /\ chan'[d].phase = "open" => RestUnderway(d)'
<1>0. Types /\ SameFields /\ Peer(s) = p /\ Peer(p) = s /\ s # p /\ \A r \in Sides : Underway(r)' \subseteq Underway(r)
  BY PeersAre DEF CmuxInv
<1>1. LineWhole'
  <2> SUFFICES ASSUME NEW r \in Sides, ~shut'[Peer(r)], NEW x \in Underway(r)', NEW n \in x[2]..chan'[x[1]].sent
               PROVE  <<x[1], n>> \in Underway(r)'
    BY DEF LineWhole, Peer
  <2>1. x \in Underway(r) /\ ~shut[Peer(r)] /\ x[1] \in Channels /\ x[2] \in Nat /\ chan'[x[1]].sent = chan[x[1]].sent
        /\ chan[x[1]].sent \in Nat
    BY <1>0, TagsKnown DEF SameFields
  <2>2. <<x[1], n>> \in Underway(r)
    BY <2>1 DEF StreamInv, LineWhole
  <2>3. CASE r # p
    BY <2>2, <2>3
  <2>4. CASE r = p
    <3>1. Before(w, x) /\ w[2] \in Nat
      BY <2>4, TagsKnown
    <3>2. ASSUME <<x[1], n>> = w PROVE FALSE
      <4>1. w[1] = x[1] /\ w[2] = n
        BY <3>2
      <4> QED BY <2>1, <3>1, <4>1 DEF Before
    <3> QED BY <2>2, <2>4, <3>2
  <2> QED BY <2>3, <2>4
<1>2. ASSUME NEW d \in D
      PROVE  /\ WrittenByPartner(d)' /\ ArrivedInRuns(d)' /\ Ahead(d)' /\ NotYet(d)'
             /\ chan'[d].phase = "open" => RestUnderway(d)'
  <2>1. /\ d \in Channels /\ Stream(d)' = Stream(d) /\ Arrived(d)' = Arrived(d)
        /\ chan'[d].side = chan[d].side /\ chan'[d].dlci = chan[d].dlci /\ chan'[d].phase = chan[d].phase
        /\ WrittenByPartner(d) /\ ArrivedInRuns(d) /\ Ahead(d) /\ NotYet(d) /\ (chan[d].phase = "open" => RestUnderway(d))
    BY <1>0, <1>2 DEF SameFields, StreamInv, Arrived
  <2>2. PICK far \in Sides : far = Peer(chan[d].side) /\ far = Peer(chan'[d].side) /\ Peer(far) = chan[d].side
    BY <2>1, PeersAre, TagsKnown
  <2>3. \A x \in Arrived(d) : /\ x \in Nat \X Nat /\ x[1] \in Channels /\ chan[x[1]].side = far
                              /\ chan[x[1]].dlci = chan[d].dlci /\ x[2] \in 1..chan[x[1]].sent
    BY <2>1, <2>2, TagsKnown
  <2>4. \A e \in Channels : e \in Channels' /\ chan'[e].sent = chan[e].sent /\ chan'[e].side = chan[e].side /\ chan'[e].dlci = chan[e].dlci
    BY <1>0 DEF SameFields
  <2>5. WrittenByPartner(d)'
    BY <2>1, <2>2, <2>3, <2>4 DEF WrittenByPartner, Peer
  <2>6. ArrivedInRuns(d)' /\ NotYet(d)'
    BY <2>1 DEF ArrivedInRuns, NotYet
  <2>7. \A x \in Arrived(d), y \in Underway(far) : Before(x, y)
    BY <2>1, <2>2 DEF Ahead
  <2>8. Ahead(d)'
    BY <1>0, <2>1, <2>2, <2>7 DEF Ahead, Peer
  <2>9. ASSUME chan'[d].phase = "open" PROVE RestUnderway(d)'
    <3>1. ASSUME NEW x \in Arrived(d), NEW n \in x[2]..chan[x[1]].sent
          PROVE  <<x[1], n>> \in Arrived(d) \cup Underway(far)'
      <4>1. <<x[1], n>> \in Arrived(d) \cup Underway(far)
        BY <2>1, <2>2, <2>9, <3>1 DEF RestUnderway
      <4>2. CASE far # p
        BY <4>1, <4>2
      <4>3. CASE far = p
        <5>1. chan[d].side = s
          BY <1>0, <2>2, <4>3
        <5>2. chan[d].dlci # chan[w[1]].dlci
          BY <1>2, <2>1, <2>9, <5>1
        <5>3. chan[x[1]].dlci = chan[d].dlci
          BY <2>3, <3>1
        <5>4. <<x[1], n>> # w
          BY <5>2, <5>3
        <5> QED BY <4>1, <4>3, <5>4
      <4> QED BY <4>2, <4>3
    <3>2. ASSUME NEW x \in Arrived(d)'
          PROVE  /\ \A y \in Underway(far)' : Before(x, y)
                 /\ \A n \in x[2]..chan'[x[1]].sent : <<x[1], n>> \in Arrived(d)' \cup Underway(far)'
      BY <1>0, <2>1, <2>3, <2>4, <2>7, <3>1, <3>2
    <3> QED BY <2>2, <3>2 DEF RestUnderway, Peer
  <2> QED BY <2>5, <2>6, <2>8, <2>9
<1> QED BY <1>1, <1>2

\* A step that keeps all that is under way keeps the rest.
LEMMA AllKept ==
    ASSUME CmuxInv, StreamInv, chan' = chan, shut' = shut, \A r \in Sides : Underway(r)' = Underway(r)
    PROVE  /\ LineWhole'
           /\ \A d \in Channels : /\ WrittenByPartner(d)' /\ ArrivedInRuns(d)' /\ Ahead(d)' /\ NotYet(d)'
                                  /\ chan'[d].phase = "open" => RestUnderway(d)'
<1>1. LineWhole'
  <2> SUFFICES ASSUME NEW r \in Sides, ~shut'[Peer(r)], NEW x \in Underway(r)', NEW n \in x[2]..chan'[x[1]].sent
               PROVE  <<x[1], n>> \in Underway(r)'
    BY DEF LineWhole, Peer
  <2>1. x \in Underway(r) /\ n \in x[2]..chan[x[1]].sent /\ ~shut[Peer(r)]
    OBVIOUS
  <2>2. <<x[1], n>> \in Underway(r)
    BY <2>1 DEF LineWhole, StreamInv
  <2> QED BY <2>2
<1>2. ASSUME NEW d \in Channels
      PROVE  /\ WrittenByPartner(d)' /\ ArrivedInRuns(d)' /\ Ahead(d)' /\ NotYet(d)'
             /\ chan'[d].phase = "open" => RestUnderway(d)'
  <2>1. /\ WrittenByPartner(d) /\ ArrivedInRuns(d) /\ Ahead(d) /\ NotYet(d) /\ (chan[d].phase = "open" => RestUnderway(d))
        /\ Stream(d)' = Stream(d) /\ Arrived(d)' = Arrived(d) /\ Channels' = Channels
    BY <1>2 DEF StreamInv, Stream, Arrived, Channels
  <2>2. PICK far \in Sides : far = Peer(chan[d].side)
    BY <1>2, PeersAre, TagsKnown
  <2>3. Underway(far)' = Underway(far)
    OBVIOUS
  <2>4. WrittenByPartner(d)' /\ ArrivedInRuns(d)' /\ NotYet(d)'
    BY <2>1 DEF WrittenByPartner, ArrivedInRuns, NotYet, Peer
  <2>5. Ahead(d)'
    BY <2>1, <2>2, <2>3 DEF Ahead, Peer
  <2>6. ASSUME chan[d].phase = "open" PROVE RestUnderway(d)'
    <3>1. \A x \in Arrived(d) : /\ \A y \in Underway(far) : Before(x, y)
                                /\ \A n \in x[2]..chan[x[1]].sent : <<x[1], n>> \in Arrived(d) \cup Underway(far)
      BY <2>1, <2>2, <2>6 DEF RestUnderway
    <3> QED BY <2>1, <2>2, <2>3, <3>1 DEF RestUnderway, Peer
  <2> QED BY <2>4, <2>5, <2>6
<1> QED BY <1>1, <1>2

\* The worker takes a frame off the bearer.
LEMMA TakesFrame ==
    ASSUME CmuxInv, StreamInv, NEW s \in Sides, NEW p \in Sides, p = Peer(s), HandleData(s)
    PROVE  /\ UNCHANGED <<sessionVars, chan, shut>> /\ work[s].at = "listen" /\ wire[p] # <<>>
           /\ wire' = [wire EXCEPT ![p] = Tail(wire[p])] /\ Head(wire[p]).type = "uih"
           /\ wire'[p] = Tail(wire[p]) /\ \A r \in Sides \ {p} : wire'[r] = wire[r]
           /\ wire[p] \in Seq(Frames) /\ Head(wire[p]) \in Frames
           /\ \A u \in Threads \ {s} : work'[u] = work[u]
           /\ IF table[s][Head(wire[p]).dlci] = 0 THEN work'[s].at = "listen"
              ELSE work'[s].at = "rx" /\ work'[s].frame = Head(wire[p]) /\ work'[s].ch = table[s][Head(wire[p]).dlci]
<1>1. /\ UNCHANGED <<sessionVars, chan, shut>> /\ work[s].at = "listen" /\ wire[p] # <<>>
      /\ wire' = [wire EXCEPT ![p] = Tail(wire[p])] /\ Head(wire[p]).type = "uih" /\ wire[p] \in Seq(Frames)
  BY DEF HandleData, Receive, At, CmuxInv, Types
<1>2. wire'[p] = Tail(wire[p]) /\ \A r \in Sides \ {p} : wire'[r] = wire[r]
  BY <1>1 DEF CmuxInv, Types
<1>3. Head(wire[p]) \in Frames
  BY <1>1
<1>4. /\ Looked(s) = table[s][Head(wire[p]).dlci] /\ Incoming(s) = Head(wire[p])
      /\ IF Looked(s) = 0 THEN work' = work ELSE Handle(s, "rx", Looked(s), Incoming(s), "listen")
  BY DEF HandleData, Looked, Incoming
<1>5. /\ \A u \in Threads \ {s} : work'[u] = work[u]
      /\ IF table[s][Head(wire[p]).dlci] = 0 THEN work'[s].at = "listen"
         ELSE work'[s].at = "rx" /\ work'[s].frame = Head(wire[p]) /\ work'[s].ch = table[s][Head(wire[p]).dlci]
  <2>1. CASE Looked(s) = 0
    BY <1>1, <1>4, <2>1
  <2>2. CASE Looked(s) # 0
    <3>1. PICK c, g : c = Looked(s) /\ g = Incoming(s) /\ Handle(s, "rx", c, g, "listen")
      BY <1>4, <2>2
    <3>2. /\ work'[s].at = "rx" /\ work'[s].frame = g /\ work'[s].ch = c
          /\ \A u \in Threads \ {s} : work'[u] = work[u]
      <4>1. Types
        BY DEF CmuxInv
      <4>2. ASSUME NEW l
            PROVE  \A a, b, then : Handle(s, l, a, b, then) =>
                     /\ work'[s].at = l /\ work'[s].ch = a /\ work'[s].frame = b
                     /\ \A u \in Threads \ {s} : work'[u] = work[u]
        BY <4>1, Walked
      <4> QED BY <3>1, <4>2
    <3>3. table[s][Head(wire[p]).dlci] # 0 /\ work'[s].frame = Head(wire[p]) /\ work'[s].ch = table[s][Head(wire[p]).dlci]
      BY <1>4, <2>2, <3>1, <3>2
    <3> QED BY ONLY <3>2, <3>3
  <2> QED BY <2>1, <2>2
<1> QED BY <1>1, <1>2, <1>3, <1>5

\* Into the hand, or dropped when the number leads nowhere.
LEMMA DataHandled ==
    ASSUME CmuxInv, CmuxInv', StreamInv, NEW s \in Sides, HandleData(s)
    PROVE  StreamInv'
<1>1. PICK p \in Sides : p = Peer(s) /\ Peer(p) = s /\ p # s
  BY PeersAre
<1>2. PICK f : f = Head(wire[p])
  OBVIOUS
<1>3. /\ closed' = closed /\ table' = table /\ chan' = chan /\ shut' = shut /\ Channels' = Channels
      /\ work[s].at = "listen" /\ f.type = "uih" /\ f \in Frames
      /\ \A r \in Sides \ {p} : wire'[r] = wire[r]
      /\ \A u \in Threads \ {s} : work'[u] = work[u]
      /\ IF table[s][f.dlci] = 0 THEN work'[s].at = "listen"
         ELSE work'[s].at = "rx" /\ work'[s].frame = f /\ work'[s].ch = table[s][f.dlci]
  BY <1>1, <1>2, TakesFrame DEF sessionVars, Channels
<1>4. /\ wire'[p] = Tail(wire[p]) /\ wire[p] \in Seq(Frames) /\ wire[p] # <<>>
      /\ f = wire[p][1] /\ 1 \in DOMAIN wire[p]
      /\ \A i \in DOMAIN wire'[p] : i \in Nat /\ i + 1 \in DOMAIN wire[p] /\ wire'[p][i] = wire[p][i + 1]
      /\ \A i \in DOMAIN wire[p] : i # 1 => i - 1 \in DOMAIN wire'[p] /\ wire'[p][i - 1] = wire[p][i]
  <2>1. wire'[p] = Tail(wire[p]) /\ wire[p] \in Seq(Frames) /\ wire[p] # <<>>
    BY <1>1, TakesFrame
  <2>2. /\ Head(wire[p]) = wire[p][1] /\ 1 \in DOMAIN wire[p]
        /\ \A i \in DOMAIN Tail(wire[p]) : i \in Nat /\ i + 1 \in DOMAIN wire[p] /\ Tail(wire[p])[i] = wire[p][i + 1]
        /\ \A i \in DOMAIN wire[p] : i # 1 => i - 1 \in DOMAIN Tail(wire[p]) /\ Tail(wire[p])[i - 1] = wire[p][i]
    BY ONLY <2>1, TailIs
  <2> QED BY <1>2, <2>1, <2>2
<1>5. /\ 1 \in Data(p) /\ \A i \in Data(p)' : i \in Nat /\ i + 1 \in Data(p) /\ wire'[p][i] = wire[p][i + 1]
      /\ \A i \in Data(p) : i # 1 => i - 1 \in Data(p)' /\ wire'[p][i - 1] = wire[p][i]
      /\ \A r \in Sides \ {p} : Data(r)' = Data(r) /\ OnWire(r)' = OnWire(r)
  BY <1>3, <1>4 DEF Data, OnWire
<1>6. OnWire(p) = {f.tag} \cup OnWire(p)'
  <2>1. ASSUME NEW y \in OnWire(p) PROVE y \in {f.tag} \cup OnWire(p)'
    <3>1. PICK i \in Data(p) : y = wire[p][i].tag
      BY <2>1 DEF OnWire
    <3>2. CASE i = 1
      BY <1>4, <3>1, <3>2
    <3>3. CASE i # 1
      <4>1. i - 1 \in Data(p)' /\ wire'[p][i - 1] = wire[p][i]
        BY <1>5, <3>3
      <4> QED BY <3>1, <4>1 DEF OnWire
    <3> QED BY <3>2, <3>3
  <2>2. ASSUME NEW y \in OnWire(p)' PROVE y \in OnWire(p)
    BY <1>5, <2>2 DEF OnWire
  <2>3. f.tag \in OnWire(p)
    BY <1>4, <1>5 DEF OnWire
  <2> QED BY <2>1, <2>2, <2>3
<1>7. \A y \in OnWire(p)' : Before(f.tag, y)
  <2>1. \A i, j \in Data(p) : i < j => Before(wire[p][i].tag, wire[p][j].tag)
    BY DEF StreamInv, SentInOrder
  <2>2. ASSUME NEW i \in Data(p)' PROVE Before(f.tag, wire'[p][i].tag)
    <3>1. 1 \in Data(p) /\ i + 1 \in Data(p) /\ i \in Nat /\ wire'[p][i] = wire[p][i + 1]
      BY <1>5, <2>2
    <3>2. i \in DOMAIN wire'[p] /\ wire'[p] \in Seq(Frames)
      BY <1>4, <2>2 DEF Data, CmuxInv, Types
    <3>3. 1 < i + 1
      BY <3>1, <3>2
    <3> QED BY <1>4, <2>1, <3>1, <3>3
  <2> QED BY <2>2 DEF OnWire
<1>8. \A r \in Sides \ {p} : InHand(r)' = InHand(r) /\ Underway(r)' = Underway(r)
  <2>1. ASSUME NEW r \in Sides, r # p PROVE InHand(r)' = InHand(r)
    <3>1. Peer(r) \in Sides \ {s}
      BY <1>1, <2>1, PeersAre
    <3>2. work'[Peer(r)] = work[Peer(r)]
      BY <1>3, <3>1, SidesOf
    <3> QED BY <3>2 DEF InHand, Peer
  <2> QED BY <1>5, <2>1 DEF Underway
<1>9. InHand(p) = {} /\ InHand(p)' = IF table[s][f.dlci] = 0 THEN {} ELSE {f.tag}
  BY <1>1, <1>3 DEF InHand, Peer
<1>10. Shuts'
  BY <1>1, <1>3, SidesOf DEF Shuts, StreamInv
<1>11. HandPlaced'
  BY <1>1, <1>3, SidesOf DEF HandPlaced, StreamInv
<1>12. LineOwned'
  <2>1. \A r \in Sides : \A i \in Data(r) : Owned(r, wire[r][i])
    BY DEF StreamInv, LineOwned
  <2>2. \A r, g : Owned(r, g)' <=> Owned(r, g)
    BY <1>3 DEF Owned
  <2>3. ASSUME NEW r \in Sides, NEW i \in Data(r)' PROVE Owned(r, wire'[r][i])
    <3>1. CASE r = p
      BY <1>5, <2>1, <2>3, <3>1
    <3>2. CASE r # p
      BY <1>3, <1>5, <2>1, <2>3, <3>2
    <3> QED BY <3>1, <3>2
  <2>4. ASSUME NEW r \in Sides, work'[Peer(r)].at = "rx" PROVE Owned(r, work'[Peer(r)].frame)
    <3>1. CASE r = p
      <4>1. work'[Peer(r)].frame = wire[p][1]
        BY <1>1, <1>3, <1>4, <2>4, <3>1
      <4> QED BY <1>5, <2>1, <3>1, <4>1
    <3>2. CASE r # p
      <4>1. Peer(r) \in Sides \ {s} /\ Peer(r) \in Threads
        BY <1>1, <3>2, PeersAre, SidesOf
      <4>2. work'[Peer(r)] = work[Peer(r)]
        BY <1>3, <4>1
      <4> QED BY <2>4, <4>2 DEF StreamInv, LineOwned
    <3> QED BY <3>1, <3>2
  <2>5. ASSUME NEW r \in Sides, NEW i \in Data(r)' PROVE Owned(r, wire[r][i])'
    <3>1. PICK g : g = wire'[r][i] /\ Owned(r, g)
      BY <2>3, <2>5
    <3> QED BY <1>3, <3>1 DEF Owned
  <2>6. ASSUME NEW r \in Sides, work'[Peer(r)].at = "rx" PROVE Owned(r, work[Peer(r)].frame)'
    <3>1. PICK g : g = work'[Peer(r)].frame /\ Owned(r, g)
      BY <2>4, <2>6
    <3> QED BY <1>3, <3>1 DEF Owned, Peer
  <2> QED BY <2>5, <2>6 DEF LineOwned, Peer
<1>13. ASSUME NEW r \in Sides PROVE SentInOrder(r)'
  <2>1. SentInOrder(r)
    BY <1>13 DEF StreamInv
  <2>2. CASE r = p
    <3>1. ASSUME NEW i \in Data(p)', NEW j \in Data(p)', i < j PROVE Before(wire'[p][i].tag, wire'[p][j].tag)
      <4>1. i + 1 < j + 1
        BY <1>5, <3>1
      <4> QED BY <1>5, <2>1, <2>2, <3>1, <4>1 DEF SentInOrder
    <3>2. \A x \in InHand(p)', y \in OnWire(p)' : Before(x, y)
      BY <1>7, <1>9
    <3> QED BY <2>2, <3>1, <3>2 DEF SentInOrder
  <2>3. CASE r # p
    <3>1. wire'[r] = wire[r] /\ Data(r)' = Data(r) /\ OnWire(r)' = OnWire(r) /\ InHand(r)' = InHand(r)
      BY <1>3, <1>5, <1>8, <2>3
    <3> QED BY <2>1, <3>1 DEF SentInOrder
  <2> QED BY <2>2, <2>3
<1>14. /\ LineWhole'
       /\ \A d \in Channels : /\ WrittenByPartner(d)' /\ ArrivedInRuns(d)' /\ Ahead(d)' /\ NotYet(d)'
                              /\ chan'[d].phase = "open" => RestUnderway(d)'
  <2>1. CASE table[s][f.dlci] # 0
    <3>1. Underway(p)' = Underway(p)
      BY <1>6, <1>9, <2>1 DEF Underway
    <3> QED BY <1>3, <1>8, <3>1, AllKept
  <2>2. CASE table[s][f.dlci] = 0
    <3>1. f.tag \in Underway(p) /\ Underway(p) = {f.tag} \cup Underway(p)' /\ \A y \in Underway(p)' : Before(f.tag, y)
      BY <1>6, <1>7, <1>9, <2>2 DEF Underway
    <3>2. chan[f.tag[1]].dlci = f.dlci
      BY <1>4, <1>5 DEF StreamInv, LineOwned, Owned
    <3>3. ASSUME NEW d \in Channels, chan[d].phase = "open", chan[d].side = s PROVE chan[d].dlci # chan[f.tag[1]].dlci
      <4>1. table[s][chan[d].dlci] = d /\ d # 0
        BY <3>3, OpenIsListed, ChannelsAre DEF StreamInv, CmuxInv
      <4> QED BY <2>2, <3>2, <4>1
    <3>4. SameFields /\ \A d \in Channels : Stream(d)' = Stream(d)
      BY <1>3 DEF SameFields, Stream
    <3> QED BY <1>1, <1>8, <3>1, <3>3, <3>4, FirstTaken
  <2> QED BY <2>1, <2>2
<1> QED BY <1>3, <1>10, <1>11, <1>12, <1>13, <1>14 DEF StreamInv

\* What a sequence that has grown by one holds.
LEMMA OneMore ==
    ASSUME NEW T, NEW q \in Seq(T), NEW w \in T
    PROVE  /\ Len(q) \in Nat /\ Append(q, w) \in Seq(T) /\ Len(Append(q, w)) = Len(q) + 1
           /\ DOMAIN q = 1..Len(q) /\ DOMAIN Append(q, w) = 1..(Len(q) + 1)
           /\ Append(q, w)[Len(q) + 1] = w /\ \A i \in 1..Len(q) : Append(q, w)[i] = q[i]
OBVIOUS

\* Joined to another, it has grown by one.
LEMMA JoinedLast ==
    ASSUME NEW T, NEW p \in Seq(T), NEW q \in Seq(T), NEW w \in T
    PROVE  p \o Append(q, w) = Append(p \o q, w)
<1>1. PICK a, b, l, r : a = p \o q /\ b = Append(q, w) /\ l = p \o b /\ r = Append(a, w)
  OBVIOUS
<1>2. /\ a \in Seq(T) /\ Len(a) = Len(p) + Len(q) /\ Len(p) \in Nat /\ Len(q) \in Nat
      /\ \A i \in 1..Len(p) : a[i] = p[i]
      /\ \A i \in 1..Len(q) : a[Len(p) + i] = q[i]
  BY <1>1, Joined
<1>3. b \in Seq(T) /\ Len(b) = Len(q) + 1 /\ b[Len(q) + 1] = w /\ \A i \in 1..Len(q) : b[i] = q[i]
  BY <1>1, OneMore
<1>4. /\ l \in Seq(T) /\ Len(l) = Len(p) + Len(b)
      /\ \A i \in 1..Len(p) : l[i] = p[i]
      /\ \A i \in 1..Len(b) : l[Len(p) + i] = b[i]
  <2>1. p \in Seq(T) /\ b \in Seq(T)
    BY <1>3
  <2>2. /\ p \o b \in Seq(T) /\ Len(p \o b) = Len(p) + Len(b)
        /\ \A i \in 1..Len(p) : (p \o b)[i] = p[i]
        /\ \A i \in 1..Len(b) : (p \o b)[Len(p) + i] = b[i]
    BY ONLY <2>1, Joined, SMT
  <2> QED BY <1>1, <2>2
<1>5. r \in Seq(T) /\ Len(r) = Len(a) + 1 /\ r[Len(a) + 1] = w /\ \A i \in 1..Len(a) : r[i] = a[i]
  <2>1. a \in Seq(T) /\ w \in T
    BY <1>2
  <2> QED BY <1>1, <2>1, OneMore
<1>6. Len(l) = Len(r)
  BY <1>2, <1>3, <1>4, <1>5
<1>7. ASSUME NEW i \in 1..Len(l) PROVE l[i] = r[i]
  <2>1. CASE i <= Len(p)
    BY <1>2, <1>3, <1>4, <1>5, <1>7, <2>1
  <2>2. CASE i > Len(p)
    <3>1. PICK j \in 1..(Len(q) + 1) : i = Len(p) + j
      <4>1. i - Len(p) \in 1..(Len(q) + 1) /\ i = Len(p) + (i - Len(p))
        BY <1>2, <1>3, <1>4, <1>7, <2>2
      <4> QED BY <4>1
    <3>2. l[i] = b[j]
      BY <1>3, <1>4, <3>1
    <3>3. CASE j = Len(q) + 1
      BY <1>2, <1>3, <1>5, <3>1, <3>2, <3>3
    <3>4. CASE j \in 1..Len(q)
      <4>1. r[i] = a[i] /\ a[i] = q[j] /\ b[j] = q[j]
        BY <1>2, <1>3, <1>5, <3>1, <3>4
      <4> QED BY <3>2, <4>1
    <3> QED BY <1>2, <3>1, <3>3, <3>4
  <2> QED BY <1>2, <1>7, <2>1, <2>2
<1>8. l = r
  <2>1. l \in Seq(T) /\ r \in Seq(T)
    BY <1>4, <1>5
  <2> QED BY <1>6, <1>7, <2>1, SameSeq
<1> QED BY <1>1, <1>8

\* The buffer of one channel grows by one.
LEMMA Grown ==
    ASSUME Types, NEW c \in Channels, NEW w \in Nat \X Nat, chan' = [chan EXCEPT ![c].rx = Append(@, w)]
    PROVE  /\ Channels' = Channels /\ \A d \in Channels : /\ chan'[d].side = chan[d].side /\ chan'[d].dlci = chan[d].dlci
                /\ chan'[d].sent = chan[d].sent /\ chan'[d].phase = chan[d].phase
           /\ \A d \in Channels \ {c} : Stream(d)' = Stream(d)
           /\ Stream(c) \in Seq(Nat \X Nat) /\ Stream(c)' = Append(Stream(c), w)
<1>1. chan[c] \in ChannelType /\ chan' = [chan EXCEPT ![c] = [chan[c] EXCEPT !.rx = Append(chan[c].rx, w)]]
  BY ChannelsAre DEF Types, Channels
<1>2. PICK g : g = [chan[c] EXCEPT !.rx = Append(chan[c].rx, w)]
  OBVIOUS
<1>3. /\ g.side = chan[c].side /\ g.dlci = chan[c].dlci /\ g.sent = chan[c].sent /\ g.phase = chan[c].phase
      /\ g.got = chan[c].got /\ g.rx = Append(chan[c].rx, w)
  BY <1>1, <1>2 DEF ChannelType
<1>4. Channels' = Channels /\ chan'[c] = g /\ \A d \in Channels \ {c} : chan'[d] = chan[d]
  BY <1>1, <1>2 DEF Types, Channels
<1>5. chan[c].got \in Seq(Nat \X Nat) /\ chan[c].rx \in Seq(Nat \X Nat)
  BY <1>1 DEF ChannelType
<1>6. Stream(c)' = chan[c].got \o Append(chan[c].rx, w) /\ Stream(c) = chan[c].got \o chan[c].rx
  BY <1>3, <1>4 DEF Stream
<1>7. Stream(c) \in Seq(Nat \X Nat) /\ Stream(c)' = Append(Stream(c), w)
  <2>1. chan[c].got \o Append(chan[c].rx, w) = Append(chan[c].got \o chan[c].rx, w)
    <3>1. PICK T, p, q : T = Nat \X Nat /\ p = chan[c].got /\ q = chan[c].rx
      OBVIOUS
    <3>2. p \in Seq(T) /\ q \in Seq(T) /\ w \in T
      BY <1>5, <3>1
    <3>3. p \o Append(q, w) = Append(p \o q, w)
      BY ONLY <3>2, JoinedLast, SMTT(30)
    <3> QED BY <3>1, <3>3
  <2>2. chan[c].got \o chan[c].rx \in Seq(Nat \X Nat)
    BY <1>5
  <2> QED BY ONLY <1>6, <2>1, <2>2
<1> QED BY <1>3, <1>4, <1>7 DEF Stream

\* From the hand into the buffer, or dropped when the channel is not open.
LEMMA DataStored ==
    ASSUME CmuxInv, CmuxInv', StreamInv, NEW s \in Sides, StoreData(s)
    PROVE  StreamInv'
<1>1. PICK p \in Sides : p = Peer(s) /\ Peer(p) = s /\ p # s
  BY PeersAre
<1>2. PICK c, f, w : c = work[s].ch /\ f = work[s].frame /\ w = f.tag
  OBVIOUS
<1>3. /\ work[s].at = "rx" /\ c \in Channels /\ chan[c].side = s /\ f \in Frames /\ f.type = "uih"
      /\ table[s][f.dlci] = c /\ f.dlci \in Dlcis /\ c # 0
  <2>1. work[s].at = "rx"
    BY DEF StoreData, Proceeds, At
  <2>2. c \in Channels /\ chan[c].side = s /\ f \in Frames /\ f.type = "uih"
    BY <1>2, <2>1, WorkerAt
  <2>3. f.dlci \in Dlcis
    BY <2>2 DEF Frames, Answers, Types4
  <2> QED BY <1>2, <2>1, <2>2, <2>3, ChannelsAre DEF StreamInv, HandPlaced, CmuxInv
<1>4. chan[c].dlci = f.dlci
  BY <1>3 DEF CmuxInv, Listed
<1>5. /\ closed' = closed /\ table' = table /\ wire' = wire /\ shut' = shut
      /\ IF chan[c].phase = "open" THEN chan' = [chan EXCEPT ![c].rx = Append(@, w)] ELSE chan' = chan
      /\ Goto(s, "listen")
  BY <1>2 DEF StoreData, sessionVars, bearerVars
<1>6. work'[s].at = "listen" /\ \A u \in Threads \ {s} : work'[u] = work[u]
  BY <1>5, Walked DEF CmuxInv
<1>7. /\ w \in Nat \X Nat /\ w[1] \in Channels /\ chan[w[1]].side = p /\ w[2] \in 1..chan[w[1]].sent
      /\ chan[w[1]].dlci = f.dlci /\ w = <<w[1], w[2]>>
  <2>1. Owned(p, f)
    BY <1>1, <1>2, <1>3 DEF StreamInv, LineOwned
  <2>2. w \in Nat \X Nat
    BY <1>2, <1>3 DEF Frames, Answers, Types4
  <2> QED BY <1>2, <2>1, <2>2 DEF Owned
<1>8. SameFields
  <2>1. CASE chan[c].phase = "open"
    BY <1>3, <1>5, <1>7, <2>1, Grown DEF SameFields, CmuxInv
  <2>2. CASE chan[c].phase # "open"
    BY <1>5, <2>2 DEF SameFields, Channels
  <2> QED BY <2>1, <2>2
<1>9. \A r \in Sides : Data(r)' = Data(r) /\ OnWire(r)' = OnWire(r)
  BY <1>5 DEF Data, OnWire
<1>10. \A r \in Sides \ {p} : InHand(r)' = InHand(r) /\ Underway(r)' = Underway(r)
  <2>1. ASSUME NEW r \in Sides, r # p PROVE InHand(r)' = InHand(r)
    <3>1. Peer(r) \in Sides \ {s}
      BY <1>1, <2>1, PeersAre
    <3>2. work'[Peer(r)] = work[Peer(r)]
      BY <1>6, <3>1, SidesOf
    <3> QED BY <3>2 DEF InHand, Peer
  <2> QED BY <1>9, <2>1 DEF Underway
<1>11. InHand(p) = {w} /\ InHand(p)' = {}
  BY <1>1, <1>2, <1>3, <1>6 DEF InHand, Peer
<1>12. w \in Underway(p) /\ Underway(p) = {w} \cup Underway(p)' /\ \A y \in Underway(p)' : Before(w, y)
  BY <1>9, <1>11 DEF Underway, StreamInv, SentInOrder
<1>13. Shuts' /\ HandPlaced'
  BY <1>5, <1>6, SidesOf DEF Shuts, HandPlaced, StreamInv
<1>14. LineOwned'
  <2>1. \A r, g : Owned(r, g) => Owned(r, g)'
    BY <1>8 DEF Owned, SameFields
  <2>2. \A r \in Sides : \A i \in Data(r) : Owned(r, wire[r][i])
    BY DEF StreamInv, LineOwned
  <2>3. ASSUME NEW r \in Sides, NEW i \in Data(r)' PROVE Owned(r, wire[r][i])'
    <3>1. Owned(r, wire[r][i]) /\ wire'[r][i] = wire[r][i]
      BY <1>5, <1>9, <2>2, <2>3
    <3> QED BY <1>8, <3>1 DEF Owned, SameFields
  <2>4. ASSUME NEW r \in Sides, work'[Peer(r)].at = "rx" PROVE Owned(r, work[Peer(r)].frame)'
    <3>1. Peer(r) \in Sides \ {s} /\ Peer(r) \in Threads
      BY <1>6, <2>4, PeersAre, SidesOf
    <3>2. work'[Peer(r)] = work[Peer(r)]
      BY <1>6, <3>1
    <3>3. PICK g : g = work[Peer(r)].frame /\ Owned(r, g)
      BY <2>4, <3>2 DEF StreamInv, LineOwned
    <3>4. Owned(r, g)'
      BY ONLY <1>8, <3>3 DEF Owned, SameFields
    <3> QED BY ONLY <3>2, <3>3, <3>4 DEF Owned, Peer
  <2> QED BY <2>3, <2>4 DEF LineOwned, Peer
<1>15. ASSUME NEW r \in Sides PROVE SentInOrder(r)'
  <2>1. SentInOrder(r) /\ InHand(r)' \subseteq InHand(r)
    BY <1>10, <1>11, <1>15 DEF StreamInv
  <2> QED BY <1>5, <1>9, <2>1 DEF SentInOrder
<1>16. ASSUME NEW d \in Channels, chan[d].phase = "open", chan[d].side = s, chan[d].dlci = chan[w[1]].dlci PROVE d = c
  BY <1>3, <1>7, <1>16, OpenIsListed DEF StreamInv
<1>17. CASE chan[c].phase # "open"
  <2>1. \A d \in Channels : Stream(d)' = Stream(d)
    BY <1>5, <1>17 DEF Stream
  <2>2. \A d \in Channels : chan[d].phase = "open" /\ chan[d].side = s => chan[d].dlci # chan[w[1]].dlci
    BY <1>16, <1>17
  <2>3. /\ LineWhole'
        /\ \A d \in Channels : /\ WrittenByPartner(d)' /\ ArrivedInRuns(d)' /\ Ahead(d)' /\ NotYet(d)'
                               /\ chan'[d].phase = "open" => RestUnderway(d)'
    BY <1>1, <1>8, <1>10, <1>12, <2>1, <2>2, FirstTaken
  <2> QED BY <1>8, <1>13, <1>14, <1>15, <2>3 DEF StreamInv, SameFields
<1>18. CASE chan[c].phase = "open"
  <2>1. /\ \A d \in Channels \ {c} : Stream(d)' = Stream(d)
        /\ Stream(c) \in Seq(Nat \X Nat) /\ Stream(c)' = Append(Stream(c), w)
    BY <1>3, <1>5, <1>7, <1>18, Grown DEF CmuxInv
  <2>2. \A d \in Channels \ {c} : chan[d].phase = "open" /\ chan[d].side = s => chan[d].dlci # chan[w[1]].dlci
    BY <1>16
  <2>3. PICK D \in SUBSET Channels : D = Channels \ {c}
    OBVIOUS
  <2>4. /\ LineWhole'
        /\ \A d \in D : /\ WrittenByPartner(d)' /\ ArrivedInRuns(d)' /\ Ahead(d)' /\ NotYet(d)'
                        /\ chan'[d].phase = "open" => RestUnderway(d)'
    <3>1. \A d \in D : Stream(d)' = Stream(d)
      BY <2>1, <2>3
    <3>2. \A d \in D : chan[d].phase = "open" /\ chan[d].side = s => chan[d].dlci # chan[w[1]].dlci
      BY <2>2, <2>3
    <3>3. w \in Underway(p) /\ Underway(p) = {w} \cup Underway(p)' /\ (\A y \in Underway(p)' : Before(w, y))
          /\ \A r \in Sides \ {p} : Underway(r)' = Underway(r)
      BY <1>10, <1>12
    <3> QED BY <1>1, <1>8, <3>1, <3>2, <3>3, FirstTaken
  <2>5. PICK q, n : q = Stream(c) /\ n = Len(q)
    OBVIOUS
  <2>6. /\ n \in Nat /\ DOMAIN q = 1..n /\ DOMAIN Stream(c)' = 1..(n + 1)
        /\ Stream(c)'[n + 1] = w /\ \A i \in 1..n : Stream(c)'[i] = q[i]
    BY <1>7, <2>1, <2>5, OneMore
  <2>7. Arrived(c)' = Arrived(c) \cup {w}
    <3>1. ASSUME NEW x \in Arrived(c)' PROVE x \in Arrived(c) \cup {w}
      <4>1. PICK i \in 1..(n + 1) : x = Stream(c)'[i]
        BY <2>6, <3>1 DEF Arrived
      <4>2. CASE i = n + 1
        BY <2>6, <4>1, <4>2
      <4>3. CASE i \in 1..n
        BY <2>5, <2>6, <4>1, <4>3 DEF Arrived
      <4> QED BY <2>6, <4>1, <4>2, <4>3
    <3>2. ASSUME NEW x \in Arrived(c) PROVE x \in Arrived(c)'
      <4>1. PICK i \in 1..n : x = q[i]
        BY <2>5, <2>6, <3>2 DEF Arrived
      <4>2. i \in 1..(n + 1) /\ Stream(c)'[i] = x
        BY <2>6, <4>1
      <4> QED BY <2>6, <4>2 DEF Arrived
    <3>3. w \in Arrived(c)'
      <4>1. n + 1 \in 1..(n + 1)
        BY <2>6
      <4> QED BY <2>6, <4>1 DEF Arrived
    <3> QED BY <3>1, <3>2, <3>3
  <2>8. \A x \in Arrived(c) : /\ x \in Nat \X Nat /\ x[1] \in Channels /\ chan[x[1]].side = p
                              /\ chan[x[1]].dlci = chan[c].dlci /\ x[2] \in 1..chan[x[1]].sent
                              /\ \A y \in Underway(p) : Before(x, y)
                              /\ \A m \in x[2]..chan[x[1]].sent : <<x[1], m>> \in Arrived(c) \cup Underway(p)
    <3>1. \A x \in Arrived(c) : /\ x \in Nat \X Nat /\ x[1] \in Channels /\ chan[x[1]].side = p
                                /\ chan[x[1]].dlci = chan[c].dlci /\ x[2] \in 1..chan[x[1]].sent
      BY <1>1, <1>3, TagsKnown
    <3>2. RestUnderway(c)
      BY <1>3, <1>18 DEF StreamInv
    <3>3. \A x \in Arrived(c) : /\ \A y \in Underway(p) : Before(x, y)
                                /\ \A m \in x[2]..chan[x[1]].sent : <<x[1], m>> \in Arrived(c) \cup Underway(p)
      BY <1>1, <1>3, <3>2 DEF RestUnderway
    <3> QED BY <3>1, <3>3
  <2>9. chan'[c].side = s /\ chan'[c].dlci = chan[c].dlci /\ chan'[c].phase = "open"
        /\ \A e \in Channels : e \in Channels' /\ chan'[e].sent = chan[e].sent /\ chan'[e].side = chan[e].side
                               /\ chan'[e].dlci = chan[e].dlci /\ chan[e].sent \in Nat
    BY <1>3, <1>8, <1>18, TagsKnown DEF SameFields
  <2>10. WrittenByPartner(c)'
    <3>1. \A x \in Arrived(c)' : /\ x[1] \in Channels /\ chan[x[1]].side = p /\ chan[x[1]].dlci = chan[c].dlci
                                 /\ x[2] \in 1..chan[x[1]].sent
      BY <1>4, <1>7, <2>7, <2>8
    <3> QED BY <1>1, <2>9, <3>1 DEF WrittenByPartner, Peer
  <2>11. ArrivedInRuns(c)'
    <3>1. ArrivedInRuns(c)
      BY <1>3 DEF StreamInv
    <3>2. ASSUME NEW i \in 1..(n + 1), NEW j \in 1..(n + 1), i < j PROVE Before(Stream(c)'[i], Stream(c)'[j])
      <4>1. i \in 1..n
        BY <2>6, <3>2
      <4>2. CASE j \in 1..n
        BY <2>5, <2>6, <3>1, <3>2, <4>1, <4>2 DEF ArrivedInRuns
      <4>3. CASE j = n + 1
        <5>1. q[i] \in Arrived(c) /\ Stream(c)'[i] = q[i] /\ Stream(c)'[j] = w
          BY <2>5, <2>6, <4>1, <4>3 DEF Arrived
        <5> QED BY <1>12, <2>8, <5>1
      <4> QED BY <2>6, <3>2, <4>2, <4>3
    <3>3. ASSUME NEW x \in Arrived(c)', NEW y \in Arrived(c)', x[1] = y[1], NEW m \in x[2]..y[2]
          PROVE  <<x[1], m>> \in Arrived(c)'
      <4>1. CASE x \in Arrived(c) /\ y \in Arrived(c)
        BY <2>7, <3>1, <3>3, <4>1 DEF ArrivedInRuns
      <4>2. CASE x \in Arrived(c) /\ y = w
        <5>1. m \in Int /\ m <= w[2] /\ m \in x[2]..chan[x[1]].sent
          BY <1>7, <2>8, <2>9, <3>3, <4>2
        <5>2. <<x[1], m>> \in Arrived(c) \cup Underway(p)
          BY <2>8, <4>2, <5>1
        <5>3. ASSUME <<x[1], m>> \in Underway(p)' PROVE FALSE
          <6>1. Before(w, <<x[1], m>>)
            BY <1>12, <5>3
          <6>2. w[2] < m
            BY <3>3, <4>2, <6>1 DEF Before
          <6> QED BY <1>7, <5>1, <6>2
        <5> QED BY <1>12, <2>7, <5>2, <5>3
      <4>3. CASE x = w /\ y \in Arrived(c)
        <5>1. y[2] < w[2]
          BY <1>12, <2>8, <3>3, <4>3 DEF Before
        <5> QED BY <1>7, <2>8, <3>3, <4>3, <5>1
      <4>4. CASE x = w /\ y = w
        <5>1. m = w[2]
          BY <1>7, <3>3, <4>4
        <5> QED BY <1>7, <2>7, <4>4, <5>1
      <4> QED BY <2>7, <3>3, <4>1, <4>2, <4>3, <4>4
    <3> QED BY <2>6, <3>2, <3>3 DEF ArrivedInRuns
  <2>12. \A x \in Arrived(c)', y \in Underway(p)' : Before(x, y)
    BY <1>12, <2>7, <2>8
  <2>13. Ahead(c)'
    BY <1>1, <2>9, <2>12 DEF Ahead, Peer
  <2>14. NotYet(c)'
    BY <2>9 DEF NotYet
  <2>15. RestUnderway(c)'
    <3>1. Arrived(c) \cup Underway(p) \subseteq Arrived(c)' \cup Underway(p)'
      BY <1>12, <2>7
    <3>2. ~shut[s]
      BY <1>3, <1>18, OpenIsListed DEF StreamInv
    <3>3. \A m \in w[2]..chan[w[1]].sent : <<w[1], m>> \in Underway(p)
      BY <1>1, <1>12, <3>2 DEF StreamInv, LineWhole
    <3>4. ASSUME NEW x \in Arrived(c)', NEW m \in x[2]..chan'[x[1]].sent
          PROVE  <<x[1], m>> \in Arrived(c)' \cup Underway(p)'
      <4>1. x[1] \in Channels /\ m \in x[2]..chan[x[1]].sent
        BY <1>7, <2>7, <2>8, <2>9, <3>4
      <4>2. <<x[1], m>> \in Arrived(c) \cup Underway(p)
        BY <2>7, <2>8, <3>3, <4>1
      <4> QED BY <3>1, <4>2
    <3> QED BY <1>1, <2>9, <2>12, <3>4 DEF RestUnderway, Peer
  <2>16. ASSUME NEW d \in Channels'
         PROVE  /\ WrittenByPartner(d)' /\ ArrivedInRuns(d)' /\ Ahead(d)' /\ NotYet(d)'
                /\ chan'[d].phase = "open" => RestUnderway(d)'
    <3>1. d \in Channels
      BY <1>8 DEF SameFields
    <3>2. CASE d # c
      BY <2>3, <2>4, <3>1, <3>2
    <3>3. CASE d = c
      BY <2>10, <2>11, <2>13, <2>14, <2>15, <3>3
    <3> QED BY <3>2, <3>3
  <2> QED BY <1>13, <1>14, <1>15, <2>4, <2>16 DEF StreamInv
<1> QED BY <1>17, <1>18

\* A client writes: the frame is on the bearer, or lost when the peer has closed
\* it, or refused.
LEMMA DataSent ==
    ASSUME CmuxInv, CmuxInv', StreamInv, GoOn, NEW t \in Clients, SendData(t)
    PROVE  StreamInv'
<1>1. PICK s, c : s = Home(t) /\ c = work[t].ch /\ s \in Sides
  BY SidesOf
<1>2. PICK n, f, w : n = chan[c].sent + 1 /\ w = <<c, n>> /\ f = Frame("uih", chan[c].dlci, w)
  OBVIOUS
<1>3. PICK p \in Sides : p = Peer(s) /\ Peer(p) = s /\ p # s
  BY <1>1, PeersAre
<1>4. /\ c \in Channels /\ chan[c].side = s /\ chan[c] \in ChannelType /\ chan[c].sent \in Nat /\ chan[c].dlci \in Dlcis
      /\ n \in Nat /\ n >= 1 /\ f.type = "uih" /\ f.dlci = chan[c].dlci /\ f.tag = w
  <2>1. work[t].at \in Handling
    BY DEF SendData, At, Handling
  <2>2. c \in Channels /\ chan[c].side = s /\ chan[c] \in ChannelType
    BY <1>1, <2>1, Hands
  <2> QED BY <1>2, <2>2 DEF ChannelType, Frame
<1>5. PICK ok \in BOOLEAN : Sends(s, f, ok) /\ chan' = IF ok THEN [chan EXCEPT ![c].sent = @ + 1] ELSE chan
  <2>1. PICK ok \in BOOLEAN : /\ Transmit(t, f, ok)
                              /\ chan' = IF ok THEN [chan EXCEPT ![c].sent = @ + 1] ELSE chan
    BY Zenon, <1>1, <1>2 DEF SendData
  <2>2. Sends(s, f, ok)
    BY <1>1, <2>1, Transmits, Zenon DEF Threads
  <2> QED BY <2>1, <2>2
<1>6. closed' = closed /\ table' = table /\ shut' = shut
  BY <1>5 DEF SendData, Sends, sessionVars
<1>7. \A r \in Sides : work'[r] = work[r]
  <2>1. Step(t) /\ Types
    BY DEF Step, CmuxInv
  <2> QED BY <2>1, ClientAlone, SidesOf
<1>8. CASE ~ok
  <2>1. chan' = chan /\ wire' = wire
    BY <1>5, <1>8 DEF Sends
  <2>2. KeepsData /\ KeepsWire
    BY <1>6, <2>1, SameChannels, SameWire DEF CmuxInv
  <2>3. KeepsHand /\ Shuts'
    BY <1>6, <1>7 DEF KeepsHand, Shuts, StreamInv
  <2> QED BY <2>2, <2>3, QuietKeeps DEF Quiet
<1>9. CASE ok
  <2>1. /\ Channels' = Channels /\ chan'[c].sent = n
        /\ \A d \in Channels : /\ chan'[d].side = chan[d].side /\ chan'[d].dlci = chan[d].dlci
                               /\ chan'[d].phase = chan[d].phase /\ Stream(d)' = Stream(d) /\ Arrived(d)' = Arrived(d)
                               /\ d # c => chan'[d].sent = chan[d].sent
    <3>1. chan' = [chan EXCEPT ![c] = [chan[c] EXCEPT !.sent = n]]
      BY <1>2, <1>4, <1>5, <1>9 DEF CmuxInv, Types, Channels
    <3>2. Channels' = Channels /\ chan'[c] = [chan[c] EXCEPT !.sent = n] /\ \A d \in Channels \ {c} : chan'[d] = chan[d]
      BY <1>4, <3>1 DEF CmuxInv, Types, Channels
    <3>3. /\ chan'[c].side = chan[c].side /\ chan'[c].dlci = chan[c].dlci /\ chan'[c].phase = chan[c].phase
          /\ chan'[c].rx = chan[c].rx /\ chan'[c].got = chan[c].got /\ chan'[c].sent = n
      BY <1>4, <3>2 DEF ChannelType
    <3>4. \A d \in Channels : Stream(d)' = Stream(d)
      BY <3>2, <3>3 DEF Stream
    <3>5. \A d \in Channels : Arrived(d)' = Arrived(d)
      BY <3>4 DEF Arrived
    <3>6. \A d \in Channels : /\ chan'[d].side = chan[d].side /\ chan'[d].dlci = chan[d].dlci
                               /\ chan'[d].phase = chan[d].phase /\ (d # c => chan'[d].sent = chan[d].sent)
      BY ONLY <3>2, <3>3
    <3> QED BY ONLY <3>2, <3>3, <3>4, <3>5, <3>6
  <2>2. ASSUME NEW r \in Sides PROVE InHand(r)' = InHand(r)
    <3>1. work'[Peer(r)] = work[Peer(r)]
      BY <1>7, PeersAre
    <3> QED BY ONLY <3>1 DEF InHand, Peer
  <2>3. \/ shut[p] /\ wire' = wire
        \/ ~shut[s] /\ ~shut[p] /\ wire'[s] = Append(wire[s], f) /\ \A r \in Sides \ {s} : wire'[r] = wire[r]
    BY <1>1, <1>3, <1>5, <1>9 DEF Sends, CmuxInv, Types
  <2>4. PICK k : k = Len(wire[s]) + 1
    OBVIOUS
  <2>5. ASSUME ~shut[p]
        PROVE  /\ k \in Data(s)' /\ wire'[s][k] = f /\ k \notin Data(s)
               /\ \A i \in Data(s) : i \in Data(s)' /\ wire'[s][i] = wire[s][i] /\ i < k
               /\ \A i \in Data(s)' : i \in Data(s) \/ i = k
               /\ \A r \in Sides \ {s} : wire'[r] = wire[r]
    <3>1. wire[s] \in Seq(Frames) /\ wire'[s] = Append(wire[s], f) /\ \A r \in Sides \ {s} : wire'[r] = wire[r]
      BY <1>1, <2>3, <2>5 DEF CmuxInv, Types
    <3>2. /\ k \in DOMAIN wire'[s] /\ wire'[s][k] = f /\ k \notin DOMAIN wire[s]
          /\ \A i \in DOMAIN wire[s] : i \in DOMAIN wire'[s] /\ wire'[s][i] = wire[s][i] /\ i < k
          /\ \A i \in DOMAIN wire'[s] : i \in DOMAIN wire[s] \/ i = k
      BY ONLY <2>4, <3>1
    <3> QED BY <1>4, <3>1, <3>2 DEF Data
  <2>6. /\ shut[p] => \A r \in Sides : OnWire(r)' = OnWire(r) /\ Data(r)' = Data(r) /\ wire'[r] = wire[r]
        /\ ~shut[p] => /\ OnWire(s)' = OnWire(s) \cup {w}
                       /\ \A r \in Sides \ {s} : OnWire(r)' = OnWire(r) /\ Data(r)' = Data(r) /\ wire'[r] = wire[r]
    <3>1. CASE shut[p]
      <4>1. wire' = wire
        BY <2>3, <3>1
      <4> QED BY <3>1, <4>1 DEF OnWire, Data
    <3>2. CASE ~shut[p]
      <4>1. \A r \in Sides \ {s} : OnWire(r)' = OnWire(r) /\ Data(r)' = Data(r) /\ wire'[r] = wire[r]
        BY <2>5, <3>2 DEF OnWire, Data
      <4>2. ASSUME NEW y \in OnWire(s)' PROVE y \in OnWire(s) \cup {w}
        BY <1>4, <2>5, <3>2, <4>2 DEF OnWire
      <4>3. ASSUME NEW y \in OnWire(s) \cup {w} PROVE y \in OnWire(s)'
        BY <1>4, <2>5, <3>2, <4>3 DEF OnWire
      <4> QED BY <3>2, <4>1, <4>2, <4>3
    <3> QED BY <3>1, <3>2
  <2>7. /\ \A r \in Sides \ {s} : Underway(r)' = Underway(r)
        /\ shut[p] => Underway(s)' = Underway(s)
        /\ ~shut[p] => Underway(s)' = Underway(s) \cup {w}
    BY <1>1, <2>2, <2>6 DEF Underway
  <2>8. /\ \A r \in Sides : \A x \in Underway(r) : /\ x \in Nat \X Nat /\ x[1] \in Channels /\ chan[x[1]].side = r
                                                  /\ x[2] \in 1..chan[x[1]].sent
        /\ \A d \in Channels : chan[d].sent \in Nat
    BY TagsKnown
  <2>9. \A r \in Sides : \A x \in Underway(r) : Before(x, w) /\ x[2] \in 1..chan'[x[1]].sent
    <3> SUFFICES ASSUME NEW r \in Sides, NEW x \in Underway(r) PROVE Before(x, w) /\ x[2] \in 1..chan'[x[1]].sent
      OBVIOUS
    <3>1. CASE x[1] = c
      BY <1>2, <1>4, <2>1, <2>8, <3>1 DEF Before
    <3>2. CASE x[1] # c
      BY <1>2, <2>1, <2>8, <3>2 DEF Before
    <3> QED BY <3>1, <3>2
  <2>10. Shuts' /\ HandPlaced'
    BY <1>6, <1>7 DEF Shuts, HandPlaced, StreamInv
  <2>11. LineOwned'
    <3>1. ASSUME NEW r \in Sides, NEW g, Owned(r, g) PROVE Owned(r, g)'
      BY <1>2, <1>4, <2>1, <2>8, <3>1 DEF Owned
    <3>2. ASSUME NEW r \in Sides, NEW i \in Data(r) PROVE Owned(r, wire[r][i])
      BY <3>2 DEF LineOwned, StreamInv
    <3>3. ASSUME NEW r \in Sides, NEW i \in Data(r)' PROVE Owned(r, wire[r][i])'
      <4>1. CASE i \in Data(r) /\ wire'[r][i] = wire[r][i]
        <5>1. PICK g : g = wire[r][i] /\ Owned(r, g)
          BY <3>2, <4>1
        <5>2. Owned(r, g)'
          BY <3>1, <5>1
        <5> QED BY <4>1, <5>1, <5>2 DEF Owned
      <4>2. CASE r = s /\ wire'[s][i] = f
        BY <1>2, <1>4, <2>1, <4>2 DEF Owned
      <4> QED BY <2>5, <2>6, <3>3, <4>1, <4>2
    <3>4. ASSUME NEW r \in Sides, work'[Peer(r)].at = "rx" PROVE Owned(r, work[Peer(r)].frame)'
      <4>1. work'[Peer(r)] = work[Peer(r)]
        BY <1>7, <3>4, PeersAre
      <4>2. PICK g : g = work[Peer(r)].frame /\ g = work'[Peer(r)].frame /\ Owned(r, g)
        BY <3>4, <4>1 DEF LineOwned, StreamInv
      <4>3. Owned(r, g)'
        BY <3>1, <3>4, <4>2
      <4> QED BY <4>2, <4>3 DEF Owned, Peer
    <3> QED BY <3>3, <3>4 DEF LineOwned, Peer
  <2>12. LineWhole'
    <3> SUFFICES ASSUME NEW r \in Sides, ~shut'[Peer(r)], NEW x \in Underway(r)', NEW m \in x[2]..chan'[x[1]].sent
                 PROVE  <<x[1], m>> \in Underway(r)'
      BY DEF LineWhole, Peer
    <3>1. ~shut[Peer(r)]
      BY <1>6
    <3>2. ASSUME x \in Underway(r), m \in x[2]..chan[x[1]].sent PROVE <<x[1], m>> \in Underway(r)'
      <4>1. <<x[1], m>> \in Underway(r)
        BY <3>1, <3>2 DEF LineWhole, StreamInv
      <4> QED BY <2>7, <4>1
    <3>3. CASE r # s
      <4>1. x \in Underway(r) /\ x[1] \in Channels /\ x[1] # c
        BY <1>4, <2>7, <2>8, <3>3
      <4> QED BY <2>1, <3>2, <4>1
    <3>4. CASE r = s
      <4>1. Underway(s)' = Underway(s) \cup {w}
        BY <1>3, <2>7, <3>1, <3>4
      <4>2. CASE x = w
        <5>1. m = n /\ <<x[1], m>> = w
          BY <1>2, <1>4, <2>1, <4>2
        <5> QED BY <3>4, <4>1, <5>1
      <4>3. CASE x \in Underway(s)
        <5>1. CASE m \in x[2]..chan[x[1]].sent
          BY <3>2, <3>4, <4>3, <5>1
        <5>2. CASE m \notin x[2]..chan[x[1]].sent
          <6>1. x[1] = c
            <7>1. x[1] \in Channels
              BY <1>1, <2>8, <4>3
            <7>2. chan'[x[1]].sent # chan[x[1]].sent
              BY <5>2
            <7> QED BY <2>1, <7>1, <7>2
          <6>2. m = n
            BY <1>2, <1>4, <2>1, <2>8, <4>3, <5>2, <6>1
          <6> QED BY <1>2, <3>4, <4>1, <6>1, <6>2
        <5> QED BY <5>1, <5>2
      <4> QED BY <3>4, <4>1, <4>2, <4>3
    <3> QED BY <3>3, <3>4
  <2>13. ASSUME NEW r \in Sides PROVE SentInOrder(r)'
    <3>1. SentInOrder(r)
      BY <2>13 DEF StreamInv
    <3>2. CASE OnWire(r)' = OnWire(r) /\ Data(r)' = Data(r) /\ wire'[r] = wire[r]
      BY <2>2, <2>13, <3>1, <3>2 DEF SentInOrder
    <3>3. CASE r = s /\ ~shut[p]
      <4>1. ASSUME NEW i \in Data(s)', NEW j \in Data(s)', i < j PROVE Before(wire'[s][i].tag, wire'[s][j].tag)
        <5>1. k \in Nat /\ i \in Nat /\ j \in Nat
          <6>1. i \in DOMAIN wire'[s] /\ j \in DOMAIN wire'[s]
            BY <4>1 DEF Data
          <6>2. wire[s] \in Seq(Frames) /\ wire'[s] \in Seq(Frames)
            BY <1>1 DEF CmuxInv, Types
          <6> QED BY ONLY <2>4, <6>1, <6>2
        <5>2. CASE i \in Data(s) /\ j \in Data(s)
          <6>1. Before(wire[s][i].tag, wire[s][j].tag)
            BY <3>1, <3>3, <4>1, <5>2 DEF SentInOrder
          <6> QED BY <2>5, <3>3, <5>2, <6>1
        <5>3. CASE i \in Data(s) /\ j = k
          <6>1. wire[s][i].tag \in Underway(s) /\ wire'[s][i] = wire[s][i] /\ wire'[s][j].tag = w
            BY <1>4, <2>5, <3>3, <5>3 DEF Underway, OnWire
          <6> QED BY <1>1, <2>9, <6>1
        <5>4. i # k
          BY <2>5, <3>3, <4>1, <5>1
        <5> QED BY <2>5, <3>3, <4>1, <5>2, <5>3, <5>4
      <4>2. \A x \in InHand(s)', y \in OnWire(s)' : Before(x, y)
        <5>1. \A x \in InHand(s) : x \in Underway(s)
          BY DEF Underway
        <5> QED BY <1>1, <2>2, <2>6, <2>9, <3>1, <3>3, <5>1 DEF SentInOrder
      <4> QED BY <3>3, <4>1, <4>2 DEF SentInOrder
    <3> QED BY <2>6, <2>13, <3>2, <3>3
  <2>14. ASSUME NEW d \in Channels
         PROVE  /\ WrittenByPartner(d)' /\ ArrivedInRuns(d)' /\ Ahead(d)' /\ NotYet(d)'
                /\ chan'[d].phase = "open" => RestUnderway(d)'
    <3>1. WrittenByPartner(d) /\ ArrivedInRuns(d) /\ Ahead(d) /\ NotYet(d) /\ (chan[d].phase = "open" => RestUnderway(d))
      BY <2>14 DEF StreamInv
    <3>2. /\ Stream(d)' = Stream(d) /\ Arrived(d)' = Arrived(d) /\ chan'[d].side = chan[d].side /\ chan'[d].dlci = chan[d].dlci
          /\ chan'[d].phase = chan[d].phase
      BY <2>1, <2>14
    <3>3. PICK far \in Sides : far = Peer(chan[d].side) /\ far = Peer(chan'[d].side) /\ Peer(far) = chan[d].side
      BY <2>14, <3>2, PeersAre, TagsKnown
    <3>4. \A x \in Arrived(d) : /\ x \in Nat \X Nat /\ x[1] \in Channels /\ chan[x[1]].side = far
                                /\ chan[x[1]].dlci = chan[d].dlci /\ x[2] \in 1..chan[x[1]].sent
      BY <2>14, <3>3, TagsKnown
    <3>5. \A x \in Arrived(d) : x[2] \in 1..chan'[x[1]].sent /\ Before(x, w)
      <4> SUFFICES ASSUME NEW x \in Arrived(d) PROVE x[2] \in 1..chan'[x[1]].sent /\ Before(x, w)
        OBVIOUS
      <4>1. CASE x[1] = c
        BY <1>2, <1>4, <2>1, <3>4, <4>1 DEF Before
      <4>2. CASE x[1] # c
        BY <1>2, <2>1, <3>4, <4>2 DEF Before
      <4> QED BY <4>1, <4>2
    <3>6. WrittenByPartner(d)'
      BY <2>1, <3>2, <3>3, <3>4, <3>5 DEF WrittenByPartner, Peer
    <3>7. ArrivedInRuns(d)' /\ NotYet(d)'
      BY <3>1, <3>2 DEF ArrivedInRuns, NotYet
    <3>8. \A x \in Arrived(d), y \in Underway(far)' : Before(x, y)
      <4>1. \A x \in Arrived(d), y \in Underway(far) : Before(x, y)
        BY <3>1, <3>3 DEF Ahead
      <4>2. Underway(far)' \subseteq Underway(far) \cup {w}
        BY <2>7
      <4> QED BY <3>5, <4>1, <4>2
    <3>9. Ahead(d)'
      BY <3>2, <3>3, <3>8 DEF Ahead, Peer
    <3>10. ASSUME chan'[d].phase = "open" PROVE RestUnderway(d)'
      <4>1. chan[d].phase = "open" /\ ~shut[Peer(far)]
        <5>1. chan[d].phase = "open" /\ Shuts
          BY <3>2, <3>10 DEF StreamInv
        <5>2. ~shut[chan[d].side]
          BY <2>14, <5>1, OpenIsListed
        <5> QED BY <3>3, <5>1, <5>2
      <4>2. ASSUME NEW x \in Arrived(d), NEW m \in x[2]..chan'[x[1]].sent
            PROVE  <<x[1], m>> \in Arrived(d) \cup Underway(far)'
        <5>1. CASE m \in x[2]..chan[x[1]].sent
          <6>1. <<x[1], m>> \in Arrived(d) \cup Underway(far)
            BY <3>1, <3>3, <4>1, <4>2, <5>1 DEF RestUnderway
          <6> QED BY <2>7, <6>1
        <5>2. CASE m \notin x[2]..chan[x[1]].sent
          <6>1. x[1] = c
            BY <2>1, <3>4, <4>2, <5>2
          <6>2. m = n
            BY <1>2, <1>4, <2>1, <3>4, <4>2, <5>2, <6>1
          <6>3. far = s
            BY <1>4, <3>4, <4>2, <6>1
          <6>4. w \in Underway(far)'
            BY SMTT(30), <1>3, <2>7, <4>1, <6>3
          <6> QED BY <1>2, <6>1, <6>2, <6>4
        <5> QED BY <5>1, <5>2
      <4>3. ASSUME NEW x \in Arrived(d)'
            PROVE  /\ \A y \in Underway(far)' : Before(x, y)
                   /\ \A m \in x[2]..chan'[x[1]].sent : <<x[1], m>> \in Arrived(d)' \cup Underway(far)'
        BY <3>2, <3>8, <4>2, <4>3
      <4> QED BY <3>3, <4>3 DEF RestUnderway, Peer
    <3> QED BY <3>6, <3>7, <3>9, <3>10
  <2> QED BY <2>1, <2>10, <2>11, <2>12, <2>13, <2>14 DEF StreamInv
<1> QED BY <1>8, <1>9

\* The streams begin empty,
LEMMA StreamInit == ASSUME Init, CmuxInv PROVE StreamInv
<1>1. /\ chan = <<>> /\ Channels = {} /\ \A s \in Sides : closed[s] = FALSE /\ shut[s] = FALSE
      /\ \A s \in Sides : Data(s) = {} /\ work[s].at = "listen"
  <2>1. \A s \in Sides : \A i \in DOMAIN wire[s] : wire[s][i].type # "uih"
    BY DEF Init, Frame
  <2> QED BY <2>1, SidesOf DEF Init, Channels, Data, Idle, Threads
<1>2. \A s \in Sides : work[Peer(s)].at = "listen" /\ OnWire(s) = {} /\ InHand(s) = {} /\ Underway(s) = {}
  BY <1>1, PeersAre DEF OnWire, InHand, Underway
<1>3. Shuts /\ HandPlaced /\ LineOwned /\ LineWhole
  BY <1>1, <1>2 DEF Shuts, HandPlaced, LineOwned, LineWhole
<1>4. \A s \in Sides : SentInOrder(s)
  BY <1>1, <1>2 DEF SentInOrder
<1> QED BY <1>1, <1>3, <1>4 DEF StreamInv

\* and every step keeps them.
LEMMA StreamStep == ASSUME CmuxInv, StreamInv, [Next]_vars PROVE StreamInv'
<1>0. CmuxInv' /\ GoOn
  <2>1. CmuxInv'
    BY CmuxStep
  <2>2. GoOn
    BY <2>1, NextGoesOn DEF CmuxInv
  <2> QED BY <2>1, <2>2
<1>1. ASSUME NEW t \in Clients, Start(t) \/ Step(t) PROVE StreamInv'
  <2>1. CASE SendData(t)
    BY <1>0, <2>1, DataSent
  <2>2. CASE Sleep(t)
    BY <1>0, <2>2, StillStreams DEF Sleep
  <2>3. CASE ~SendData(t) /\ ~Sleep(t)
    BY <1>0, <1>1, <2>3, ClientStreams
  <2> QED BY <2>1, <2>2, <2>3
<1>2. ASSUME NEW s \in Sides, Work(s) PROVE StreamInv'
  <2>1. CASE HandleData(s)
    BY <1>0, <2>1, DataHandled
  <2>2. CASE StoreData(s)
    BY <1>0, <2>2, DataStored
  <2>3. CASE Sleep(s)
    BY <1>0, <2>3, StillStreams DEF Sleep
  <2>4. CASE Controls(s)
    BY <1>0, <2>4, WorkerStreams
  <2> QED BY <1>2, <2>1, <2>2, <2>3, <2>4 DEF Work, Controls
<1>3. ASSUME NEW t \in Threads, WakeSpuriously(t) PROVE StreamInv'
  BY <1>0, <1>3, StillStreams DEF WakeSpuriously
<1>4. CASE UNCHANGED vars
  <2>1. UNCHANGED <<sessionVars, chan, bearerVars, work>>
    BY <1>4 DEF vars
  <2> QED BY <1>0, <2>1, StillStreams
<1> QED BY <1>1, <1>2, <1>3, <1>4 DEF Next

\* Nothing that is written on an open channel is lost, doubled or overtaken: what a
\* channel has received of a channel of the peer is a run of what that one wrote,
\* and the rest is under way behind it as long as the channel is open; with any
\* number of channels, clients and closings, and bounds of any size.
THEOREM StreamsContiguous == Spec => []StreamContiguous
<1>1. Init => CmuxInv /\ StreamInv
  BY CmuxInit, StreamInit
<1>2. CmuxInv /\ StreamInv /\ [Next]_vars => CmuxInv' /\ StreamInv'
  BY CmuxStep, StreamStep
<1>3. StreamInv => StreamContiguous
  BY DEF StreamInv, StreamContiguous
<1> QED BY <1>1, <1>2, <1>3, PTL DEF Spec
=============================================================================
