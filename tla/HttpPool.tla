-------------------------------- MODULE HttpPool --------------------------------
(* The connections of the HTTP client, glib/lib/net/http/Transport.zig: idle    *)
(* ones are taken again, a limit for each host makes requests wait for each     *)
(* other, closeIdleConnections starts a new generation. What is done under      *)
(* idle_mu at one go is one step; TLS, proxies and the exchange itself are one  *)
(* event with an outcome.                                                       *)
EXTENDS Naturals, Sequences, FiniteSets, FiniteSetsExt, SequencesExt

CONSTANTS Hosts, Requests, Conns,
          Kinds,        \* of requests: whether the connection may be reused, whether a context ends the wait
          Caps,         \* values of max_conns_per_host; 0 is no limit
          MaxIdle, MaxIdlePerHost,
          MaxGenerations, MaxRounds  \* bounds: closeIdleConnections, requests sent

VARIABLES pool,   \* the limit, the generation, the idle list, the host states
          conn,   \* what each connection is, with the generations it was begun in and carries
          req,    \* where each request is
          lost    \* sleepers that were not signalled because one that was left, or could not use it
vars == <<pool, conn, req, lost>>

NoConn == [st |-> "none", host |-> "", keyed |-> FALSE, born |-> 0, gen |-> 0]
Quiet  == [pc |-> "idle", host |-> "", reuse |-> FALSE, ctx |-> FALSE, conn |-> "", reused |-> FALSE, retried |-> FALSE, woken |-> FALSE]

Init ==
    /\ \E cap \in Caps : pool = [cap |-> cap, gen |-> 0, idle |-> <<>>, hosts |-> <<>>, moved |-> FALSE, stuck |-> FALSE, rounds |-> 0]
    /\ conn = [c \in Conns |-> NoConn] /\ req = [r \in Requests |-> Quiet] /\ lost = {}

PoolTypeOK ==
    /\ pool.gen \in 0..MaxGenerations /\ pool.idle \in Seq(Conns)
    /\ \A i \in DOMAIN pool.hosts : pool.hosts[i].live \in Nat /\ pool.hosts[i].waiters \in Nat
    /\ \A c \in Conns : conn[c].st \in {"none", "dials", "leased", "idle"}

Sleepers(h) == {r \in Requests : req[r].pc = "sleeps" /\ req[r].host = h}
Open(h)     == {c \in Conns : conn[c].st # "none" /\ conn[c].host = h /\ conn[c].keyed}

----------------------------------------------------------------------------
(* The host states, a list whose entries waiters point into.                *)
IndexOf(p, h) == {i \in DOMAIN p.hosts : p.hosts[i].host = h}
Live(p, h)    == SumSet({p.hosts[i].live : i \in IndexOf(p, h)})
Waits(p, from) == \E i \in DOMAIN p.hosts : i >= from /\ p.hosts[i].waiters # 0

\* getOrCreateHostStateLocked; the list may be moved to grow
GetOrCreate(p, h) ==
    IF IndexOf(p, h) # {} THEN p
    ELSE [p EXCEPT !.hosts = Append(@, [host |-> h, live |-> 0, waiters |-> 0]), !.moved = @ \/ Waits(p, 1)]

Changed(p, h, dlive, dwaiters) ==
    [p EXCEPT !.hosts = [i \in DOMAIN @ |->
        IF @[i].host = h THEN [@[i] EXCEPT !.live = dlive[@], !.waiters = dwaiters[@]] ELSE @[i]]]
Same == [n \in 0..Cardinality(Conns \cup Requests) |-> n]
Up   == [n \in DOMAIN Same |-> n + 1]
Down == [n \in DOMAIN Same |-> IF n = 0 THEN 0 ELSE n - 1]

\* mutant: an entry is kept for as long as there is one
NoteClosedUncounted(p, h) ==
    IF p.cap = 0 \/ IndexOf(p, h) = {} THEN p
    ELSE LET i == CHOOSE i \in IndexOf(p, h) : TRUE
             e == p.hosts[i]
         IN  IF e.live <= 1 /\ e.waiters = 0
             THEN [p EXCEPT !.hosts = RemoveAt(@, i), !.moved = @ \/ Waits(p, i + 1)] ELSE p

\* noteConnClosedLocked; the last connection takes the entry with it, and those
\* behind it move
NoteClosed(p, h) ==
    IF p.cap = 0 \/ IndexOf(p, h) = {} THEN p
    ELSE LET i == CHOOSE i \in IndexOf(p, h) : TRUE
             e == p.hosts[i]
         IN  IF e.live <= 1 /\ e.waiters = 0
             THEN [p EXCEPT !.hosts = RemoveAt(@, i), !.moved = @ \/ Waits(p, i + 1)]
             ELSE Changed(p, h, Down, Same)

\* the requests that the closing, or the pooling, of these connections wakes:
\* one of those that sleep for each
Woken(cs) ==
    {W \in SUBSET {r \in Requests : req[r].pc = "sleeps"} :
        \A h \in Hosts : Cardinality(W \cap Sleepers(h)) =
            Min({Cardinality(Sleepers(h)), Cardinality({c \in cs : conn[c].host = h})})}

Closed(p, cs) == FoldSet(LAMBDA c, q : NoteClosed(q, conn[c].host), p, cs)
Reqs(W, r, to) == [q \in Requests |-> IF q = r THEN to ELSE IF q \in W THEN [req[q] EXCEPT !.pc = "woken"] ELSE req[q]]
Gone(cs) == [c \in Conns |-> IF c \in cs THEN NoConn ELSE conn[c]]

\* pruneExpiredIdleLocked: those that have been idle the longest
Expired == {ToSet(SubSeq(pool.idle, 1, k)) : k \in 0..Len(pool.idle)}
Pruned(cs) == [Closed(pool, cs) EXCEPT !.idle = SelectSeq(@, LAMBDA c : c \notin cs)]

----------------------------------------------------------------------------
(* acquireConn and acquireConnWithLimit.                                    *)
\* requests that are not under way are interchangeable, and so are the hosts as
\* long as there was none, or where they have no limit to count against
Begin ==
    LET quiet == {r \in Requests : req[r].pc = "idle"}
        r == CHOOSE r \in quiet : TRUE
    IN
    /\ quiet # {} /\ pool.rounds < MaxRounds
    /\ \E h \in Hosts, k \in Kinds :
         /\ pool.rounds = 0 \/ pool.cap = 0 => h = CHOOSE d \in Hosts : TRUE
         /\ req' = [req EXCEPT ![r] = [Quiet EXCEPT !.pc = "acquires", !.host = h, !.reuse = k.reuse, !.ctx = k.ctx]]
    /\ pool' = [pool EXCEPT !.rounds = @ + 1] /\ UNCHANGED <<conn, lost>>

Candidates(p, h) == {i \in DOMAIN p.idle : conn[p.idle[i]].host = h}

\* takeIdleConnLocked: the newest; it carries the generation of now
Take(r, cs, W, p) ==
    LET c == p.idle[Max(Candidates(p, req[r].host))] IN
    /\ pool' = [p EXCEPT !.idle = SelectSeq(@, LAMBDA d : d # c)]
    /\ conn' = [Gone(cs) EXCEPT ![c] = [@ EXCEPT !.st = "leased", !.gen = p.gen, !.born = p.gen]]
    /\ req' = Reqs(W, r, [req[r] EXCEPT !.pc = "leased", !.conn = c, !.reused = TRUE])

\* the place is counted before the dial, the generation is that of now
Dial(r, cs, W, p, keyed) ==
    LET free == {c \in Conns : conn[c].st = "none"}
        c == CHOOSE c \in free : TRUE
    IN
      /\ free # {} /\ pool' = p
      /\ conn' = [Gone(cs) EXCEPT ![c] = [st |-> "dials", host |-> req[r].host, keyed |-> keyed, born |-> p.gen, gen |-> p.gen]]
      /\ req' = Reqs(W, r, [req[r] EXCEPT !.pc = "dials", !.conn = c, !.reused = FALSE])

\* mutant: the limit is compared after the place has been counted
AcquireBeyond(r) ==
    LET h == req[r].host IN
    /\ req[r].pc = "acquires" /\ UNCHANGED lost
    /\ \E cs \in Expired : \E W \in Woken(cs) :
         LET p == Pruned(cs)
             q == GetOrCreate(p, h)
         IN  \/ req[r].reuse /\ Candidates(p, h) # {} /\ Take(r, cs, W, p)
             \/ /\ ~(req[r].reuse /\ Candidates(p, h) # {}) /\ p.cap # 0 /\ Live(q, h) <= p.cap
                /\ Dial(r, cs, W, Changed(q, h, Up, Same), TRUE)

AcquireLimited(r) ==
    LET h == req[r].host IN
    /\ req[r].pc = "acquires" /\ pool.cap # 0
    /\ \E cs \in Expired : \E W \in Woken(cs) :
         LET p == Pruned(cs)
             q == GetOrCreate(p, h)
             take == req[r].reuse /\ Candidates(p, h) # {}
         IN  \/ take /\ Take(r, cs, W, p) /\ UNCHANGED lost
             \/ ~take /\ Live(q, h) < p.cap /\ Dial(r, cs, W, Changed(q, h, Up, Same), TRUE) /\ UNCHANGED lost
             \/ /\ ~take /\ Live(q, h) >= p.cap
                /\ pool' = Changed(q, h, Same, Up) /\ conn' = Gone(cs)
                /\ req' = Reqs(W, r, [req[r] EXCEPT !.pc = "sleeps"])
                /\ lost' = IF req[r].woken /\ Candidates(p, h) # {} THEN (lost \ W) \cup (Sleepers(h) \ W) ELSE lost \ W
             \* no memory for the host's entry: the request fails and keeps the lock
             \/ /\ ~take /\ IndexOf(p, h) = {}
                /\ pool' = [p EXCEPT !.stuck = TRUE] /\ conn' = Gone(cs)
                /\ req' = Reqs(W, r, Quiet) /\ lost' = lost \ W

AcquireUnlimited(r) ==
    /\ req[r].pc = "acquires" /\ pool.cap = 0 /\ UNCHANGED lost
    /\ \/ ~req[r].reuse /\ Dial(r, {}, {}, pool, FALSE)
       \/ /\ req[r].reuse
          /\ \E cs \in Expired :
               LET p == Pruned(cs) IN
               IF Candidates(p, req[r].host) # {} THEN Take(r, cs, {}, p) ELSE Dial(r, cs, {}, p, TRUE)

\* the wait ends: signalled, or, with a context, after 25 ms; waiters is counted
\* down and the request looks again, or leaves with its context's error
Resume(r) ==
    LET signalled == req[r].pc = "woken" IN
    /\ signalled \/ (req[r].pc = "sleeps" /\ req[r].ctx)
    /\ pool' = Changed(pool, req[r].host, Same, Down) /\ UNCHANGED conn
    /\ \/ req' = [req EXCEPT ![r].pc = "acquires", ![r].woken = signalled] /\ lost' = lost \ {r}
       \/ /\ req[r].ctx /\ req' = [req EXCEPT ![r] = Quiet]
          /\ lost' = (IF signalled THEN lost \cup Sleepers(req[r].host) ELSE lost) \ {r}

----------------------------------------------------------------------------
(* The dial, the exchange, and what becomes of the connection.              *)
Goes(r, pc) == req' = [req EXCEPT ![r].pc = pc]

\* a dial that fails gives its place back; without a limit the generation is
\* read after the dial
Dialed(r) ==
    /\ req[r].pc = "dials" /\ UNCHANGED <<pool, lost>>
    /\ \/ Goes(r, "discards") /\ UNCHANGED conn
       \/ /\ Goes(r, "leased")
          /\ conn' = [conn EXCEPT ![req[r].conn] =
                 [@ EXCEPT !.st = "leased", !.gen = IF pool.cap = 0 THEN pool.gen ELSE @]]

\* a reused connection that the server had closed is tried again once
Exchange(r) ==
    /\ req[r].pc = "leased" /\ UNCHANGED <<pool, conn, lost>>
    /\ \/ Goes(r, "discards")
       \/ req[r].reuse /\ Goes(r, "releases")
       \/ req[r].reused /\ ~req[r].retried /\ Goes(r, "retries")

\* mutant: a connection of an old generation is pooled again
ReleaseOld(r) ==
    LET c == req[r].conn
        h == req[r].host
    IN  /\ req[r].pc = "releases"
        /\ \E cs \in Expired, W \in Woken({c}) :
             /\ cs = {} /\ Len(pool.idle) < MaxIdle /\ lost' = lost \ W
             /\ pool' = [pool EXCEPT !.idle = Append(@, c)] /\ conn' = [conn EXCEPT ![c].st = "idle"]
             /\ req' = Reqs(W, r, Quiet)

\* releaseConn
Release(r) ==
    LET c == req[r].conn IN
    /\ req[r].pc = "releases"
    /\ \E cs \in Expired :
         LET p == Pruned(cs)
             room == /\ conn[c].gen = p.gen /\ Len(p.idle) < MaxIdle
                     /\ Cardinality(Candidates(p, req[r].host)) < MaxIdlePerHost
         IN  \/ /\ room
                /\ \E W \in Woken(cs \cup {c}) :
                     /\ pool' = [p EXCEPT !.idle = Append(@, c)] /\ conn' = [Gone(cs) EXCEPT ![c].st = "idle"]
                     /\ req' = Reqs(W, r, Quiet) /\ lost' = lost \ W
             \* there is no room, or no memory for the list
             \/ \E W \in Woken(cs) :
                   /\ pool' = p /\ conn' = Gone(cs)
                   /\ req' = Reqs(W, r, [req[r] EXCEPT !.pc = "discards"]) /\ lost' = lost \ W

\* mutant: the place of a connection that failed is not given back
DiscardLeaving(r) ==
    /\ req[r].pc \in {"discards", "retries"} /\ UNCHANGED <<pool, lost>>
    /\ conn' = Gone({req[r].conn})
    /\ req' = [req EXCEPT ![r] = IF req[r].pc = "retries"
            THEN [req[r] EXCEPT !.pc = "acquires", !.conn = "", !.retried = TRUE, !.woken = FALSE] ELSE Quiet]

\* discardConn, and discardLease; a retry begins anew
Discard(r) ==
    LET c == req[r].conn
        to == IF req[r].pc = "retries"
              THEN [req[r] EXCEPT !.pc = "acquires", !.conn = "", !.retried = TRUE, !.woken = FALSE] ELSE Quiet
    IN  /\ req[r].pc \in {"discards", "retries"} /\ conn' = Gone({c})
        /\ \E W \in Woken({c}) :
             pool' = Closed(pool, {c}) /\ req' = Reqs(W, r, to) /\ lost' = lost \ W

CloseIdleConnections ==
    LET cs == ToSet(pool.idle) IN
    /\ pool.gen < MaxGenerations /\ conn' = Gone(cs)
    /\ pool' = [Pruned(cs) EXCEPT !.gen = @ + 1]
    /\ \E W \in Woken(cs) : req' = Reqs(W, "", Quiet) /\ lost' = lost \ W

\* a waiter whose entry was moved waits at, and counts down, what is there now:
\* nothing is claimed from there on, and nothing happens once the lock is kept
Next ==
    /\ ~pool.moved /\ ~pool.stuck
    /\ \/ CloseIdleConnections \/ Begin
       \/ \E r \in Requests : \/ AcquireLimited(r) \/ AcquireUnlimited(r) \/ Resume(r)
                              \/ Dialed(r) \/ Exchange(r) \/ Release(r) \/ Discard(r)

Spec == Init /\ [][Next]_vars

----------------------------------------------------------------------------
\* A host's entry counts the connections that are open or being opened, never more
\* than the limit, and the requests that wait; a host without an entry has none.
\* Excepted is a list that moved under its waiters (line 921).
PlacesCounted ==
    ~pool.moved /\ pool.cap # 0 => \A h \in Hosts :
        /\ Live(pool, h) = Cardinality(Open(h)) /\ Live(pool, h) <= pool.cap
        /\ {i \in IndexOf(pool, h) : pool.hosts[i].waiters # 0} = {} <=>
             {r \in Requests : req[r].pc \in {"sleeps", "woken"} /\ req[r].host = h} = {}

\* An idle connection is nobody's, is there once, and was begun in this generation:
\* closeIdleConnections leaves none behind that comes back. Without a limit one
\* that was being dialled then does (line 864 reads the generation late).
PoolHonest ==
    \A i, j \in DOMAIN pool.idle :
        LET c == pool.idle[i] IN
        /\ pool.idle[j] = c => i = j
        /\ conn[c].st = "idle" /\ \A r \in Requests : req[r].conn # c
        /\ conn[c].gen = pool.gen /\ (pool.cap # 0 => conn[c].born = pool.gen)

\* A request without a context sleeps only while its host has no place for it and
\* no idle connection it can take, or while one that was woken for it is under
\* way. A signal is lost when the request it wakes leaves with its context's error
\* (line 922) or cannot reuse the connection it was for (line 1958), and everyone
\* waits once a request that failed keeps idle_mu (line 893).
RequestsHaveReason ==
    ~pool.moved /\ ~pool.stuck => \A h \in Hosts : \A r \in Sleepers(h) \ lost :
        \/ req[r].ctx \/ \E q \in Requests : req[q].pc \in {"woken", "acquires"} /\ req[q].host = h
        \/ Live(pool, h) >= pool.cap /\ (req[r].reuse => Candidates(pool, h) = {})
=============================================================================
