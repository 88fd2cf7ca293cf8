------------------------------- MODULE HttpServer -------------------------------
(* The HTTP server, glib/lib/net/http/Server.zig: one task accepts, each        *)
(* connection has a task, and shutdown, close and deinit end them. What is done *)
(* under the mutex at one go is one step; a request and its answer are events.  *)
EXTENDS Naturals, FiniteSets

CONSTANT Conns   \* connections a behaviour may have

VARIABLES srv,     \* allocated, serving, the listener, graceful, hard, workers, the connection table
          conn,    \* open, closed by shutdown or close, or freed
          serve,   \* where serve is, with the connection it has accepted
          worker,  \* where each connection's task is
          owner,   \* where the task is that ends the server, and what shutdown told it
          leaked,  \* workers counted that nobody will take back
          slipped, \* connections registered after shutdown or close had looked at the table
          late     \* connections marked idle after shutdown had looked
vars == <<srv, conn, serve, worker, owner, leaked, slipped, late>>

Nobody == "nobody"
Registered == {c \in Conns : srv.table[c] # "out"}

ServerTypeOK ==
    /\ srv.table \in [Conns -> {"out", "busy", "idle"}] /\ srv.workers \in 0..Cardinality(Conns)
    /\ conn \in [Conns -> {"none", "open", "closed", "freed"}]
    /\ worker \in [Conns -> {"none", "checks", "marks", "idles", "reads", "handles", "leaves", "frees", "gone"}]
    /\ owner.pc \in {"idle", "closes listener", "polls", "hard", "closes", "waits", "freed"}

Init ==
    /\ srv = [heap |-> TRUE, serving |-> FALSE, listener |-> "none", graceful |-> FALSE, hard |-> FALSE,
              workers |-> 0, table |-> [c \in Conns |-> "out"]]
    /\ conn = [c \in Conns |-> "none"] /\ worker = [c \in Conns |-> "none"]
    /\ serve = [pc |-> "none", conn |-> Nobody] /\ owner = [pc |-> "idle", op |-> "none", told |-> "nothing"]
    /\ leaked = 0 /\ slipped = {} /\ late = {}

Serves(pc) == serve' = [serve EXCEPT !.pc = pc]
Closing == srv.graceful \/ srv.hard

----------------------------------------------------------------------------
(* What several of the calls do.                                            *)
\* conn.close on the connections of the table: their reads fail
Cut(cs) == [c \in Conns |-> IF c \in cs /\ conn[c] = "open" THEN "closed" ELSE conn[c]]

\* mutant: only the connections that are idle are closed
HardCloseIdle ==
    /\ srv' = [srv EXCEPT !.hard = TRUE] /\ conn' = Cut({c \in Conns : srv.table[c] = "idle"})

\* initiateHardClose, but for the listener
HardClose == srv' = [srv EXCEPT !.hard = TRUE] /\ conn' = Cut(Registered)

CloseListener == srv' = [srv EXCEPT !.listener = IF @ = "none" THEN @ ELSE "closed"]

Unregistered(c) == [srv EXCEPT !.table[c] = "out", !.workers = @ - 1]

----------------------------------------------------------------------------
(* serve.                                                                   *)
BeginServe ==
    /\ serve.pc \in {"none", "returned"} /\ srv.heap /\ owner.op # "deinit"
    /\ ~srv.serving /\ ~Closing /\ srv' = [srv EXCEPT !.serving = TRUE, !.listener = "open"]
    /\ \E pc \in {"accepts", "waits"} : Serves(pc)    \* listen may fail
    /\ UNCHANGED <<conn, worker, owner, leaked, slipped, late>>

\* a client comes; accept is told that the listener is closed, or fails
Accept ==
    /\ serve.pc = "accepts" /\ UNCHANGED <<srv, worker, owner, leaked, slipped, late>>
    /\ \/ /\ srv.listener = "open"
          /\ \E c \in Conns : /\ conn[c] = "none" /\ conn' = [conn EXCEPT ![c] = "open"]
                              /\ serve' = [pc |-> "registers", conn |-> c]
       \/ srv.listener = "closed" /\ Closing /\ Serves("waits") /\ UNCHANGED conn
       \/ Serves("hard") /\ UNCHANGED conn

\* registerConn counts the worker, then appends: without memory the count stays
Register ==
    LET c == serve.conn IN
    /\ serve.pc = "registers" /\ UNCHANGED <<worker, owner, late>>
    /\ \/ /\ srv' = [srv EXCEPT !.workers = @ + 1, !.table[c] = "busy"] /\ Serves("spawns")
          /\ slipped' = IF Closing THEN slipped \cup {c} ELSE slipped
          /\ UNCHANGED <<conn, leaked>>
       \/ /\ srv' = [srv EXCEPT !.workers = @ + 1] /\ leaked' = leaked + 1 /\ conn' = [conn EXCEPT ![c] = "freed"]
          /\ serve' = [pc |-> "hard", conn |-> Nobody] /\ UNCHANGED slipped

\* mutant: a connection without a task stays in the table
SpawnLeaving ==
    LET c == serve.conn IN
    /\ serve.pc = "spawns" /\ UNCHANGED <<srv, owner, leaked, slipped, late>>
    /\ \/ worker' = [worker EXCEPT ![c] = "marks"] /\ serve' = [pc |-> "accepts", conn |-> Nobody] /\ UNCHANGED conn
       \/ conn' = [conn EXCEPT ![c] = "freed"] /\ serve' = [pc |-> "hard", conn |-> Nobody] /\ UNCHANGED worker

\* a connection without a task is taken back
Spawn ==
    LET c == serve.conn IN
    /\ serve.pc = "spawns" /\ UNCHANGED <<owner, leaked, slipped, late>>
    /\ \/ /\ worker' = [worker EXCEPT ![c] = "marks"] /\ serve' = [pc |-> "accepts", conn |-> Nobody]
          /\ UNCHANGED <<srv, conn>>
       \/ /\ srv' = Unregistered(c) /\ conn' = [conn EXCEPT ![c] = "freed"]
          /\ serve' = [pc |-> "hard", conn |-> Nobody] /\ UNCHANGED worker

ServeHard ==
    /\ UNCHANGED <<worker, owner, leaked, slipped, late>>
    /\ \/ serve.pc = "hard" /\ HardClose /\ Serves("closes")
       \/ serve.pc = "closes" /\ CloseListener /\ Serves("waits") /\ UNCHANGED conn

\* waitForWorkers and finishServe
FinishServe ==
    /\ serve.pc = "waits" /\ srv.workers = 0 /\ Serves("returned")
    /\ srv' = [srv EXCEPT !.serving = FALSE, !.listener = "none"]
    /\ UNCHANGED <<conn, worker, owner, leaked, slipped, late>>

----------------------------------------------------------------------------
(* connectionWorker. A worker is in its first round as long as it is busy    *)
(* when it marks itself.                                                     *)
Works(c, pc) == worker' = [worker EXCEPT ![c] = pc]

\* shouldStopBeforeNextRequest, not before the first request
Check(c) ==
    /\ worker[c] = "checks" /\ Works(c, IF Closing THEN "leaves" ELSE "idles")
    /\ UNCHANGED <<srv, conn, serve, owner, leaked, slipped, late>>

\* the first read, or no memory for the reader
Mark(c) ==
    /\ worker[c] = "marks" /\ \E pc \in {"reads", "leaves"} : Works(c, pc)
    /\ UNCHANGED <<srv, conn, serve, owner, leaked, slipped, late>>

\* setConnIdle before a further read
MarkIdle(c) ==
    /\ worker[c] = "idles" /\ Works(c, "reads") /\ srv' = [srv EXCEPT !.table[c] = "idle"]
    /\ late' = IF srv.graceful THEN late \cup {c} ELSE late
    /\ UNCHANGED <<conn, serve, owner, leaked, slipped>>

\* a request comes, or the client leaves; a connection that was closed may still
\* have a request in its buffer
Read(c) ==
    /\ worker[c] = "reads" /\ UNCHANGED <<conn, serve, owner, leaked, slipped, late>>
    /\ \/ Works(c, "handles") /\ srv' = [srv EXCEPT !.table[c] = "busy"]
       \/ Works(c, "leaves") /\ UNCHANGED srv

\* the handler and its answer; then the connection is used again or not
Handle(c) ==
    /\ worker[c] = "handles" /\ UNCHANGED <<srv, conn, serve, owner, leaked, slipped, late>>
    /\ (~Closing /\ Works(c, "checks")) \/ Works(c, "leaves")

\* mutant: the connection is freed first
UnregisterLast(c) ==
    /\ UNCHANGED <<serve, owner, leaked, slipped, late>>
    /\ \/ worker[c] = "leaves" /\ conn' = [conn EXCEPT ![c] = "freed"] /\ Works(c, "frees") /\ UNCHANGED srv
       \/ worker[c] = "frees" /\ srv' = Unregistered(c) /\ Works(c, "gone") /\ UNCHANGED conn

Unregister(c) ==
    /\ UNCHANGED <<serve, owner, leaked, slipped, late>>
    /\ \/ worker[c] = "leaves" /\ srv' = Unregistered(c) /\ Works(c, "frees") /\ UNCHANGED conn
       \/ worker[c] = "frees" /\ conn' = [conn EXCEPT ![c] = "freed"] /\ Works(c, "gone") /\ UNCHANGED srv

----------------------------------------------------------------------------
(* shutdown, close and deinit.                                              *)
Goes(pc) == owner' = [owner EXCEPT !.pc = pc]

\* mutant: shutdown leaves the idle connections to their clients
ShutdownLeaving ==
    /\ owner.pc = "idle" /\ srv.heap /\ owner' = [pc |-> "closes listener", op |-> "shutdown", told |-> "nothing"]
    /\ srv' = [srv EXCEPT !.graceful = TRUE] /\ UNCHANGED <<conn, serve, worker, leaked, slipped, late>>

Shutdown ==
    /\ owner.pc = "idle" /\ srv.heap /\ UNCHANGED <<serve, worker, leaked, slipped, late>>
    /\ \/ /\ Closing /\ owner' = [pc |-> "polls", op |-> "shutdown", told |-> "nothing"] /\ UNCHANGED <<srv, conn>>
       \/ /\ ~Closing /\ owner' = [pc |-> "closes listener", op |-> "shutdown", told |-> "nothing"]
          /\ srv' = [srv EXCEPT !.graceful = TRUE] /\ conn' = Cut({c \in Conns : srv.table[c] = "idle"})

ShutdownListener ==
    /\ owner.pc = "closes listener" /\ CloseListener /\ Goes("polls")
    /\ UNCHANGED <<conn, serve, worker, leaked, slipped, late>>

\* no worker, or the context has ended, or another 5 ms
Poll ==
    /\ owner.pc = "polls" /\ UNCHANGED <<srv, conn, serve, worker, leaked, slipped, late>>
    /\ IF srv.workers = 0 THEN owner' = [owner EXCEPT !.pc = "idle", !.told = "drained"] ELSE Goes("hard")

\* deinit is for a server whose serve has returned, or was never called
Close ==
    /\ owner.pc = "idle" /\ srv.heap /\ UNCHANGED <<srv, conn, serve, worker, leaked, slipped, late>>
    /\ \/ owner' = [owner EXCEPT !.pc = "hard", !.op = "close"]
       \/ serve.pc \in {"none", "returned"} /\ owner' = [owner EXCEPT !.pc = "hard", !.op = "deinit"]

OwnerHard ==
    /\ UNCHANGED <<serve, worker, leaked, slipped, late>>
    /\ \/ owner.pc = "hard" /\ HardClose /\ Goes("closes")
       \/ owner.pc = "closes" /\ CloseListener /\ Goes(IF owner.op = "close" THEN "idle" ELSE "waits") /\ UNCHANGED conn

Waited ==
    /\ owner.pc = "waits" /\ srv.workers = 0 /\ UNCHANGED <<conn, serve, worker, leaked, slipped, late>>
    /\ \/ owner.op = "shutdown" /\ owner' = [owner EXCEPT !.pc = "idle", !.told = "expired"] /\ UNCHANGED srv
       \/ owner.op = "deinit" /\ Goes("freed") /\ srv' = [srv EXCEPT !.heap = FALSE]

Next == \/ BeginServe \/ Accept \/ Register \/ Spawn \/ ServeHard \/ FinishServe
        \/ Shutdown \/ ShutdownListener \/ Poll \/ Close \/ OwnerHard \/ Waited
        \/ \E c \in Conns : Check(c) \/ Mark(c) \/ MarkIdle(c) \/ Read(c) \/ Handle(c) \/ Unregister(c)

Spec == Init /\ [][Next]_vars

----------------------------------------------------------------------------
\* The server counts the connections it has registered, but for one whose append
\* had no memory (line 417): its count is never taken back.
WorkersCounted == srv.workers = Cardinality(Registered) + leaked

\* A connection that close or shutdown may close has not been freed, and the
\* server is freed after the last worker that uses it.
ServerAlive ==
    /\ \A c \in Registered : conn[c] \in {"open", "closed"}
    /\ ~srv.heap => Registered = {}

\* Who waits for the workers waits for connections that have been closed: after a
\* hard close all of them, after shutdown the idle ones. One that serve had
\* accepted and not yet registered is missed (line 301), and one that had looked
\* and was still to mark itself idle (line 498).
WorkersTold ==
    \A c \in Registered : conn[c] = "open" =>
        /\ srv.hard => c \in slipped
        /\ srv.graceful /\ srv.table[c] = "idle" => c \in late

\* When shutdown says that the server is drained no connection is served any more,
\* but for the one that was on its way to the table.
DrainedIsDrained == owner.told = "drained" => Registered \subseteq slipped
=============================================================================
