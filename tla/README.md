# A TLA+ verification of embed-zig

embed-zig is a set of portable libraries for applications that run on a desktop,
on ESP32 and on Beken (BK7258) chips. `glib/lib` declares the portable runtime
(tasks, synchronisation, contexts, network, data libraries); `gstd`, `esp` and
`bk` implement its platform part, the latter two with C bindings over the
vendors' SDKs; `embed/lib` builds devices, Bluetooth, audio and the application
framework *zux* on it. This directory holds TLA+ models of the concurrent and
stateful core, the TLC configurations that check them, and TLAPS proofs.

Sections: 1 the system, 2 the modules, 3 the runs, 4 the properties, 5 the
proofs, 6 what was found, 7 what is not modelled, 8 further hazards, 9 what
could come next.

## 1. The system

### Inventory: the portable libraries

| component | state | operations | who it works with | what is hard | what makes it correct |
|---|---|---|---|---|---|
| **glib/context** (`glib/lib/context`) | a tree of nodes (parent, children, cause, binding), one RwLock for a whole tree, a mutex and a condition for each node, a timer task for each deadline node | withCancel, withDeadline, withValue, cancel, cancelWithCause, err, wait, bindLink, deinit | used by net, http, tasks; spawns timer tasks | walks against attach, detach and deinit; timers against deinit; nested locks | the tree stays a tree; a cause reaches every descendant and is final; nobody uses a freed node; deadlines fire and not early |
| **sync/Channel** (`gstd/src/sync/Channel.zig`) | ring or slot, `closed`, a mutex, two condition variables, `send_mutex` | send, sendTimeout, recv, recvTimeout, close | zux pipeline, bt/kcp, applications | one signal per item; timeouts and close against a hand-over | a bounded FIFO queue, each message once; no lost wakeup; close releases everybody |
| **net/Cmux** (`glib/lib/net/Cmux.zig`, `net/cmux`) | for each side a channel table, an accept queue, reference counts, phases, receive buffers, three kinds of condition variables; the bearer between | dial, accept, read, write, close, deinit of a connection; close, deinit of the session; the frame handlers of the worker | any `net.Conn` as bearer; peers | crossing frames, re-used numbers, dials against close, references given up in any order | counts exact; the table consistent; an ended channel is final; data in order; every call returns |
| **sync/Timer** | a deadline, a callback, a worker task, one mutex and condition | init, reset (by the owner or from the callback), deinit | Racer's users, drivers | a reset between the worker's decision and its callback; deinit against the callback | fires once per deadline, not early, never for a replaced one; the worker is freed last |
| **sync/Racer** | winner, `done`, count of running tasks, one condition | spawn, success, cancel, race, raceContext, wait, deinit | the resolver | cancel against success; deinit against tasks still inside | at most one winner; answers true; nothing freed early |
| **zux/Store** | running and released state, subscribers, `notifying` | set, invoke, patch, tick, subscribe, unsubscribe | reducers, views | a tick that finds a notification running | one notification at a time; the last change is told, or known to be owed |
| **zux/Pipeline** | inbox channel, driver, tick and poll tasks, receivers | inject, hookOn, pollFrom, start, stop, wait, deinit | Channel, event sources | stop against sources that are inside their callback | nobody uses what stop has freed; every task that was started is joined |
| **net/http/Transport** | idle list, a state per host with count and condition, generation | roundTrip, closeIdleConnections | resolver, TLS | limits with waiters; retry; expiry | live connections counted and within the limit; waiters woken; stale connections not pooled |
| **net/http/Server** | worker count, connections and their idle marks, shutdown flags | serve, shutdown, close, deinit | listener, handlers | accept against shutdown; keep-alive against shutdown | the count is right; drained means drained; shutdown is told |
| **bt/host** | user count and start flags, receive task, credits, one response slot per role | retain, release, send, requests, confirmations | HCI transport | a second user during start; credits of lost links; two requesters of one role | one receive task; credits conserved; an answer belongs to its request |
| **audio mixer** | a ring per track, reference counts, closed flags, fade | createTrack, write, read, fade out, closes | speaker loop | writer, control and reader on one semaphore | no use after the last reference; no writer blocked without cause |
| other parts of glib, embed, gstd | see `PROJECT.json` and section 7 | - | - | - | - |

### Inventory: the chips' bindings

| component | state | operations | what is hard | what makes it correct |
|---|---|---|---|---|
| **WiFi stations** (`{esp,bk}/lib/embed/wifi/sta_binding.c`) | connection, scan and power-save flags, event queue | init, connect, disconnect, scan, set power save, radio's events | events that come late, twice, or are dropped by a full queue | the state has its cause in the radio; the address is current or its loss is due |
| **Preferences** (`{esp,bk}/lib/embed/system/preferences_binding.c`) | NVS handles; one database of packed keys and flash protection | open, get, put, remove, clear, lists | power failure at any step; several tasks; a namespace that begins another | acknowledged data survives; answers are values that were put; other namespaces untouched |
| **Crypto** (`esp/lib/grt/std/crypto/binding.c`) | key slots, scratch buffers, GCM contexts | signatures, ECDH, AEAD, GCM in pieces, keys, certificates | an error at each stage on each build | nothing leaks; output only on success; only authentic text accepted |
| **Displays, touch** (BK RGB and QSPI panels, two ESP boards, BK touch) | frames at the driver, handles, light, mirroring | init, draw, brightness, read | partial failures; frames in flight | no frame lost or reused early; light and mirroring follow the last success |
| **PPP** (`esp/lib/grt/net/binding.c`, `esp/lib/net.zig`) | interface, flags, read task, handler | create, open, close, destroy | four threads | no callback on a deleted object; the link's state is told |
| **lwIP sockets and addresses** (`{esp,bk}/lib/grt/net`) | netconn, State, poll events, pending buffer | read, write, poll, accept, close, destroy; conversions | the IP task's callback against poll and close | no use after free; a sleeper has a reason; addresses exact |
| **HCI transports** (three C files) | queues, semaphores, ready flag | init, callbacks, read, write, deinit | failing init; callbacks during deinit | packets in order and whole |
| **Audio devices** (BK speaker and echo canceller, two ESP codec boards, esp-sr) | driver handles, counts, buffers | configure, play, record, process | failing steps; partial frames; concurrent writers | devices and claims agree; samples whole and in their lane |
| **Coprocessor** (`hosted_copro.c`) | version check, update session | init, update | power failure during the update | never an update left open; flashed whole |
| **ADC, inflate** | converters; stream state | read; inflate | failing start; bad streams | values of this reading; honest ends |
| **RTOS condition variable, ESP channel, ESP task** | waiter counts, semaphore tokens; queue and flags; command, state, semaphore | wait, signal; send, receive, close; spawn, join, detach | tokens left behind; unacknowledged hand-overs; detach against the end | no waiter forgotten; a send that succeeded was received; a command freed once |

`PROJECT.json` lists every component with its files, what of it is modelled and
the reason when it is not, and under "hazards" the forty places where this code
is hardest to test, each with the properties that would catch it. Section 8
has the hazards beyond those.

### How the largest parts work

*Contexts.* A call that cancels takes the shared tree lock and walks down: mark
the node (first cause wins, under the node's mutex), wake its waiters, fire its
binding, stop its timer, go on to the children. Attaching, detaching and binding
take the lock exclusively. `deinit` joins the timer task, then detaches the node
and gives its children to its parent, then frees it. A timer task sleeps until
the earliest deadline above it, looks again when it is signalled, and cancels its
own node when the deadline has passed.

*Channel.* Everything happens under one mutex. A buffered send waits for space,
a receive for an item. An unbuffered sender holds `send_mutex`, puts its value
into the slot, waits until the slot is empty and reports success. Every wait
loop evaluates its condition again after a wakeup.

*Cmux.* A worker reads the peer's frames and handles them one by one. `dial`
creates a channel, sends SABM and waits for UA or DM; the peer's worker puts a new
channel into the accept queue and answers. DISC and UA end a channel, UIH carries
data. A session ends by `close`, by a DISC on channel 0 or by a bearer that fails while
the session's worker reads it, and takes its channels with it. A write that the bearer
refuses fails that one call and leaves the session as it is; a close does not even
notice.

*Bindings.* Static state that one owner calls into, and callbacks of the SDK that
run in tasks of their own. Most of what can go wrong is an SDK call that fails half
way through a setup, or a callback that arrives when the owner is elsewhere. The
models let every SDK call fail that can, and every event come when the hardware
may send it.

## 2. Modules

In all modules a definition carries the name of the function it models where that
is possible, and the steps of a call are exactly the places at which another
task, a callback or a loss of power can interfere: what runs under one mutex
without blocking is one step. Some definitions are marked "mutant" in their
comment: they are faulty variants of a neighbouring definition that no
specification uses. Each property is known to fail when its variant takes the
place of the original, which `PROJECT.json` records.

### Context, channel, session

| module | what it is |
|---|---|
| `ContextTree.tla` | the tree, its lock, the clients' calls, the timer tasks, the clock |
| `MCContextTree.tla` | node kinds, deadlines and initial trees of the instances |
| `ContextTreeProofs.tla` | theorems about ContextTree |
| `Channel.tla` | the hosted channel; senders and receivers can be exchanged (`Symmetry`) |
| `ChannelQueue.tla` | what a channel promises: a bounded FIFO queue that can be closed |
| `ChannelProofs.tla` | theorems about Channel, with the refinement |
| `CmuxSession.tla` | two sessions, their workers, clients and the bearer |
| `CmuxSessionProofs.tla` | theorems about CmuxSession |
| `MCCmux.tla` | which client makes which calls, and how many |

**ContextTree.** An actor (a client thread, or the timer task of a node, named by
the node) has a stack of frames, `code[a]`; each step executes the head frame and
may push the frames of the functions it calls. `MarkCanceled`, `Propagate`, `Fire`
and `NextKid` are the walk; `Attach`, `Adopt`, `Arm`, `Ready` are `init` of a node;
`Join`, `Detach`, `Free` are `deinit`; the actions named Timer... are
`DeadlineContext.timerTask`. `shares`, `writers` are the tree lock. With
`WriterPreference` a waiting writer holds new readers back, as some of the RwLocks
the library is built with do. `ErrDuringDeinit = FALSE` makes the clients keep
`err()` apart from the deinit of a node above it (finding 2 says why). A handle is
used only while its owner has not called `deinit`, and a node is created below a
parent the caller holds.

**Channel.** `phase[t]` says where a call is; `asleep` are the threads in a wait;
`late` and `expired` separate the passing of a deadline from the moment the waiting
thread notices it, so that a signal sent in between goes to somebody else, as it
does with a real condition variable. `ring, head, tail, len` and `slot, slotFull`
are the code's own variables, wrap-around included. A message is the pair of its
sender and the number of the call, so that loss, duplication and reordering show.

**CmuxSession.** `table`, `queue`, `closed`, `ready` are the session, `chan` the
channels ever allocated with phase, references, receive buffer and history; `wire`
is the bearer. `work[t]` says where a thread is in its call. A critical section of
a mutex that blocks on nothing is one step, and sending a frame is a step of its own
which waits while the bearer is full. `from` remembers which channel's SABM a channel
answers. An open bearer may refuse a write, which ends one call with an error and not
the session, or spoil a read, which ends the worker: `Faults` says at which ends, and
`faults` remembers the channels whose DISC was refused, for the property only
(`closeChannel` drops that error, Session.zig:336).

### The parts

The other modules model one component each. `MCParts.tla` puts them together for TLC:
they share no state, so a behaviour of `MCParts` is a behaviour of one of them, which
the variable `part` names. Each part is an `INSTANCE ... WITH` that gives it
variables of one pool `v1 .. v16`; what a part does not use stays zero. What the
same word promises of several parts is one property there (section 4).

`BoardParts.tla` puts six of them together, the stations, the preferences, their lists and
GCM, in the same way, and states what they promise; `MCParts` extends it and adds the others.
`BoardProofs.tla` has theorems about BoardParts.

| module | part | the code, and who acts |
|---|---|---|
| `EspWifiSta`, `WifiRadio` | esp wifi | the caller, the event handler, the event task; the radio is external |
| `BkWifiSta`, `WifiRadio` | bk wifi | the caller and the callbacks of the event task |
| `EspPrefs` | esp prefs | two clients' stores over NVS; power fails |
| `BkPrefs` | bk prefs | two tasks over FlashDB; power fails |
| `PrefLists` | pref lists | one list call of either board, step by step, while other tasks put, remove and clear |
| `EspPsa` | psa | one-shot crypto calls of two tasks, stage by stage, on each build |
| `EspGcm` | gcm | GCM contexts of both ends, with whatever the wire carries |
| `EspCerts` | certs | DER of keys, dates, certificate verdicts, against reference definitions |
| `BkPanel` | rgb, qspi | one caller of either panel, the driver's task |
| `EspPpp` | ppp | owner, read task, stack, event task |
| `LwipSocket` | socket | owner, reader, writer, IP task |
| `LwipAddr` | addr | two threads ask while interfaces come and go |
| `BtHci` | hci | host and controller, of three transports; an init that fails and forgets the queue it had |
| `BkAudio` | audio | systems that come one after another over static state |
| `EspCodec` | codec | bring-up, a reader, concurrent writers, the I2S driver |
| `EspSr` | sr | the recording task |
| `EspCopro` | copro | host, coprocessor, loss of power |
| `BkAdc` | adc | one reader, two converters |
| `BkTouch` | touch | finger, driver, direct path |
| `EspInflate` | inflate | caller, any input stream |
| `EspDisplay` | display | board bring-up with failures, drawing |
| `RtosCondition` | condition | three tasks as a monitor, both chips |
| `EspChannel` | channel | two senders, two receivers, close; one access to the RTOS at a time |
| `EspTask` | task | owner, the task, failures of each allocation |
| `SyncTimer` | timer | owner, worker, clock (with theorems) |
| `SyncRacer` | racer | three tasks, two callers |
| `StoreObject` | store | two tasks that tick, setters, two subscribers (with theorems) |
| `ZuxPipeline` | pipeline | owner, driver, ticker, poller, source; its inbox keeps ChannelQueue's promise |
| `HttpPool` | http pool | three requests, two hosts, a limit, idle expiry, generations |
| `HttpServer` | http server | accept loop, a worker per connection, the owner's shutdown, close and deinit |
| `BtHostLife` | bt host | two users, the receive tasks, failing starts, stops that join one task (with theorems) |
| `BtHostAtt` | bt requests | two callers, both roles, receive task, credits, lost links |
| `AudioMixer` | mixer | writer, control, reader of a track; a createTrack that runs out of memory |

What the parts have in common: a C binding's static structure is one record (`st`,
`host`, `shared`), the world under it another (`hw`, `drv`, `dev`, `radio`); a call is
a program counter with one step for every SDK call after which something else
may run, and one outcome for each result that call can return. A module that
models a pure conversion (EspCerts, LwipAddr) has one state per input, and compares
the translated algorithm with a definition of what it ought to compute.

## 3. Runs

| run | instance | what it shows |
|---|---|---|
| `ctx_cancel` | 2 threads, 4 calls; Root-c1-v1, c2 to be created | tree shape, lifecycle of nodes, pointers, causes and bindings under every interleaving of new, cancel, err, bind, unbind and deinit |
| `ctx_wait` | 2 threads, 2 calls; a cancel node below a deadline node; fairness | a waiter with or without timeout is woken by a cancel or an expiry above it |
| `ctx_timer` | 1 client, 3 calls, 2 nested deadline nodes, clock 0..2, writer preference, fairness | timers against cancel, reparenting and deinit; deadlines fire, not early; every call returns; the first cause stays |
| `ctx_nested` | finding 1 | OneShare is violated |
| `ctx_err_deinit` | finding 2 | NoUseAfterFree is violated |
| `chan_buffered` | 2 senders, 3 receivers, 2 calls each, 2 slots | no lost wakeup on either side, refinement of ChannelQueue |
| `chan_rendezvous` | 2 senders, 2 receivers, 1 call each, unbuffered, fairness | an acknowledged send was received, refinement; close releases all, nobody waits beside an item, a timed call returns |
| `chan_go` | finding 3 | FailedNotDelivered is violated |
| `cmux_session` | a client on each side, 3 calls each, 2 numbers, 2 dials, accept queue of 1, buffer of 1; an open bearer may refuse a write of the initiator | counts, table, finality, wakeups, order of data |
| `cmux_live` | uneven calls, 1 number, bearers and buffer of 1 frame, one failed write of the initiator's or failed read of the responder's open bearer, fairness | every call returns, or hangs in one of three ways that the property names; close releases accept and read |
| `cmux_stream` | finding 4 | StreamIntact is violated |
| `parts` | the 34 parts, bounds below | thirteen invariants and one action property of section 4 |

*Why the bounds are enough.* In the tree the shortest interesting configuration is
three levels, of which one passes causes through (a value node) and one appears
during the walk; a second thread makes every race of two calls, and a deinit in the
middle reparents the third. Two nested deadlines are what reparenting of a timer
needs: the inner one changes its effective deadline when the outer goes. A ring of
two slots with four messages wraps around; three receivers are needed for a wakeup
to be stolen while another one sleeps. An unbuffered sender that waits for
`send_mutex` needs one other that holds it. Two channel numbers and two dials let a
dial, an accept and the close of an older channel of the same number overlap, and a
queue and a buffer of one are full at once. Which calls a client may make first, second and
so on is a script (`May`, in MCCmux): those that cross, and in `cmux_live` a responder that
writes more than the initiator reads, so that with a `BearerCap` of one both bearers and the
buffer fill; `Faults` and `MaxFaults` say which end of an open bearer fails, and how often: one
failure is enough to lose a DISC and dial its number again. `MaxCalls`, `MaxTime`, `MaxDials` and
`BearerCap` are bounds of the models; MaxQueue and RxCap are options of the
code, chosen small.

In `parts`: queues, loops and pools hold 1 or 2 (`QueueCap`, `LoopCap`, `QueueLen`,
`InboxCap`, `RingCap`, `ChanItems`, `PoolConns`) so that they are full and empty
within a few steps. There are two of every actor whose races matter (clients,
tasks, senders, receivers, callers, users), three where a third is needed:
`Requests`, since one request must wait on a host whose only connection a
second gives to a third; `Racers`, for a loser that ends after the winner while
another still runs; `CondTasks`, for a signal that a third waiter takes;
`DrawFrames`, for one frame shown, one handed over and one being drawn. `MaxStamp` 2 gives an
older and a newer value of a preference, lengths included. `ListStamps` 3 gives a list two
entries and a change under one of its walks, or one entry and a change under each;
with two `Spaces` of two `SpaceKeys`, and a `SeenCap` of one, namespaces outnumber `seen[]`. Of
`RecvTasks` there are two, so that a task can be started while the one before is joined. `MaxCalls` 3 of the
stations is connect, scan, disconnect in any order, with each event late. Sums of
bytes are counts of pieces or blocks (`MaxPieces`, `MaxBlocks`, `MaxChunk`, `MaxIn`);
the lengths of `Lengths` and the numbers of EspCerts lie on both sides of each limit
of the code. `MaxTicks`, `MaxArms`, `MaxTime`, `MaxRounds`, `MaxGenerations`,
`MaxEvents`, `MaxFaults`, `MaxUnasked`, `MaxRequests`, `MaxWrites`, `MaxPlays`, `MaxRx`,
`MaxSent`, `MaxInits`, `MaxItems`, `HciPackets` cap the history; they allow every event
at least twice where its repetition matters, otherwise once.

*Symmetry* is declared in the runs without liveness: senders, receivers and channel
numbers can be exchanged. In `parts`, which has values that cannot be exchanged,
some modules themselves choose a fixed one of several equal actors: EspChannel
begins with the first idle task of its kind, EspCodec plays with the first of
equal writers; what is left out is a renaming of what is kept.

*Deadlock* is checked where the system has a state of rest of its own (ContextTree's
Resting, Channel's Done). It is off where a client may stop in the middle
(`ctx_timer`, the cmux runs: a client that makes no further call may leave a peer in
accept or read) and in `parts`, several of which end because calls, texts, packets
or requests are bounded. There SleepersHaveReason says what a deadlock check would:
that nobody waits without something under way that will wake them.

*Fairness.* FairSpec of ContextTree, Channel and CmuxSession has weak fairness for the
steps of every thread and task, and for the clock where there is one: the platform's
scheduler runs every runnable task, and clocks go on. There is no fairness for making
a call, for close, cancel, spurious wakeups or bearer faults: a write that can be refused
and never is goes through. No strong fairness is
assumed either: a lock need not be given to a thread that finds it free again and
again only for a moment. `ctx_timer` and `ctx_wait` use the writer preference lock,
where a waiting writer keeps new readers out and so gets its turn; their results are
about such a lock. The parts are checked for safety only.

## 4. The properties

**Of the tree.** `Lifecycle`: no two stacks create or destroy one node, and a node is in
the state the frame expects. `TreeWellFormed`: parents and children are one forest.
`PointersHeld`: what a walk still has in hand lies in the tree, and nobody steps on a
freed node. `CausesAgree`: once a walk is over every descendant has a cause, an `err()`
that answered is right, and a deadline's cause does not come before its time.
`BindingFiresOnce`, `FirstCauseSticky`, `WaiterWoken`, `DeadlineFires`, `CallsReturn` are
what their names say.

**Of the channel.** `WakeupsCoverItems` and `WakeupsCoverSpace`: as long as somebody
sleeps, as many are awake as there are items (slots) to take. `ImplementsQueue`:
every step is a step of ChannelQueue or none. `AckedIsDelivered`: an unbuffered send that
returned ok was received. `CloseReleasesAll`, `NoStrandedReceiver`, `TimedCallReturns`:
liveness; a timed unbuffered send returns once it has `send_mutex`, for which its
deadline does not count (line 153).

**Of the session.** `RefsExact`: a channel's count is the number of places that
hold it. `TableConsistent`: table, queue and phases agree. `SleepersMustWait`: nobody
sleeps whose condition is there. `StreamContiguous`: what is read is a contiguous
piece of what was written, in order, and the rest is on its way behind it as long as the
channel is open. `EndsAreFinal`: an ended channel or session stays
so. `CallsReturn`: every call returns, an accept or a read once a session is closed, unless
one of three things the code allows has happened for good: the call waits for a channel whose
DISC an open bearer refused (`Unheard`), a worker waits for a reader that does not read
(`Unread`), or both bearers are full and neither worker reads (`Jam`).

**Of the parts.** A property of `MCParts` is the conjunction of what its word means in
each part; the modules state each meaning and name, at its line, every window in which
the code does not keep it (listed in section 6).

| property | means |
|---|---|
| `StateIsBacked`, `IpIsCurrent` | a station's state has its cause in the radio or an event under way; the application's address likewise |
| `AckedSurvives` | what the preferences acknowledged, or something newer, survives any loss of power |
| `AnswersAreTrue`, `NamespacesApart` | a get returns a whole value that was put; a list has what stood while it was filled, nothing that was gone before and, within `seen[]`, no name twice; calls leave other namespaces alone |
| `ProtectionBack` | the flash stays unprotected only during an erase, or after power failed in one |
| `NothingLeaks` | key slots, buffers, frames, packets, I2S channels, models, update sessions, commands, messages, places for connections, workers, roles, tracks and credits are given back on every path |
| `OutputIsHonest` | the result of a call says what has happened: bytes, packets, samples, readings, sends, deadlines, winners, notifications, connections, ends, answers |
| `AcceptedIsAuthentic` | what a GCM context accepts was encrypted so |
| `InputsExact` | keys, dates, certificate verdicts, addresses, interfaces, packet headers: the algorithm against its definition |
| `HandlesAlive` | nobody uses what has been freed, or what was set up half |
| `DeviceFollows` | power saving, light, link, audio, mirroring, firmware and the Bluetooth host are as the last success asked |
| `SleepersHaveReason` | nobody sleeps beside what it waits for |

## 5. Proofs

The proofs hold for every value of the constants that satisfies the assumptions named;
TLC evaluates those of the modules with runs of their own (ContextAssumption,
ChannelAssumption, CmuxAssumption, and ClientsAssumption and NamesAssumption of BoardParts)
on every run.

**ContextTreeProofs.** `TypesInvariant` proves Types. `FirstCauseIsSticky`
proves that a step never replaces or withdraws a cause: only Mark, Inherit, Adopt
and Arm write one, each under the test that there is none.
`TreeStaysWellFormed` proves that parent links and children lists describe one
forest, that no node is above itself and that no node hangs below one that has left.
That is not inductive by itself: Attach and Detach change the tree on the word of the
frame they execute. *Lifecycle* (`LifecycleHolds`) is the strengthening. Every stack
holds at most one frame that creates or destroys a node, as its last frame, the node
is in the state the frame expects, and no two stacks hold such frames for one node. The
proof splits the steps into *calm* ones, which push only frames of no importance to
Lifecycle and leave the tree alone (most of them), and the five that create or destroy.

Three more theorems are about what tree and code do together.
- `BindingsFireOnce`, with no hypothesis. *FireOnce*: per node at most one frame is to
  fire it, the frame exists only if the node has a cause, and with the counter it agrees
  with the cause and the binding.
- `PointersStayHeld`, if ErrDuringDeinit = FALSE. The frames a walk executes with the tree
  lock held are *covered* by a later unshare of the same stack, and the lock count equals
  the unshares still to come (LocksRight; `LocksKept`); so nobody attaches or
  detaches below a walk, and the children it has left are children still (TodoHeld).
  Outside the lock a frame's node is held by something else, and the invariant (Held)
  says by what: by the thread that uses it (Borrow), by the timer task that a deinit
  joins (TimerHome), by the frame that creates or frees it, or, for a query on its way
  up, by the clients, who destroy no node above one that is asked (AskSafe).
- `CausesStayRight`, from these and the same hypothesis. *Spread*: a child of a canceled
  node is canceled, or *due*: some stack holds a frame that will still get there (a walk
  with it among the children left, or an attach that has yet to ask its parent).
  *Answered*: what err() is going to answer is a cause its node has, or will have by a
  frame of the same stack. *Early*: whoever has DeadlineExceeded, or carries it, has a
  passed deadline on its chain, or a deadline that has been detached has passed. The
  query climbs without a lock, so this part also says that the node it has reached is on the chain it began
  with (ChainUp) and that a node not yet linked has no cause (CleanNew). Here clients may
  not pass DeadlineExceeded themselves (cancelWithCause takes any error: with it
  "early" would mean nothing).

ErrDuringDeinit = FALSE restricts clients, not the code: without it NoUseAfterFree is
false (section 6, 2). The proof of AskSafe failed at first, with reason. Creating a node
links it under the lock and then asks the parent (CancelContext.zig:38, :40); the model kept
deinits above away only once the question had begun, so one that began before the link
could still free a node the question then climbs through. `Asking` now counts the
creation from its start.

**ChannelProofs.** The inductive invariant Basic is TypeOK and three facts: Placed
(what phase and sets say of a thread agree), RingOK (tail is head plus len modulo
Capacity, used positions hold messages) and SlotOK (the slot is full only with the
value of the sender that holds `send_mutex`). `NoLostReceiverWakeup` adds
ClosedIsAwake (close has woken everybody) and counts: as long as a receiver sleeps,
at least as many receivers as there are items are awake and still to look. A plain
"somebody is awake" is not inductive, because one item may arrive after another before
anybody runs. `NoLostSenderWakeup` is the mirror, with its own case for the
unbuffered sender. `ChannelIsQueue` maps the ring between head and tail, or the
slot, to the queue of ChannelQueue and shows that every step is a step of it or
changes nothing there; it needs arithmetic lemmas on the wrap-around
(ModWrap, ModDistinct, ModShift). `AckedStays` proves AckedIsDelivered from that
refinement: whoever takes a value out of the queue receives it, so a send that has
returned success has its value in the queue or in `got`. For the unbuffered
channel *HandedOver* is added: a sender that still waits beside an empty slot has been
received.

**CmuxSessionProofs**, for any finite set of clients, any numbers, queue, buffer and
bearer sizes, any scripts of calls and any failures of the bearers. `CmuxInv` (theorem `CmuxInvariant`) has nine parts:
Types and Bounded; *Placed*, what a thread has in hand where it is (a call that handles a
channel has one of its own side, a client that waits for the worker's end has closed
the session); *Listed* and *Queued*, what table and accept queue lead to; *LiveListed*,
whatever has not ended is in the table of a session that is not closed, which is why
beginClose, which walks the table, ends every channel; *MadeOnce*, one call
at most makes the connection of a channel, and a queued channel has none yet; *Counted*, the
reference count by kind, one each for table, queue and connection and one for every
call that retains it; *AsleepRight*, who sleeps must wait. They need one another: without
MadeOnce a second connection would put the count one too high, without LiveListed a
dial could give a number away that a live channel still has.

Most steps are *calm* (`Calm`, `CalmKeeps`): they leave table and queue alone, move one
thread, and change the count of a channel only as that thread's call and the channel's connection take
or give up a reference; a close is calm too. `CreateKeeps` is for the two steps that
create a channel (a dial, a SABM), `DropKeeps` for the three that take channels out of table
or queue (accept, unregister, deinit).
`HoldersCount` shows that the set of holders RefsExact speaks of has the cardinality that
Counted adds up. From the invariant follow `TypesHold`, `ReferencesExact`, `TableAgrees`
and `NobodyOversleeps`. `EndsStayFinal` is an action property: `GoOn` says which
phases a channel may go to from which, each step is shown to go on (`NextGoesOn`),
and the closed session is LiveListed's.

`StreamsContiguous` needs an invariant of its own beside CmuxInv. A frame is on the bearer
(`OnWire`), then in the worker's hand (`InHand`) until there is room, then in a buffer
(`Stream`). `StreamInv` says of the three, beside what StreamContiguous states: data under way
was written by a channel of its number (*LineOwned*); the channel of the frame in hand is
still in the table (*HandPlaced*), so no other can have been given its number meanwhile;
until the reader closes the bearer nothing behind a frame under way is missing
(*LineWhole*); what has arrived comes before what is under way, for a channel that is no
longer open as well (*Ahead*), or its runs could grow a gap; a channel that is opening has
received nothing (*NotYet*); only a closed session closes the bearer (*Shuts*). All but three
steps are *quiet* (`Quiet`, `QuietKeeps`): the streams stay, the bearer keeps its data unless the
session that reads it is closed. The three are a write (`DataSent`), the frame taken up
(`DataHandled`), dropped if its number leads nowhere, and the frame put down
(`DataStored`), dropped if the channel is no longer open. `FirstTaken` is why
dropping is harmless: it is always the first that is dropped, and no open channel has its number.

**SyncTimer**, for bounds MaxArms and MaxTime in Nat. `TimerInv` is the types, `Numbered`
and the three properties `TimerFiresRight`, `TimerWorkerHasReason`, `TimerStaysAlive`
state. Numbered gives each deadline a number of its own: what is pending, what the
callback runs for, what was replaced and what has fired are apart. FiresRight needs
it when the worker takes a deadline out of the timer.

**StoreObject**, for any values, subscribers and tasks. `StoreInv` adds to the two
properties (`StoreOneNotification`, `StoreSubscribersCurrent`) that only the tick that
notifies has somebody left to tell; without it a tick could end with subscribers it had
forgotten.

**SyncRacer**, for a finite set of tasks. `RacerInv` adds `DoneEnds` (whatever ends the
race sets `done`) and `ToldSome` to OneWinner, RaceHonest, AskersHaveReason and
RacerAlive (theorems `RacerOneWinner`, `RacerIsHonest`, `RacerAskersHaveReason`,
`RacerStaysAlive`). AskersHaveReason says that `running` is the number of tasks
inside; each step moves one task in or out, which the lemma `CountedMoves` turns
into plus or minus one on the cardinality. deinit frees when that number is zero,
and RacerAlive follows from it.

**BtHostLife**, for a finite set of users, any tasks and any number of failing reads. A stop
looks at the handle, joins what it saw and clears the handle, whatever it holds by then
(Hci.zig:229-231). Of two stops that saw one handle the later may so clear that of a task
started in between: `slipped` is TRUE from then on. `LifeInv` adds to
RolesCounted, OneReceiver and HoldersServed (theorems `RolesAreCounted`,
`OneReceiverEver`, `HoldersAreServed`) that one user at a time starts the host
(`OneStarter`: this follows from `active_roles`, which the others see above zero), that what a
user has joined is joined (`JoinedFirst`), that a handle has a user who will come to clear it
(`HandleHasUser`), and what an unraced user may rely on of
the others (`UnracedAlone`) and of the host while it starts it (`UnracedStarts`).
RolesCounted says in all cases that the roles are counted and that a host without users has no
handle; that no task is left to be joined then, and OneReceiver, hold until a stop has slipped.
HoldersServed holds after that too, but speaks of users outside `raced` only, because for those inside it the code
does not keep it (section 6). The lemma `FittingStep` says what a user's step must keep to so
that all of this survives it: `HostFits` for the host, `RacedFits` for who has raced and
`TaskFits` for the receive task. Each action has a lemma that shows that its steps do.

The properties of these four are checked by `parts`, as the conjuncts for timer, store,
racer and Bluetooth host of OutputIsHonest, SleepersHaveReason, HandlesAlive, NothingLeaks
and DeviceFollows.

**BoardProofs**, for any number of calls, clients and events, any queue, any names and any
texts. The theorems are about `BoardSpec`, that is `MCParts` as long as it is one of six
parts, of which the lists of the preferences are only model-checked; the other parts add behaviours of their own and none to these. `Steps` says that a
step of the whole is a step of its part, so each part has its own invariant.
- `GcmAuthentic` (AcceptedIsAuthentic): *GcmInv* adds that everything on the wire is a text
  with its nonce and additional data; the wire only grows, and a tag that is taken for
  authentic is that of a text on it.
- `AcksSurvive` (AckedSurvives), ESP32: *EspPrefInv* orders the ages of a key in memory, in
  the flash and acknowledged, all below the clock. Beken: *BkPrefInv* has the same order
  (BkPrefAges), what a client in the middle of a call is about (BkPrefCalls) and who
  may hold the lock while the flash is unprotected (BkPrefGuard).
- `ProtectionReturns` (ProtectionBack) is in BkPrefGuard. What makes it inductive is that
  two erasures never overlap, since both need the lock, and that one that finds
  the protection already lifted comes after one that lost power.
- `NamespacesStayApart` (the action property NamespacesApart): a client that changes a full
  key does so in the namespace it was called with. The lemmas below it are about packed
  keys: `SplitAt`, the first separator ends the namespace; `SplitFullKey`, so a key that is
  put belongs to its own; `SplitMatching`, so does every key that clear matches, although one
  namespace may begin another's name and names that are not valid contain separators.
- `StatesAreBacked` (StateIsBacked) and `AddressIsCurrent` (IpIsCurrent) rest on one invariant of
  the radio and the events it has sent (*AirInv*): a word of a link or a lease that is over is
  followed by word of its end. `AirMoves` proves it for whatever the radio does and
  `AirTaken` for an event that is handled, both for queues of any length; `AirKeeps` is
  what a claim of the station needs to outlive a move it has not heard of. *BkWifiNow* adds
  to the properties what a call and a callback in the middle know; *EspWifiNow* follows an
  event through a second queue, which may drop it: what is dropped stays in `lost`, which
  then is the reason the property names for a claim that has outlived its cause.

Three more are conjuncts of properties whose other parts TLC alone checks:
- `PowerSaveStaysKept` (PowerSaveKept of both stations, in DeviceFollows) is inductive
  as it stands; most of the proof is that no move of the radio and no other call touches
  the driver's mode (`RadioKeepsPs`, `BkRadioKeepsPs`), and that a start sets it again.
- `InitsAreWhole` (InitIsWhole, in HandlesAlive): *EspWifiMade* says what each stage of init
  finds made. An interface is made once, before any handler; an init that fails while it
  registers them leaves some registered and cannot get past the interface again, so no
  handler is registered twice.
- `GetsAreTrue` (GetIsTrue of both preferences, in AnswersAreTrue): *BkPrefReads* says that
  a get whose value is now longer than it was has been marked, so a value that was cut is
  never taken for whole unmarked.

*Only model-checked:*
- all liveness: fairness and ENABLED are outside the prover's reach;
- of CmuxSession StreamIntact, which the code violates;
- ListsAreExact of PrefLists (in AnswersAreTrue), and InputsExact: lists, DER, dates and addresses are computed
  by folds and recursive definitions over data, which the prover's induction does not reach;
- of MCParts TypeOK, NothingLeaks, OutputIsHonest, HandlesAlive, DeviceFollows and
  SleepersHaveReason. Each is a conjunction over up to twenty parts; proved are the conjuncts of
  timer, store, racer and Bluetooth host (above), which have modules of their own, and of
  the WiFi stations.

## 6. What was found

Four runs end in a violation of what the repository says of itself.

1. `ctx_nested`: the context README says a walk holds one shared lock and needs no
   nested shared locking by one thread. ValueContext.zig:151 takes it again below a
   value node. With a lock that holds readers back while a writer waits that is a
   deadlock.
2. `ctx_err_deinit`: CancelContext.zig:105 follows the parent pointer without the
   tree lock, so a parent that is deinitialised meanwhile, which the README allows,
   is used after it is freed. The other runs keep the two apart, to see what else is there.
3. `chan_go`: an unbuffered send can report failure although its value was received,
   when its deadline or close() comes between the receive and the report. A test
   describes the channel as agreeing with Go, where that cannot happen.
4. `cmux_stream`: a channel can be accepted and written to before its UA is sent; the
   dialling side drops such data, although the write succeeded.

Seen while modelling, where no document or test says otherwise. Where a property
covers the place, its definition names the window as an exception, at its line, so that
the property holds everywhere else:

- *context*: err() returns its parent's cause even when it has lost the race to record
  it (CancelContext.zig:108), so an answer can differ from the node's final cause.
- *cmux*: `dialChannel` returns a channel to which only the table holds a reference; a
  DISC before `Conn.init` retains it frees it (Session.zig:204). After both sides close
  one number at once and one dials again, a stale UA can open the new channel before the
  peer has one, and one side can keep an open channel without a partner (631). A close whose
  DISC an open bearer refuses reports success (336) and leaves the channel closing and in the
  table, and the next dial of its number waits for ever (170). While the
  worker waits for room in one channel it serves no other (656), and two workers that
  answer into two full bearers wait for each other (431). These three are what CallsReturn
  names, and `cmux_live` reaches each of them.
- *Racer* (Racer.zig:140): a task counts itself off and then frees its context, so deinit can return
  before the allocator has been used for the last time.
- *Store* (Object.zig:115): a tick that finds a notification running publishes and tells
  nobody; the subscriber stays behind until the next change.
- *Pipeline* (Pipeline.zig:245): a source inside its callback when stop clears its
  receiver goes on with freed memory.
- *HTTP Transport*: a waiter's pointer into host_states after the list moved (921); a
  signal lost to a request that leaves or cannot reuse (922, 1958); idle_mu kept by an
  append that fails (893); a generation read after the dial (864).
- *HTTP Server*: the count of a worker that could not be registered is never taken back
  (417); a connection accepted and not yet registered, or about to mark itself idle, is
  missed by shutdown (301, 353, 498).
- *Bluetooth host* (Hci.zig): a second retain returns while the first still starts (102,
  104); of two stops that join one task (229) the later clears the handle of a task started
  since (231), which then runs unjoined; packets written after their link's end keep
  their credits (276) and a disconnection restores too many (432); two requests of one
  role share one response slot (292, 555); an indication's confirmation waits for a
  credit that only its own task can bring (539).
- *Mixer* (RingBuffer.zig:79, 123): one post for two sleepers; the fade-out beside a
  write is passed over. A createTrack without memory for a handle releases the track's state
  in the handle's constructor (Track.zig:83-86, TrackCtrl.zig:230-233) and again in its own
  errdefers, and without memory for the second handle a third time (Mixer.zig:266-288).
- *ESP channel* (Channel.zig:217, 262): the acknowledgement of a value that was given up is
  taken for the next one; a sender that saw the channel open puts after close (145).
- *ESP task* (Native.zig:153, 154): detach destroys the command between the state and the
  semaphore of a task that ends.
- *lwIP sockets* (esp Runtime.zig:685, bk:424): the clear after an empty look wipes out an
  event that came in between; the sleeper stays until the next.
- *Preferences, both boards*: a list is counted and then filled by two walks that lock nothing
  (esp preferences.zig:290-304, bk preferences.zig:191-209). If entries of it are removed in
  between, the list returned ends in entries nobody has written; if some are added it is
  OutOfMemory; an entry put again under the walk may be listed twice or not at all.
- *BK preferences* (280): a get that reads the size, then a longer value, returns its first
  bytes as the value; power that fails in an erase leaves the flash unprotected (93).
- *ESP HCI*: a failed init leaves a queue behind each time, and one without memory for the
  queue overwrites the handle of the one before (local_hci.c:42, remote_hci.c:46), also
  under a callback that has looked at it and is about to use it (27-35). *ESP codecs* (288): a partial
  read shifts the lanes of the next ones.
- *ESP WiFi*: an event dropped by a full queue leaves the application with an old address or
  a scan that never ends (311).

## 7. What is not modelled

Left out of modelled components (their status in `PROJECT.json` is *partly*):

- ContextTree: typed values and their look-up, running out of memory, the panic when
  a root with children is destroyed. Channel: `deinit`, by contract the owner's last
  call. CmuxSession: read and write deadlines, running out of memory, splitting a long
  write into frames, the encoding of frames and malformed frames.
- Stations, preferences: addresses, names, signal strengths, integer widths. A list walks the
  entries in the order they were written; that the store moves entries under a walk, when it
  collects garbage, is left out, and so is the look-up of an open on the BK that
  must not create (`hasNamespace`, which makes a list of its own). Crypto: the
  primitives themselves. Panels, touch, codecs: register and bus patterns. Sockets:
  connect, listen, options. ESP channel: deinit.
- Transport: the exchange, TLS, proxies, bodies and alternate protocols are one event
  with an outcome. Server: parsing, timeouts and handlers are events. Store: labels and
  assembly. Pipeline: contents of events, bindOutput. Bluetooth host: GAP, reassembly and
  the roles' callbacks; commands are one event, and a packet is sent whole (fragments of
  two senders interleave in the code, Hci.zig:275). Mixer: gains and conversion.

Not modelled at all: free lists, counters and wrappers whose operations are one critical
section each (Pool, Arc, sync wrappers); components whose concurrency is that of a modelled
one (Resolver over Racer and contexts, zux reducers over the store); what is data and not
control (codecs, TLS records, compression, paths, signal processing); what only forwards to
a kernel or a driver (connections, WakeFd, clocks, I2C, board pins); test infrastructure,
generated and vendored code, the desktop tools and examples. `PROJECT.json` has the list.

## 8. Further hazards

Real, and beyond the forty of `PROJECT.json`. Those marked *(m)* happen in a model,
where a property names them or allows for them.

- `glib/lib/context/DeadlineContext.zig:123`, `:87`, `:256`, `internal.zig:93`: a timer that starts while its node is cancelled, is signalled between its look and its sleep, or is reparented *(m)*.
- `gstd/src/sync/Channel.zig:126`, `:118`, `:215`, `:182`, `:171`: wrap-around, close against each wait, the timeout that comes with the signal *(m)*. `:72`: deinit frees the storage that blocked calls still use.
- `glib/lib/net/cmux/Session.zig:204`, `:156`, `:170`, `:182`, `:336`, `:431`, `:569`, `:570`, `:631`, `:656`: as in section 6 *(m)*. `:219`: swapRemove(0) accepts the newest of three queued channels second; the model's queue holds one.
- `glib/lib/sync/Timer.zig:134`: deinit from the callback joins the worker it runs in.
- `glib/lib/sync/Pool.zig:148`: a second put of one item is caught by an assertion only.
- `glib/lib/sync/Racer.zig:140`: the end of a detached task against deinit *(m)*.
- `embed/lib/zux/pipeline/Pipeline.zig:224`: stop's own order *(m)*. `:100`: a burst into a full inbox loses input *(m)*. `:124`: tick_seq is counted without a lock although tick is public.
- `glib/lib/net/http/Transport.zig:768`: a request is sent again when a reused connection fails *(m: once)*. `:864` *(m)*.
- `glib/lib/net/http/Server.zig:353` *(m)*.
- `embed/lib/bt/host/Hci.zig:251`: one pending opcode for two concurrent commands. `:276`, `:539` *(m)*.
- `embed/lib/bt/kcp/Session.zig:301`: a packet the receive channel refuses has to go first when there is room again.
- `embed/lib/audio/mixer/TrackState.zig:69`: the last handle gives its count away and then still uses the state; the documentation asks callers to serialise this.
- `esp/lib/embed/wifi/sta_binding.c:433`, `:532`, `bk/lib/embed/bt/local_hci.c:91`, `:127`, `esp/lib/embed/hosted_copro.c:172`: late and repeated events, callbacks during deinit, an update that is cut *(m)*.
- `esp/lib/grt/sync/Channel.zig:145` *(m)*. `esp/lib/grt/std/thread/RwLock.zig:28`: only the first reader takes the writer's gate, so readers that overlap keep a writer out for ever; `ctx_cancel` runs with such a lock, `ctx_timer` with the other kind.

## 9. What could come next

- Proofs of the invariants of EspTask and HttpServer, which have the shape of the racer's.
- Fairness, and with it liveness, for the parts that have SleepersHaveReason: Transport's
  waiters, the server's shutdown, the mixer's writers.
- Frames of a long CMUX write, and read and write deadlines; fragments in BtHostAtt.
- bt/kcp over the channel's promise; the resolver over SyncRacer.
