---------------------------- MODULE ContextTree ----------------------------
(***************************************************************************)
(* glib/lib/context: the tree of Background, Cancel, Deadline and Value    *)
(* contexts that share one RwLock (the root's `tree_rw`).                  *)
(*                                                                         *)
(* An actor is a client thread or the timer task of a deadline node (named *)
(* by its node).  What is left of an actor's call is a stack of frames     *)
(* `code[a]`; each action executes the head frame, so the steps at which   *)
(* another actor can interfere are exactly the boundaries between frames.  *)
(* Frames that run under the exclusive tree lock are one step once the     *)
(* lock is granted: nothing else can look into them.                       *)
(***************************************************************************)
EXTENDS Integers, Sequences, FiniteSets

CONSTANTS
    Threads,            \* client threads
    Nodes,              \* context nodes (heap nodes; each is used once)
    Root,               \* the Background context
    None,               \* null: no cause, no parent, no deadline
    KindOf,             \* [Nodes -> {"cancel", "deadline", "value"}]
    DeadlineOf,         \* [Nodes -> Nat], read for deadline nodes only
    InitParent,         \* the tree at the start; None: not created yet
    UserCauses,         \* causes given to cancelWithCause
    Canceled,           \* error.Canceled
    DeadlineExceeded,   \* error.DeadlineExceeded
    SpawnError,         \* task.go failed for a timer
    Calls,              \* the calls the clients of this instance make
    WriterPreference,   \* a waiting writer holds back new shared locks
    ErrDuringDeinit,    \* clients deinit an ancestor while err() runs below it
    MaxCalls,           \* bound: number of calls
    MaxTime             \* bound: the clock

Actors   == Threads \cup Nodes
Parents  == Nodes \cup {Root}
Causes   == UserCauses \cup {Canceled, DeadlineExceeded, SpawnError}
AllCalls == {"new", "cancel", "err", "wait", "waitT", "bind", "unbind", "deinit"}

ASSUME ContextAssumption ==
    /\ IsFiniteSet(Nodes)
    /\ Threads \cap Nodes = {}
    /\ Root \notin Nodes
    /\ None \notin Parents \cup Causes
    /\ KindOf \in [Nodes -> {"cancel", "deadline", "value"}]
    /\ DeadlineOf \in [Nodes -> Nat]
    /\ InitParent \in [Nodes -> Parents \cup {None}]
    /\ \A n \in Nodes : InitParent[n] \in Nodes => InitParent[InitParent[n]] # None
    /\ \A S \in SUBSET Nodes : S # {} => \E n \in S : InitParent[n] \notin S
    /\ Calls \subseteq AllCalls
    /\ WriterPreference \in BOOLEAN
    /\ ErrDuringDeinit \in BOOLEAN
    /\ MaxCalls \in Nat
    /\ MaxTime \in Nat

VARIABLES
    state,      \* [Nodes -> lifecycle of the node's storage and of its handle]
    parent,     \* TreeLink.parent
    children,   \* TreeLink.children
    cause,      \* the node's first cause, under its own mutex
    binding,    \* TreeLink.binding # null
    fired,      \* history: how often the current binding has been fired
    code,       \* [Actors -> Seq(Frame)]: what is left of the actor's call
    reg,        \* [Actors -> result of the last err()]
    uses,       \* [Threads -> SUBSET Nodes]: handles the current call borrows
    asleep,     \* actors blocked on a condition variable
    shares,     \* [Actors -> Nat]: shared holds of the tree lock
    writers,    \* actors waiting for the exclusive tree lock
    tcanceled,  \* DeadlineContext.timer_canceled
    tgen,       \* DeadlineContext.timer_generation
    tlocal,     \* the timer task's locals: generation read, instants to wait for
    now,        \* the monotonic clock
    calls       \* calls made so far

nodeVars  == <<state, parent, children, cause, binding, fired>>
lockVars  == <<shares, writers>>
timerVars == <<tcanceled, tgen, tlocal>>
clientVars == <<uses, now, calls>>
vars == <<nodeVars, code, reg, asleep, lockVars, timerVars, clientVars>>

(***************************************************************************)
(* Frames.                                                                 *)
(***************************************************************************)
ExclusiveOps == {"attach", "bind", "unbind", "detach"}
TimerOps     == {"tTop", "tEffective", "tCheck", "tWait", "tExpire"}
FrameOps     == ExclusiveOps \cup TimerOps \cup
    {"err", "inherit", "adopt", "arm", "ready", "share", "unshare", "mark",
     "broadcast", "fire", "kids", "stop", "join", "free",
     "wait", "waitT", "return"}

PlainOps     == FrameOps \ {"err", "attach", "mark", "fire", "kids"}

Frame ==
    [op : {"err"}, node : Parents, arg : {None}, todo : {{}}]
    \cup [op : {"attach"}, node : Nodes, arg : Parents, todo : {{}}]
    \cup [op : {"mark", "fire", "kids"}, node : Nodes, arg : Causes, todo : SUBSET Nodes]
    \cup [op : PlainOps, node : Nodes, arg : {None}, todo : {{}}]

F(op, n)       == [op |-> op, node |-> n, arg |-> None, todo |-> {}]
FA(op, n, arg) == [op |-> op, node |-> n, arg |-> arg, todo |-> {}]
Kids(n, c, s)  == [op |-> "kids", node |-> n, arg |-> c, todo |-> s]

\* mutants: the walk starts without the tree lock; it never gives it back
MarkCanceledUnlocked(n, c) == <<FA("mark", n, c), F("unshare", n)>>
MarkCanceledKeeping(n, c)  == <<F("share", n), FA("mark", n, c)>>

\* CancelContext / DeadlineContext / ValueContext.markCanceled
MarkCanceled(n, c) ==
    IF KindOf[n] = "value" THEN <<FA("mark", n, c)>>
    ELSE <<F("share", n), FA("mark", n, c), F("unshare", n)>>

\* mutant: a deadline node only stops its timer
PropagateStopOnly(n, c) ==
    CASE KindOf[n] = "deadline" -> <<F("stop", n)>>
      [] OTHER -> <<FA("mark", n, c)>>

\* propagateCancelWithCauseFn of each kind; the caller holds the shared lock
Propagate(n, c) ==
    CASE KindOf[n] = "cancel"   -> <<FA("mark", n, c)>>
      [] KindOf[n] = "deadline" -> <<F("stop", n), FA("mark", n, c)>>
      [] KindOf[n] = "value"    -> <<F("share", n), FA("mark", n, c), F("unshare", n)>>

\* what follows the step that recorded a first cause
AfterMark(n, c) ==
    IF KindOf[n] = "value"
    THEN <<F("broadcast", n), F("share", n), FA("fire", n, c), F("unshare", n)>>
    ELSE <<F("broadcast", n), FA("fire", n, c)>>

(***************************************************************************)
(* The chain from a node to the root.                                      *)
(***************************************************************************)
\* n and the nodes above it, as far as the nodes to pass through are in open:
\* the least set that leads on
Chain(n, open) ==
    {m \in Nodes : \A S \in SUBSET Nodes :
        /\ n \in Nodes => n \in S
        /\ \A k \in S \cap open : parent[k] \in Nodes => parent[k] \in S
        => m \in S}

UpFrom(n) == Chain(n, Nodes)

\* errNoLockFn asks n, and from a value node without a cause of its own the
\* parent; the first node with a cause answers
Asked(n)  == Chain(n, {k \in Nodes : KindOf[k] = "value" /\ cause[k] = None})
ErrNoLock(n) ==
    LET found == {cause[m] : m \in Asked(n)} \ {None}
    IN  IF found = {} THEN None ELSE CHOOSE c \in found : TRUE

\* the deadlines effectiveDeadlineNoLock takes the minimum of: the effective
\* deadline has passed when one of them has
Deadlines(n) == {DeadlineOf[m] : m \in {k \in UpFrom(n) : KindOf[k] = "deadline"}}
Expired(n)   == \E d \in Deadlines(n) : d <= now

(***************************************************************************)
(* The tree lock.  `sync.RwLock` lies outside glib: gstd wraps             *)
(* std.Thread.RwLock, which holds new readers back while a writer waits    *)
(* (WriterPreference = TRUE), the esp port counts readers and does not.    *)
(***************************************************************************)
CanShare     == WriterPreference => writers = {}
CanExclude   == \A b \in Actors : shares[b] = 0

At(a, op)    == code[a] # <<>> /\ a \notin asleep /\ Head(code[a]).op = op
Sleeping(a, op) == code[a] # <<>> /\ a \in asleep /\ Head(code[a]).op = op
Top(a)       == Head(code[a])
Rest(a)      == Tail(code[a])
Continue(a, frames) == code' = [code EXCEPT ![a] = frames \o Rest(a)]

RequestExclusive(a) ==
    /\ \E op \in ExclusiveOps : At(a, op)
    /\ a \notin writers
    /\ writers' = writers \cup {a}
    /\ UNCHANGED <<nodeVars, code, reg, asleep, shares, timerVars, clientVars>>

\* mutant: the writer does not wait for the readers
ExclusiveEager(a, op) ==
    /\ At(a, op)
    /\ a \in writers
    /\ writers' = writers \ {a}
    /\ UNCHANGED shares

\* the guard and the release of a step made under the exclusive lock
Exclusive(a, op) ==
    /\ At(a, op)
    /\ a \in writers
    /\ CanExclude
    /\ writers' = writers \ {a}
    /\ UNCHANGED shares

Share(a) ==
    /\ At(a, "share")
    /\ CanShare
    /\ shares' = [shares EXCEPT ![a] = @ + 1]
    /\ Continue(a, <<>>)
    /\ UNCHANGED <<nodeVars, reg, asleep, writers, timerVars, clientVars>>

Unshare(a) ==
    /\ At(a, "unshare")
    /\ shares' = [shares EXCEPT ![a] = @ - 1]
    /\ Continue(a, <<>>)
    /\ UNCHANGED <<nodeVars, reg, asleep, writers, timerVars, clientVars>>

(***************************************************************************)
(* The downward walk.                                                      *)
(***************************************************************************)

\* mutant: a later cause replaces the first
MarkAlways(a) ==
    /\ At(a, "mark")
    /\ cause' = [cause EXCEPT ![Top(a).node] = Top(a).arg]
    /\ Continue(a, IF cause[Top(a).node] # None THEN <<>>
                   ELSE AfterMark(Top(a).node, Top(a).arg))
    /\ UNCHANGED <<state, parent, children, binding, fired, reg, asleep, lockVars,
                   timerVars, clientVars>>

\* markCanceledLocal: the first cause wins
Mark(a) ==
    /\ At(a, "mark")
    /\ LET n == Top(a).node
           c == Top(a).arg
       IN  IF cause[n] # None
           THEN Continue(a, <<>>) /\ UNCHANGED cause
           ELSE /\ cause' = [cause EXCEPT ![n] = c]
                /\ Continue(a, AfterMark(n, c))
    /\ UNCHANGED <<state, parent, children, binding, fired, reg, asleep, lockVars,
                   timerVars, clientVars>>

WaitersOf(n) == {b \in asleep : \E op \in {"wait", "waitT"} : Sleeping(b, op) /\ Top(b).node = n}

\* mutant: signal wakes one waiter
BroadcastOne(a) ==
    /\ At(a, "broadcast")
    /\ LET w == WaitersOf(Top(a).node)
       IN  asleep' = IF w = {} THEN asleep ELSE asleep \ {CHOOSE b \in w : TRUE}
    /\ Continue(a, <<>>)
    /\ UNCHANGED <<nodeVars, reg, lockVars, timerVars, clientVars>>

Broadcast(a) ==
    /\ At(a, "broadcast")
    /\ asleep' = asleep \ WaitersOf(Top(a).node)
    /\ Continue(a, <<>>)
    /\ UNCHANGED <<nodeVars, reg, lockVars, timerVars, clientVars>>

\* cancelChildrenWithCauseNoLock: the binding first, then the children list
Fire(a) ==
    /\ At(a, "fire")
    /\ LET n == Top(a).node
       IN  /\ fired' = [fired EXCEPT ![n] = IF binding[n] THEN @ + 1 ELSE @]
           /\ Continue(a, <<Kids(n, Top(a).arg, children[n])>>)
    /\ UNCHANGED <<state, parent, children, cause, binding, reg, asleep, lockVars,
                   timerVars, clientVars>>

NextKid(a) ==
    /\ At(a, "kids")
    /\ \/ /\ Top(a).todo = {}
          /\ Continue(a, <<>>)
       \/ \E m \in Top(a).todo :
              Continue(a, Propagate(m, Top(a).arg)
                          \o <<Kids(Top(a).node, Top(a).arg, Top(a).todo \ {m})>>)
    /\ UNCHANGED <<nodeVars, reg, asleep, lockVars, timerVars, clientVars>>

\* timer_cond.signal: wakes the timer task if it is waiting
Signal(timers) ==
    asleep' = asleep \ {n \in timers : Sleeping(n, "tWait")}

\* DeadlineContext.signalTimerStop
Stop(a) ==
    /\ At(a, "stop")
    /\ tcanceled' = [tcanceled EXCEPT ![Top(a).node] = TRUE]
    /\ Signal({Top(a).node})
    /\ Continue(a, <<>>)
    /\ UNCHANGED <<nodeVars, reg, lockVars, tgen, tlocal, clientVars>>

(***************************************************************************)
(* err(): CancelContext asks its parent's err() and keeps the answer,      *)
(* ValueContext looks up the chain under the shared lock, DeadlineContext  *)
(* compares the clock with its effective deadline.                         *)
(***************************************************************************)
Err(a) ==
    /\ At(a, "err")
    /\ LET n == Top(a).node
       IN  \/ /\ n = Root
              /\ reg' = [reg EXCEPT ![a] = None]
              /\ Continue(a, <<>>)
           \/ /\ n \in Nodes
              /\ KindOf[n] = "cancel"
              /\ IF cause[n] # None \/ parent[n] = None
                 THEN reg' = [reg EXCEPT ![a] = cause[n]] /\ Continue(a, <<>>)
                 ELSE /\ Continue(a, <<F("err", parent[n]), F("inherit", n)>>)
                      /\ UNCHANGED reg
           \/ /\ n \in Nodes
              /\ KindOf[n] = "value"
              /\ CanShare
              /\ reg' = [reg EXCEPT ![a] = ErrNoLock(n)]
              /\ Continue(a, <<>>)
           \/ /\ n \in Nodes
              /\ KindOf[n] = "deadline"
              /\ cause[n] = None => CanShare
              /\ IF cause[n] = None /\ Expired(n)
                 THEN /\ reg' = [reg EXCEPT ![a] = DeadlineExceeded]
                      /\ Continue(a, MarkCanceled(n, DeadlineExceeded))
                 ELSE reg' = [reg EXCEPT ![a] = cause[n]] /\ Continue(a, <<>>)
    /\ UNCHANGED <<nodeVars, asleep, lockVars, timerVars, clientVars>>

\* mutant: the parent's cause is returned but not kept
InheritLoose(a) ==
    /\ At(a, "inherit")
    /\ Continue(a, <<>>)
    /\ UNCHANGED <<nodeVars, reg, asleep, lockVars, timerVars, clientVars>>

Inherit(a) ==
    /\ At(a, "inherit")
    /\ Continue(a, IF reg[a] = None THEN <<>> ELSE MarkCanceled(Top(a).node, reg[a]))
    /\ UNCHANGED <<nodeVars, reg, asleep, lockVars, timerVars, clientVars>>

Return(a) ==
    /\ At(a, "return")
    /\ Continue(a, <<>>)
    /\ UNCHANGED <<nodeVars, reg, asleep, lockVars, timerVars, clientVars>>

(***************************************************************************)
(* Creation: attachChild, then the parent's cause, then the timer.         *)
(***************************************************************************)
Attach(a) ==
    /\ Exclusive(a, "attach")
    /\ LET n == Top(a).node
           p == Top(a).arg
       IN  /\ parent' = [parent EXCEPT ![n] = p]
           /\ children' = [children EXCEPT ![p] = @ \cup {n}]
           /\ tgen' = [tgen EXCEPT ![n] = IF KindOf[n] = "deadline" THEN @ + 1 ELSE @]
           /\ Continue(a, <<F("err", p), F("adopt", n)>>)
    /\ UNCHANGED <<state, cause, binding, fired, reg, asleep, tcanceled, tlocal, clientVars>>

\* mutant: a child attached to a canceled parent stays active
SettleBlind(n, c) == IF KindOf[n] = "deadline" THEN <<F("arm", n)>> ELSE <<>>

\* the tail of init: `if (parent.err()) |cause| self.markCanceled(cause)`
Settle(n, c) ==
    IF c # None THEN MarkCanceled(n, c)
    ELSE IF KindOf[n] = "deadline" THEN <<F("arm", n)>> ELSE <<>>

\* mutant: the handle is handed out before the parent's cause is taken over
AdoptEarly(a) ==
    /\ At(a, "adopt")
    /\ LET n == Top(a).node
       IN  Continue(a, <<F("ready", n)>> \o Settle(n, reg[a]))
    /\ UNCHANGED <<nodeVars, reg, asleep, lockVars, timerVars, clientVars>>

Adopt(a) ==
    /\ At(a, "adopt")
    /\ LET n == Top(a).node
       IN  Continue(a, Settle(n, reg[a]) \o <<F("ready", n)>>)
    /\ UNCHANGED <<nodeVars, reg, asleep, lockVars, timerVars, clientVars>>

\* the rest of DeadlineContext.init, with ensureTimer
Arm(a) ==
    /\ At(a, "arm")
    /\ CanShare
    /\ LET n == Top(a).node
       IN  \/ /\ Expired(n)
              /\ Continue(a, MarkCanceled(n, DeadlineExceeded))
           \/ /\ ~Expired(n) /\ cause[n] # None
              /\ Continue(a, <<>>)
           \/ /\ ~Expired(n) /\ cause[n] = None
              /\ \/ code' = [code EXCEPT ![a] = Rest(a), ![n] = <<F("tTop", n)>>]
                 \/ Continue(a, MarkCanceled(n, SpawnError))
    /\ UNCHANGED <<nodeVars, reg, asleep, lockVars, timerVars, clientVars>>

\* init returns the handle
Ready(a) ==
    /\ At(a, "ready")
    /\ state' = [state EXCEPT ![Top(a).node] = "live"]
    /\ Continue(a, <<>>)
    /\ UNCHANGED <<parent, children, cause, binding, fired, reg, asleep, lockVars,
                   timerVars, clientVars>>

(***************************************************************************)
(* bindLink, and the steps of deinit.                                      *)
(***************************************************************************)

\* mutant: the binding is stored without asking for the cause
BindBlind(a) ==
    /\ Exclusive(a, "bind")
    /\ LET n == Top(a).node
       IN  IF binding[n] THEN UNCHANGED <<binding, fired>>
           ELSE /\ binding' = [binding EXCEPT ![n] = TRUE]
                /\ fired' = [fired EXCEPT ![n] = 0]
    /\ Continue(a, <<>>)
    /\ UNCHANGED <<state, parent, children, cause, reg, asleep, timerVars, clientVars>>

\* AlreadyBound, fired on the spot because the context is canceled (the link
\* is the caller's, the node keeps nothing), or stored
Bind(a) ==
    /\ Exclusive(a, "bind")
    /\ LET n == Top(a).node
       IN  IF binding[n] \/ ErrNoLock(n) # None
           THEN UNCHANGED <<binding, fired>>
           ELSE /\ binding' = [binding EXCEPT ![n] = TRUE]
                /\ fired' = [fired EXCEPT ![n] = 0]
    /\ Continue(a, <<>>)
    /\ UNCHANGED <<state, parent, children, cause, reg, asleep, timerVars, clientVars>>

Unbind(a) ==
    /\ Exclusive(a, "unbind")
    /\ binding' = [binding EXCEPT ![Top(a).node] = FALSE]
    /\ Continue(a, <<>>)
    /\ UNCHANGED <<state, parent, children, cause, fired, reg, asleep, timerVars, clientVars>>

\* mutant: deinit does not wait for the timer task
JoinNothing(a) ==
    /\ At(a, "join")
    /\ Continue(a, <<>>)
    /\ UNCHANGED <<nodeVars, reg, asleep, lockVars, timerVars, clientVars>>

\* joinTimer
Join(a) ==
    /\ At(a, "join")
    /\ code[Top(a).node] = <<>>
    /\ Continue(a, <<>>)
    /\ UNCHANGED <<nodeVars, reg, asleep, lockVars, timerVars, clientVars>>

\* mutant: the node stays in its parent's children list
DetachHalf(a) ==
    /\ Exclusive(a, "detach")
    /\ LET n == Top(a).node
           p == parent[n]
       IN  /\ children' = [children EXCEPT ![n] = {}, ![p] = @ \cup children[n]]
           /\ parent' = [m \in Nodes |-> IF m \in children[n] THEN p
                                         ELSE IF m = n THEN None ELSE parent[m]]
           /\ state' = [state EXCEPT ![n] = "detached"]
           /\ Continue(a, <<F("free", n)>>)
    /\ UNCHANGED <<cause, binding, fired, reg, asleep, timerVars, clientVars>>

\* detachAndReparentChildren; reparentFn of a deadline child wakes its timer
Detach(a) ==
    /\ Exclusive(a, "detach")
    /\ LET n == Top(a).node
           p == parent[n]
           kids == children[n]
           timed == {m \in kids : KindOf[m] = "deadline"}
       IN  /\ children' = [children EXCEPT ![n] = {}, ![p] = (@ \ {n}) \cup kids]
           /\ parent' = [m \in Nodes |-> IF m \in kids THEN p
                                         ELSE IF m = n THEN None ELSE parent[m]]
           /\ tgen' = [m \in Nodes |-> IF m \in timed THEN tgen[m] + 1 ELSE tgen[m]]
           /\ Signal(timed)
           /\ state' = [state EXCEPT ![n] = "detached"]
           /\ Continue(a, <<F("free", n)>>)
    /\ UNCHANGED <<cause, binding, fired, reg, tcanceled, tlocal, clientVars>>

Free(a) ==
    /\ At(a, "free")
    /\ state' = [state EXCEPT ![Top(a).node] = "freed"]
    /\ Continue(a, <<>>)
    /\ UNCHANGED <<parent, children, cause, binding, fired, reg, asleep, lockVars,
                   timerVars, clientVars>>

(***************************************************************************)
(* wait(timeout): sleeps on the node's condition until a cause is there.   *)
(***************************************************************************)
Wait(a) ==
    /\ \E op \in {"wait", "waitT"} : At(a, op)
    /\ LET n == Top(a).node
       IN  IF cause[n] # None
           THEN Continue(a, <<>>) /\ UNCHANGED asleep
           ELSE asleep' = asleep \cup {a} /\ UNCHANGED code
    /\ UNCHANGED <<nodeVars, reg, lockVars, timerVars, clientVars>>

WaitTimeout(a) ==
    /\ Sleeping(a, "waitT")
    /\ asleep' = asleep \ {a}
    /\ Continue(a, <<>>)
    /\ UNCHANGED <<nodeVars, reg, lockVars, timerVars, clientVars>>

(***************************************************************************)
(* DeadlineContext.timerFn, the loop of node n's timer task.               *)
(***************************************************************************)
Become(n, frames) == code' = [code EXCEPT ![n] = frames]

TimerTop(n) ==
    /\ At(n, "tTop")
    /\ tlocal' = [tlocal EXCEPT ![n] = [gen |-> tgen[n], at |-> {}]]
    /\ Become(n, IF tcanceled[n] THEN <<>> ELSE <<F("tEffective", n)>>)
    /\ UNCHANGED <<nodeVars, reg, asleep, lockVars, tcanceled, tgen, clientVars>>

\* remainingTimedWait(effectiveDeadline(), now): the wait is to the earliest
\* instant of `at`, which is empty when nothing remains
TimerEffective(n) ==
    /\ At(n, "tEffective")
    /\ CanShare
    /\ tlocal' = [tlocal EXCEPT ![n].at = IF Expired(n) THEN {} ELSE Deadlines(n)]
    /\ Become(n, <<F("tCheck", n)>>)
    /\ UNCHANGED <<nodeVars, reg, asleep, lockVars, tcanceled, tgen, clientVars>>

\* under timer_mu, which timedWait releases as it goes to sleep
TimerCheck(n) ==
    /\ At(n, "tCheck")
    /\ \/ /\ tcanceled[n]
          /\ Become(n, <<>>) /\ UNCHANGED asleep
       \/ /\ ~tcanceled[n] /\ tgen[n] # tlocal[n].gen
          /\ Become(n, <<F("tTop", n)>>) /\ UNCHANGED asleep
       \/ /\ ~tcanceled[n] /\ tgen[n] = tlocal[n].gen
          /\ IF tlocal[n].at = {}
             THEN Become(n, <<F("tExpire", n)>>) /\ UNCHANGED asleep
             ELSE Become(n, <<F("tWait", n)>>) /\ asleep' = asleep \cup {n}
    /\ UNCHANGED <<nodeVars, reg, lockVars, timerVars, clientVars>>

TimerTimeout(n) ==
    /\ Sleeping(n, "tWait")
    /\ \E d \in tlocal[n].at : d <= now
    /\ asleep' = asleep \ {n}
    /\ UNCHANGED <<nodeVars, code, reg, lockVars, timerVars, clientVars>>

\* mutants: any wake counts as the deadline; the task ends at its first wake
TimerWakeExpires(n) ==
    /\ At(n, "tWait")
    /\ Become(n, IF tcanceled[n] THEN <<>> ELSE <<F("tExpire", n)>>)
    /\ UNCHANGED <<nodeVars, reg, asleep, lockVars, timerVars, clientVars>>
TimerWakeEnds(n) ==
    /\ At(n, "tWait")
    /\ Become(n, <<>>)
    /\ UNCHANGED <<nodeVars, reg, asleep, lockVars, timerVars, clientVars>>

TimerWake(n) ==
    /\ At(n, "tWait")
    /\ Become(n, IF tcanceled[n] THEN <<>> ELSE <<F("tTop", n)>>)
    /\ UNCHANGED <<nodeVars, reg, asleep, lockVars, timerVars, clientVars>>

TimerExpire(n) ==
    /\ At(n, "tExpire")
    /\ Become(n, IF cause[n] = None THEN MarkCanceled(n, DeadlineExceeded) ELSE <<>>)
    /\ UNCHANGED <<nodeVars, reg, asleep, lockVars, timerVars, clientVars>>

(***************************************************************************)
(* The clients.  A handle is used while it is live; its owner calls deinit *)
(* when no other call borrows it (README "Lifecycle contract").            *)
(***************************************************************************)
Idle(t)     == code[t] = <<>>
UsedBy(t)   == IF Idle(t) THEN {} ELSE uses[t]
Begin(t, call, handles, frames) ==
    /\ Idle(t)
    /\ call \in Calls
    /\ calls < MaxCalls
    /\ calls' = calls + 1
    /\ uses' = [uses EXCEPT ![t] = handles]
    /\ code' = [code EXCEPT ![t] = frames]
    /\ UNCHANGED <<parent, children, cause, binding, fired, reg, asleep, lockVars,
                   timerVars, now>>

\* err() runs on behalf of thread t, or will: in err, or in the init of a child
AskOps      == {"attach", "err", "inherit", "adopt"}
Asking(t)   == \E i \in DOMAIN code[t] : code[t][i].op \in AskOps
Below(n)    == {m \in Nodes : n \in UpFrom(m)}
\* with ErrDuringDeinit = FALSE the clients keep err() and the deinit of a
\* node above it apart
MayAsk(n)     == ErrDuringDeinit \/ \A m \in UpFrom(n) : state[m] \in {"live", "init"}
MayDestroy(n) == ErrDuringDeinit \/ \A t \in Threads : Asking(t) => UsedBy(t) \cap Below(n) = {}

New(t) ==
    \E n \in Nodes, p \in {Root} \cup {m \in Nodes : state[m] = "live"} :
        /\ state[n] = "fresh"
        /\ MayAsk(p)
        /\ Begin(t, "new", {n, p} \cap Nodes,
                 <<FA("attach", n, p)>>)
        /\ state' = [state EXCEPT ![n] = "init"]

\* cancel and cancelWithCause; no-ops on a value node
Cancel(t) ==
    \E n \in Nodes, c \in UserCauses \cup {Canceled} :
        /\ state[n] = "live"
        /\ KindOf[n] # "value"
        /\ Begin(t, "cancel", {n},
                 (IF KindOf[n] = "deadline" THEN <<F("stop", n)>> ELSE <<>>) \o MarkCanceled(n, c))
        /\ UNCHANGED state

Query(t) ==
    \E n \in Nodes :
        /\ state[n] = "live"
        /\ MayAsk(n)
        /\ Begin(t, "err", {n}, <<F("err", n), F("return", n)>>)
        /\ UNCHANGED state

Await(t) ==
    \E n \in Nodes, op \in {"wait", "waitT"} :
        /\ state[n] = "live"
        /\ Begin(t, op, {n}, <<F(op, n)>>)
        /\ UNCHANGED state

BindLink(t) ==
    \E n \in Nodes, op \in {"bind", "unbind"} :
        /\ state[n] = "live"
        /\ Begin(t, op, {n}, <<F(op, n)>>)
        /\ UNCHANGED state

Deinit(t) ==
    \E n \in Nodes :
        /\ state[n] = "live"
        /\ \A u \in Threads : n \notin UsedBy(u)
        /\ MayDestroy(n)
        /\ Begin(t, "deinit", {n},
                 <<F("unbind", n)>>
                 \o (IF KindOf[n] = "deadline" THEN <<F("stop", n), F("join", n)>> ELSE <<>>)
                 \o <<F("detach", n)>>)
        /\ state' = [state EXCEPT ![n] = "closing"]

Tick ==
    /\ now < MaxTime
    /\ now' = now + 1
    /\ UNCHANGED <<nodeVars, code, reg, asleep, lockVars, timerVars, uses, calls>>

\* nobody can go on unless a client makes another call
Resting ==
    /\ now = MaxTime
    /\ \A a \in Actors : Idle(a) \/ a \in asleep
    /\ UNCHANGED vars

(***************************************************************************)
(* Specification.                                                          *)
(***************************************************************************)
Walk(a)     == Mark(a) \/ Broadcast(a) \/ Fire(a) \/ NextKid(a) \/ Stop(a)
Asks(a)     == Err(a) \/ Inherit(a) \/ Return(a)
Locking(a)  == RequestExclusive(a) \/ Share(a) \/ Unshare(a)
Creating(a) == Attach(a) \/ Adopt(a) \/ Arm(a) \/ Ready(a)
Links(a)    == Bind(a) \/ Unbind(a) \/ Join(a) \/ Detach(a) \/ Free(a)
Timer(n)    == \/ TimerTop(n) \/ TimerEffective(n) \/ TimerCheck(n) \/ TimerTimeout(n)
               \/ TimerWake(n) \/ TimerExpire(n)

Step(a) == \/ Locking(a) \/ Walk(a) \/ Asks(a) \/ Creating(a) \/ Links(a)
           \/ Wait(a) \/ WaitTimeout(a)
           \/ (a \in Nodes /\ Timer(a))

Call(t) == New(t) \/ Cancel(t) \/ Query(t) \/ Await(t) \/ BindLink(t) \/ Deinit(t)

Init ==
    /\ state = [n \in Nodes |-> IF InitParent[n] = None THEN "fresh" ELSE "live"]
    /\ parent = InitParent
    /\ children = [p \in Parents |-> {n \in Nodes : InitParent[n] = p}]
    /\ cause = [n \in Nodes |-> None]
    /\ binding = [n \in Nodes |-> FALSE]
    /\ fired = [n \in Nodes |-> 0]
    /\ code = [a \in Actors |->
                  IF a \in Nodes /\ KindOf[a] = "deadline" /\ InitParent[a] # None
                  THEN <<F("tTop", a)>> ELSE <<>>]
    /\ reg = [a \in Actors |-> None]
    /\ uses = [t \in Threads |-> {}]
    /\ asleep = {}
    /\ shares = [a \in Actors |-> 0]
    /\ writers = {}
    /\ tcanceled = [n \in Nodes |-> FALSE]
    /\ tgen = [n \in Nodes |-> 0]
    /\ tlocal = [n \in Nodes |-> [gen |-> 0, at |-> {}]]
    /\ now = 0
    /\ calls = 0

Next == \/ \E a \in Actors : Step(a)
        \/ \E t \in Threads : Call(t)
        \/ Tick
        \/ Resting

\* every thread and task is scheduled, and the clock goes on; a client may
\* stop calling
Fairness == /\ \A a \in Actors : WF_vars(Step(a))
            /\ WF_vars(Tick)

Spec     == Init /\ [][Next]_vars
FairSpec == Spec /\ Fairness

(***************************************************************************)
(* Properties.                                                             *)
(***************************************************************************)
Timers == {n \in Nodes : KindOf[n] = "deadline"}

\* Variables keep their types.
Types ==
    /\ state \in [Nodes -> {"fresh", "init", "live", "closing", "detached", "freed"}]
    /\ parent \in [Nodes -> Parents \cup {None}]
    /\ children \in [Parents -> SUBSET Nodes]
    /\ cause \in [Nodes -> Causes \cup {None}]
    /\ binding \in [Nodes -> BOOLEAN]
    /\ fired \in [Nodes -> Nat]
    /\ code \in [Actors -> Seq(Frame)]
    /\ reg \in [Actors -> Causes \cup {None}]
    /\ uses \in [Threads -> SUBSET Nodes]
    /\ asleep \subseteq Actors
    /\ shares \in [Actors -> Int]
    /\ writers \subseteq Actors
    /\ tcanceled \in [Nodes -> BOOLEAN]
    /\ tgen \in [Nodes -> Nat]
    /\ tlocal \in [Nodes -> [gen : Nat, at : SUBSET Nat]]
    /\ now \in Nat
    /\ calls \in Nat

Frames(a) == {code[a][i] : i \in DOMAIN code[a]}

\* no cancellation is on its way down the tree
NoWalk == \A a \in Actors : \A f \in Frames(a) :
              f.op \notin {"mark", "broadcast", "fire", "kids", "adopt", "inherit"}

\* parent links and children lists describe the same forest, no node is above
\* itself, and a node that is still in the tree never hangs below storage that
\* has left it (internal.zig attachChild, detachAndReparentChildren).
LinksAgree  == \A n \in Nodes, p \in Parents : n \in children[p] <=> parent[n] = p
Acyclic     == \A S \in SUBSET Nodes : S # {} => \E n \in S : parent[n] \notin S
ParentsHeld == \A n \in Nodes : parent[n] \in Nodes => state[parent[n]] \in {"live", "closing"}
OutsideTree == \A n \in Nodes : state[n] \in {"fresh", "detached", "freed"} => parent[n] = None
TreeWellFormed == LinksAgree /\ Acyclic /\ ParentsHeld /\ OutsideTree

\* Every stack holds at most one frame that creates or destroys a node, as its
\* last; that node is in the state the frame expects, and two calls never
\* create or destroy the same node.  (Strengthens TreeWellFormed.)
LifeOps        == {"attach", "adopt", "ready", "detach", "free"}
OnlyBottom(st) == \A i \in 1..Len(st) - 1 : st[i].op \notin LifeOps
LifeIn(st)     == IF st # <<>> /\ st[Len(st)].op \in LifeOps THEN {st[Len(st)]} ELSE {}
LifeFrameOK(a, f) ==
    /\ f.op \in {"attach", "adopt", "ready"} => state[f.node] = "init"
    /\ f.op = "attach" => /\ a \in Threads
                          /\ parent[f.node] = None
                          /\ f.arg \in Nodes => f.arg \in uses[a] /\ state[f.arg] = "live"
    /\ f.op = "detach" => state[f.node] = "closing"
    /\ f.op = "free" => state[f.node] = "detached"
Lifecycle ==
    /\ \A a \in Actors : OnlyBottom(code[a])
    /\ \A a \in Actors : \A f \in LifeIn(code[a]) : LifeFrameOK(a, f)
    /\ \A a, b \in Actors : \A f \in LifeIn(code[a]), g \in LifeIn(code[b]) :
           f.node = g.node => a = b

\* cancelChildrenWithCauseNoLock keeps pointers into a children list while it
\* walks: every node it still has to visit stays a child of the node it walks,
\* whatever attaches, deinits or reparents run meanwhile.
WalkStaysInTree ==
    \A a \in Actors : \A f \in Frames(a) :
        f.op = "kids" => f.todo \subseteq children[f.node] /\ shares[a] > 0

\* No step dereferences a node that its owner has destroyed
\* (the walk, the timer task, err() on the way up).
NoUseAfterFree ==
    \A a \in Actors :
        code[a] # <<>> => \/ Top(a).node = Root
                          \/ state[Top(a).node] # "freed"

\* The pointers a step uses lead to nodes that are there and, in a walk, to
\* nodes still where the walk found them.
PointersHeld == NoUseAfterFree /\ WalkStaysInTree

\* When no walk is under way, cancellation has reached every descendant, also
\* one attached or reparented while the walk ran (README "recursively
\* propagates the cause to descendants").
PropagationComplete ==
    NoWalk => \A n \in Nodes :
        parent[n] \in Nodes /\ cause[parent[n]] # None => cause[n] # None

\* A binding is fired at most once, and once cancellation is over a binding
\* set before or after it has been fired (README "BindingLink / bindFd").
BindingFiresOnce ==
    \A n \in Nodes :
        /\ fired[n] <= 1
        /\ NoWalk /\ binding[n] => (fired[n] = 1 <=> cause[n] # None)

\* A node whose err() answered with a cause is canceled when err() returns.
ErrImpliesCanceled ==
    \A t \in Threads :
        At(t, "return") /\ reg[t] # None /\ KindOf[Top(t).node] # "value"
            => cause[Top(t).node] # None

\* A node of the tree is canceled with DeadlineExceeded only after a deadline
\* passed that bounds it, or that bounded it until its node was destroyed
\* (timerFn, err, init).
NoEarlyExpiry ==
    \A n \in Nodes : parent[n] # None /\ cause[n] = DeadlineExceeded =>
        \E m \in Timers : /\ DeadlineOf[m] <= now
                          /\ m \in UpFrom(n) \/ state[m] \in {"detached", "freed"}

\* A cause is where it has to be, and for a reason: it spreads to every
\* descendant, err() keeps what it answers, and no deadline is early.
CausesAgree == PropagationComplete /\ ErrImpliesCanceled /\ NoEarlyExpiry

\* The first cause is never replaced and never withdrawn.
FirstCauseSticky ==
    [][\A n \in Nodes : cause[n] # None => cause'[n] = cause[n]]_vars

\* A timed or untimed waiter is woken once a node above it is canceled.
WaiterWoken ==
    \A t \in Threads, n \in Nodes :
        (/\ t \in asleep /\ Top(t).node = n
         /\ \E m \in UpFrom(n) : cause[m] # None) ~> (t \notin asleep)

\* A live deadline node is canceled once its own deadline has passed.
DeadlineFires ==
    \A n \in Timers :
        (state[n] = "live" /\ DeadlineOf[n] <= now)
            ~> (cause[n] # None \/ state[n] # "live")

\* Every call returns, except a wait on a node that nobody cancels.
CallsReturn ==
    \A t \in Threads : ~Idle(t) ~> (Idle(t) \/ t \in asleep)

\* README: the walk "does not need same-thread nested shared-reader support".
OneShare == \A a \in Actors : shares[a] <= 1
=============================================================================
