----------------------------- MODULE RtosCondition -----------------------------
(* The condition variables of the two chips, made of a counting semaphore and a *)
(* count of waiters: esp/lib/grt/std/thread/Condition.zig and                  *)
(* bk/lib/grt/sync/Condition.zig. They differ in who takes a waiter off the     *)
(* count: the signaller on the ESP32, the waiter on BK. Tasks use it as the     *)
(* channel and the timers do: items under a mutex, and waiting for one.        *)
EXTENDS Naturals, FiniteSets

CONSTANTS Tasks,
          MaxItems   \* bound on the items put

VARIABLES chip,
          cond,   \* the count of waiters, the semaphore
          mon,    \* the monitor: owner of the mutex, items, items put so far
          task    \* per task: where it is, whether its wait is timed, tokens to give
vars == <<chip, cond, mon, task>>

Places == {"idle", "in", "registered", "asleep", "expired", "owed", "woken", "settling", "signal", "giving"}
CondTypeOK ==
    /\ cond.waiters \in Nat /\ cond.tokens \in Nat
    /\ mon.owner \subseteq Tasks /\ Cardinality(mon.owner) <= 1 /\ mon.items \in 0..MaxItems
    /\ \A t \in Tasks : task[t].at \in Places

Init ==
    /\ chip \in {"esp", "bk"} /\ cond = [waiters |-> 0, tokens |-> 0]
    /\ mon = [owner |-> {}, items |-> 0, put |-> 0]
    /\ task = [t \in Tasks |-> [at |-> "idle", timed |-> FALSE, gives |-> 0]]

Goes(t, to) == task' = [task EXCEPT ![t].at = to]

----------------------------------------------------------------------------
(* The monitor.                                                             *)
Enter(t) ==
    /\ task[t].at = "idle" /\ mon.owner = {} /\ mon' = [mon EXCEPT !.owner = {t}]
    /\ Goes(t, "in") /\ UNCHANGED <<chip, cond>>

Consume(t) ==
    /\ task[t].at = "in" /\ mon.items > 0 /\ mon' = [mon EXCEPT !.owner = {}, !.items = @ - 1]
    /\ Goes(t, "idle") /\ UNCHANGED <<chip, cond>>

\* the mutex is released before the signal, or after it
Produce(t) ==
    /\ task[t].at = "in" /\ mon.put < MaxItems
    /\ mon' \in {[mon EXCEPT !.items = @ + 1, !.put = @ + 1, !.owner = o] : o \in {{}, {t}}}
    /\ Goes(t, "signal") /\ UNCHANGED <<chip, cond>>

----------------------------------------------------------------------------
(* wait and timedWait.                                                      *)
Register(t, timed) ==
    /\ task[t].at = "in" /\ mon.items = 0 /\ cond' = [cond EXCEPT !.waiters = @ + 1]
    /\ task' = [task EXCEPT ![t].at = "registered", ![t].timed = timed] /\ UNCHANGED <<chip, mon>>

Release(t) ==
    /\ task[t].at = "registered" /\ mon' = [mon EXCEPT !.owner = {}]
    /\ Goes(t, "asleep") /\ UNCHANGED <<chip, cond>>

Take(t) ==
    /\ task[t].at \in {"asleep", "owed"} /\ cond.tokens > 0 /\ cond' = [cond EXCEPT !.tokens = @ - 1]
    /\ Goes(t, "woken") /\ UNCHANGED <<chip, mon>>

\* a take that finds a token when its time is over has it all the same
Expire(t) ==
    /\ task[t].at = "asleep" /\ task[t].timed /\ cond.tokens = 0
    /\ Goes(t, IF chip = "esp" THEN "expired" ELSE "woken") /\ UNCHANGED <<chip, cond, mon>>

\* mutant: the token that is on its way is not waited for
SettleTimeoutHasty(t) ==
    /\ task[t].at = "expired" /\ UNCHANGED <<chip, mon>> /\ Goes(t, "woken")
    /\ cond' = [cond EXCEPT !.waiters = IF @ > 0 THEN @ - 1 ELSE 0]

\* ESP32: a waiter that is still on the count takes one off; when none is, the
\* signal that took it off has a token for it, which it waits for
SettleTimeout(t) ==
    /\ task[t].at = "expired" /\ UNCHANGED <<chip, mon>>
    /\ IF cond.waiters > 0 THEN cond' = [cond EXCEPT !.waiters = @ - 1] /\ Goes(t, "woken")
       ELSE UNCHANGED cond /\ Goes(t, "owed")

Relock(t) ==
    /\ task[t].at = "woken" /\ mon.owner = {} /\ mon' = [mon EXCEPT !.owner = {t}]
    /\ Goes(t, IF chip = "esp" THEN "in" ELSE "settling") /\ UNCHANGED <<chip, cond>>

\* BK: the waiter comes off the count by itself, and only now
Settle(t) ==
    /\ task[t].at = "settling" /\ cond' = [cond EXCEPT !.waiters = IF @ # 0 THEN @ - 1 ELSE 0]
    /\ Goes(t, "in") /\ UNCHANGED <<chip, mon>>

----------------------------------------------------------------------------
(* signal and broadcast: look at the count, leave its lock, then give.         *)
Signal(t, all) ==
    /\ task[t].at = "signal" /\ UNCHANGED <<chip, mon>>
    /\ LET n == IF all \/ cond.waiters = 0 THEN cond.waiters ELSE 1 IN
       /\ cond' = IF chip = "esp" THEN [cond EXCEPT !.waiters = @ - n] ELSE cond
       /\ task' = [task EXCEPT ![t].at = "giving", ![t].gives = n]

Give(t) ==
    /\ task[t].at = "giving" /\ task[t].gives > 0 /\ UNCHANGED <<chip, mon>>
    /\ cond' = [cond EXCEPT !.tokens = @ + 1] /\ task' = [task EXCEPT ![t].gives = @ - 1]

Signalled(t) ==
    /\ task[t].at = "giving" /\ task[t].gives = 0
    /\ mon' = [mon EXCEPT !.owner = @ \ {t}] /\ Goes(t, "idle") /\ UNCHANGED <<chip, cond>>

Next == \E t \in Tasks :
    \/ Enter(t) \/ Consume(t) \/ Produce(t) \/ Register(t, TRUE) \/ Register(t, FALSE) \/ Release(t)
    \/ Take(t) \/ Expire(t) \/ SettleTimeout(t) \/ Relock(t) \/ Settle(t)
    \/ Signal(t, TRUE) \/ Signal(t, FALSE) \/ Give(t) \/ Signalled(t)

Spec == Init /\ [][Next]_vars

----------------------------------------------------------------------------
At(places)   == Cardinality({t \in Tasks : task[t].at \in places})
GivesLeft[S \in SUBSET Tasks] == IF S = {} THEN 0 ELSE LET t == CHOOSE u \in S : TRUE IN task[t].gives + GivesLeft[S \ {t}]

\* On the ESP32 every task inside a wait is on the count, has a token lying for
\* it or a signaller on its way with one, exactly; on BK every task inside a wait
\* is on the count.
WaitersCounted ==
    IF chip = "esp"
    THEN At({"registered", "asleep", "expired", "owed"}) = cond.waiters + cond.tokens + GivesLeft[Tasks]
    ELSE cond.waiters = At({"registered", "asleep", "woken", "settling"})

\* No item lies there while a task sleeps that nobody will wake: tokens, signals
\* on their way and tasks awake are as many as items that have a sleeper.
NoItemUnseen ==
    LET sleeping == At({"asleep"}) IN
    (IF mon.items < sleeping THEN mon.items ELSE sleeping)
        <= cond.tokens + GivesLeft[Tasks] + At({"in", "woken", "settling", "signal", "expired", "owed"})
=============================================================================
