------------------------------- MODULE SyncTimer -------------------------------
(* The resettable timer of glib/lib/sync/Timer.zig: a worker task waits for the *)
(* deadline under one mutex and runs the callback outside it. What happens      *)
(* between a lock and its unlock, or the wait that gives the lock up, is one    *)
(* step.                                                                        *)
EXTENDS Naturals, TLAPS

CONSTANTS MaxArms,  \* bound: deadlines set in a behaviour
          MaxTime   \* bound: the clock

VARIABLES timer,    \* allocated, its deadline, shutting_down
          worker,   \* where the worker is, the deadline it took, how long it sleeps
          owner,    \* where init, or deinit, is
          now,
          hist      \* arms counted, those replaced while pending, those that fired
vars == <<timer, worker, owner, now, hist>>

\* a deadline and the number of the reset that set it; arm 0 is no deadline
NoDeadline == [arm |-> 0, at |-> 0]
NewTimer == [heap |-> TRUE, deadline |-> NoDeadline, shutting |-> FALSE]

TimerTypeOK ==
    /\ timer.deadline \in [arm : 0..MaxArms, at : 0..MaxTime]
    /\ worker.pc \in {"none", "looks", "sleeps", "times", "calls", "gone"}
    /\ now \in 0..MaxTime

Init ==
    /\ timer = [NewTimer EXCEPT !.heap = FALSE] /\ owner = "none" /\ now = 0
    /\ worker = [pc |-> "none", took |-> NoDeadline, until |-> 0]
    /\ hist = [arms |-> 0, replaced |-> {}, fired |-> {}]

\* the worker is started, or what was allocated is freed again
Open ==
    /\ owner = "none" /\ UNCHANGED <<now, hist>>
    /\ \/ timer' = NewTimer /\ worker' = [worker EXCEPT !.pc = "looks"] /\ owner' = "open"
       \/ owner' = "failed" /\ UNCHANGED <<timer, worker>>

Tick == now < MaxTime /\ now' = now + 1 /\ UNCHANGED <<timer, worker, owner, hist>>

----------------------------------------------------------------------------
(* The callers: the owner, and the callback that sets its own timer again.  *)
Deadlines == {NoDeadline} \cup {[arm |-> hist.arms + 1, at |-> t] : t \in 0..MaxTime}

SetDeadline(d) ==
    /\ d.arm <= MaxArms
    /\ timer' = [timer EXCEPT !.deadline = d]
    /\ hist' = [hist EXCEPT !.arms = IF d = NoDeadline THEN @ ELSE d.arm,
                            !.replaced = @ \cup ({timer.deadline.arm} \ {0})]

\* mutant: the worker is woken only when it waits without a deadline
WokenIdle == worker' = IF worker.pc = "sleeps" THEN [worker EXCEPT !.pc = "looks"] ELSE worker

\* cond.signal, or broadcast: the only waiter is the worker
Woken == worker' = IF worker.pc \in {"sleeps", "times"} THEN [worker EXCEPT !.pc = "looks"] ELSE worker

Reset ==
    /\ owner = "open" \/ worker.pc = "calls"
    /\ \E d \in Deadlines : SetDeadline(d)
    /\ Woken /\ UNCHANGED <<owner, now>>

Deinit ==
    /\ owner = "open" /\ owner' = "joins" /\ UNCHANGED <<now, hist>>
    /\ timer' = [timer EXCEPT !.shutting = TRUE, !.deadline = NoDeadline] /\ Woken

\* mutant: the memory goes while the callback still runs
DestroyHasty ==
    /\ owner = "joins" /\ worker.pc \in {"calls", "gone"}
    /\ timer' = [timer EXCEPT !.heap = FALSE] /\ owner' = "freed" /\ UNCHANGED <<worker, now, hist>>

\* the join, and destroy
Destroy ==
    /\ owner = "joins" /\ worker.pc = "gone"
    /\ timer' = [timer EXCEPT !.heap = FALSE] /\ owner' = "freed" /\ UNCHANGED <<worker, now, hist>>

----------------------------------------------------------------------------
(* The worker.                                                              *)
Due == timer.deadline # NoDeadline /\ timer.deadline.at <= now

\* mutant: a deadline that has come stays set
FireKeeping == Due /\ worker' = [worker EXCEPT !.pc = "calls", !.took = timer.deadline] /\ UNCHANGED timer

Fire ==
    /\ Due /\ worker' = [worker EXCEPT !.pc = "calls", !.took = timer.deadline]
    /\ timer' = [timer EXCEPT !.deadline = NoDeadline]

Look ==
    /\ worker.pc = "looks" /\ UNCHANGED <<owner, now, hist>>
    /\ \/ timer.shutting /\ worker' = [worker EXCEPT !.pc = "gone"] /\ UNCHANGED timer
       \/ ~timer.shutting /\ Fire
       \/ /\ ~timer.shutting /\ ~Due /\ UNCHANGED timer
          /\ worker' = IF timer.deadline = NoDeadline THEN [worker EXCEPT !.pc = "sleeps"]
                       ELSE [worker EXCEPT !.pc = "times", !.until = timer.deadline.at]

TimeOut == worker.pc = "times" /\ now >= worker.until /\ worker' = [worker EXCEPT !.pc = "looks"]
           /\ UNCHANGED <<timer, owner, now, hist>>

CallbackEnds ==
    /\ worker.pc = "calls" /\ worker' = [worker EXCEPT !.pc = "looks", !.took = NoDeadline]
    /\ hist' = [hist EXCEPT !.fired = @ \cup {worker.took.arm}] /\ UNCHANGED <<timer, owner, now>>

Next == \/ Open \/ Tick \/ Reset \/ Deinit \/ Destroy \/ Look \/ TimeOut \/ CallbackEnds

Spec == Init /\ [][Next]_vars

----------------------------------------------------------------------------
\* The worker sleeps without a limit only when there is no deadline, and with one
\* only until the deadline that is set now; nobody shuts down beside it.
WorkerHasReason ==
    /\ worker.pc = "sleeps" => timer.deadline = NoDeadline /\ ~timer.shutting
    /\ worker.pc = "times" => timer.deadline.arm # 0 /\ worker.until = timer.deadline.at /\ ~timer.shutting

\* The callback runs once for a deadline, not before it, and never for one that a
\* reset or deinit replaced while it was pending. What the worker took before the
\* reset (line 159 against line 122) still runs.
FiresRight ==
    worker.pc = "calls" => /\ worker.took.at <= now
                           /\ worker.took.arm \notin hist.replaced \cup hist.fired

\* The timer's memory goes after its worker.
TimerAlive == worker.pc \notin {"none", "gone"} => timer.heap

----------------------------------------------------------------------------
(* The theorems, for every number of deadlines and every length of the clock.    *)
Bounded == MaxArms \in Nat /\ MaxTime \in Nat

Arming    == [arm : 0..MaxArms, at : 0..MaxTime]
WorkerPcs == {"none", "looks", "sleeps", "times", "calls", "gone"}

TimerTypes ==
    /\ timer \in [heap : BOOLEAN, deadline : Arming, shutting : BOOLEAN]
    /\ worker \in [pc : WorkerPcs, took : Arming, until : 0..MaxTime]
    /\ now \in 0..MaxTime
    /\ hist \in [arms : 0..MaxArms, replaced : SUBSET (0..MaxArms), fired : SUBSET (0..MaxArms)]

\* Every deadline has a number of its own: what is pending, what the callback runs
\* for, what was replaced and what has fired are apart.
Numbered ==
    /\ timer.deadline.arm <= hist.arms /\ worker.took.arm <= hist.arms
    /\ timer.deadline.arm = 0 => timer.deadline = NoDeadline
    /\ \A a \in hist.replaced \cup hist.fired : a <= hist.arms
    /\ timer.deadline.arm # 0 => timer.deadline.arm \notin hist.replaced \cup hist.fired
    /\ worker.pc = "calls" => worker.took.arm # 0 /\ worker.took.arm # timer.deadline.arm

TimerInv == TimerTypes /\ Numbered /\ WorkerHasReason /\ FiresRight /\ TimerAlive

LEMMA TimerInit == ASSUME Bounded, Init PROVE TimerInv
<1>1. NoDeadline \in Arming /\ NoDeadline.arm = 0
  BY DEF Bounded, NoDeadline, Arming
<1>2. timer = [heap |-> FALSE, deadline |-> NoDeadline, shutting |-> FALSE]
  BY DEF Init, NewTimer
<1>3. /\ worker = [pc |-> "none", took |-> NoDeadline, until |-> 0] /\ now = 0
      /\ hist = [arms |-> 0, replaced |-> {}, fired |-> {}]
  BY DEF Init
<1>4. TimerTypes
  <2>1. 0 \in 0..MaxArms /\ 0 \in 0..MaxTime
    BY DEF Bounded
  <2> QED BY <1>1, <1>2, <1>3, <2>1 DEF TimerTypes, WorkerPcs
<1>5. Numbered
  BY <1>1, <1>2, <1>3 DEF Numbered
<1> QED BY <1>1, <1>2, <1>3, <1>4, <1>5 DEF TimerInv, WorkerHasReason, FiresRight, TimerAlive

\* Whoever sets the deadline wakes a worker that sleeps.
LEMMA WokenWorker ==
    ASSUME TimerTypes, Woken
    PROVE  /\ worker'.pc \in WorkerPcs \ {"sleeps", "times"}
           /\ worker'.took = worker.took /\ worker'.until = worker.until
           /\ worker' \in [pc : WorkerPcs, took : Arming, until : 0..MaxTime]
           /\ worker'.pc = "calls" <=> worker.pc = "calls"
           /\ worker'.pc \in {"none", "gone"} <=> worker.pc \in {"none", "gone"}
BY DEF TimerTypes, Woken, WorkerPcs

LEMMA ResetStep == ASSUME Bounded, TimerInv, Reset PROVE TimerInv'
<1>1. PICK d \in Deadlines : SetDeadline(d)
  BY DEF Reset
<1>2. Woken /\ now' = now
  BY DEF Reset
<1>3. TimerTypes
  BY DEF TimerInv
<1>4. /\ d \in Arming
      /\ d = NoDeadline \/ d.arm = hist.arms + 1
      /\ d.arm = 0 => d = NoDeadline
  BY <1>1, <1>3 DEF Deadlines, SetDeadline, NoDeadline, Arming, TimerTypes, Bounded
<1>5. timer' = [timer EXCEPT !.deadline = d]
  BY <1>1 DEF SetDeadline
<1>6. hist' = [hist EXCEPT !.arms = IF d = NoDeadline THEN @ ELSE d.arm,
                           !.replaced = @ \cup ({timer.deadline.arm} \ {0})]
  BY <1>1 DEF SetDeadline
<1>7. TimerTypes'
  BY <1>2, <1>3, <1>4, <1>5, <1>6, WokenWorker DEF TimerTypes, Arming
<1>8. Numbered'
  <2>1. hist'.arms = (IF d = NoDeadline THEN hist.arms ELSE d.arm)
    BY <1>3, <1>6 DEF TimerTypes
  <2>2. hist'.replaced = hist.replaced \cup ({timer.deadline.arm} \ {0}) /\ hist'.fired = hist.fired
    BY <1>3, <1>6 DEF TimerTypes
  <2>3. timer'.deadline = d
    BY <1>3, <1>5 DEF TimerTypes
  <2>4. hist.arms \in Nat /\ timer.deadline.arm \in Nat /\ worker.took.arm \in Nat /\ d.arm \in Nat
    BY <1>3, <1>4 DEF TimerTypes, Arming
  <2>5. hist'.arms >= hist.arms /\ d.arm <= hist'.arms
    BY <1>4, <2>1, <2>4 DEF NoDeadline
  <2>6. /\ \A a \in hist.replaced \cup hist.fired : a <= hist.arms /\ a \in Nat
        /\ timer.deadline.arm <= hist.arms /\ worker.took.arm <= hist.arms
    BY <1>3 DEF TimerInv, Numbered, TimerTypes
  <2>7. \A a \in hist'.replaced \cup hist'.fired : a <= hist.arms /\ a \in Nat
    BY <2>2, <2>4, <2>6
  <2>8. worker'.pc = "calls" => worker.pc = "calls" /\ worker'.took = worker.took
    BY <1>2, <1>3, WokenWorker
  <2>9. worker'.took.arm <= hist'.arms
    BY <1>2, <1>3, <2>1, <2>4, <2>5, <2>6, WokenWorker
  <2>10. \A a \in hist'.replaced \cup hist'.fired : a <= hist'.arms
    BY <2>1, <2>4, <2>5, <2>7, <1>4 DEF NoDeadline
  <2>11. d.arm # 0 => d.arm > hist.arms
    BY <1>4, <2>4 DEF NoDeadline
  <2>12. d.arm # 0 => d.arm \notin hist'.replaced \cup hist'.fired
    BY <2>4, <2>7, <2>11
  <2>13. worker'.pc = "calls" => worker'.took.arm # 0 /\ worker'.took.arm # d.arm
    <3>1. worker.pc = "calls" => worker.took.arm # 0
      BY DEF TimerInv, Numbered
    <3> QED BY <2>4, <2>6, <2>8, <2>11, <3>1
  <2> QED BY <1>4, <2>3, <2>5, <2>9, <2>10, <2>12, <2>13 DEF Numbered
<1>9. WorkerHasReason'
  BY <1>2, <1>3, WokenWorker DEF WorkerHasReason
<1>10. FiresRight'
  <2>1. worker'.pc = "calls" => worker.pc = "calls" /\ worker'.took = worker.took
    BY <1>2, <1>3, WokenWorker
  <2>2. hist'.replaced \cup hist'.fired \subseteq hist.replaced \cup hist.fired \cup {timer.deadline.arm}
    BY <1>3, <1>6 DEF TimerTypes
  <2> QED BY <1>2, <2>1, <2>2 DEF TimerInv, FiresRight, Numbered
<1>11. TimerAlive'
  <2>1. timer'.heap = timer.heap
    BY <1>3, <1>5 DEF TimerTypes
  <2> QED BY <1>2, <1>3, <2>1, WokenWorker DEF TimerInv, TimerAlive
<1> QED BY <1>7, <1>8, <1>9, <1>10, <1>11 DEF TimerInv

LEMMA DeinitStep == ASSUME Bounded, TimerInv, Deinit PROVE TimerInv'
<1>1. TimerTypes /\ Woken /\ now' = now /\ hist' = hist
  BY DEF TimerInv, Deinit
<1>2. timer' = [timer EXCEPT !.shutting = TRUE, !.deadline = NoDeadline]
  BY DEF Deinit
<1>3. NoDeadline \in Arming /\ NoDeadline.arm = 0
  BY DEF Bounded, NoDeadline, Arming
<1>4. timer'.deadline = NoDeadline /\ timer'.heap = timer.heap
  BY <1>1, <1>2 DEF TimerTypes
<1>5. TimerTypes'
  BY <1>1, <1>2, <1>3, WokenWorker DEF TimerTypes
<1>6. Numbered'
  <2>1. /\ worker'.took = worker.took
        /\ worker'.pc = "calls" <=> worker.pc = "calls"
    BY <1>1, WokenWorker
  <2>2. hist.arms \in Nat
    BY <1>1 DEF TimerTypes
  <2> QED BY <1>1, <1>3, <1>4, <2>1, <2>2 DEF TimerInv, Numbered
<1>7. WorkerHasReason'
  BY <1>1, WokenWorker DEF WorkerHasReason
<1>8. FiresRight' /\ TimerAlive'
  BY <1>1, <1>4, WokenWorker DEF TimerInv, FiresRight, TimerAlive
<1> QED BY <1>5, <1>6, <1>7, <1>8 DEF TimerInv

LEMMA LookStep == ASSUME Bounded, TimerInv, Look PROVE TimerInv'
<1> USE DEF TimerInv, TimerTypes, Arming, WorkerPcs
<1>1. worker.pc = "looks" /\ now' = now /\ hist' = hist
  BY DEF Look
<1>2. CASE timer.shutting /\ worker' = [worker EXCEPT !.pc = "gone"] /\ UNCHANGED timer
  BY <1>1, <1>2 DEF Numbered, WorkerHasReason, FiresRight, TimerAlive
<1>3. CASE Fire
  <2>1. /\ worker' = [worker EXCEPT !.pc = "calls", !.took = timer.deadline]
        /\ timer' = [timer EXCEPT !.deadline = NoDeadline]
        /\ timer.deadline # NoDeadline /\ timer.deadline.at <= now
    BY <1>3 DEF Fire, Due
  <2>2. worker'.pc = "calls" /\ worker'.took = timer.deadline /\ timer'.deadline = NoDeadline /\ timer'.heap = timer.heap
    BY <2>1
  <2>3. NoDeadline \in Arming /\ NoDeadline.arm = 0
    BY DEF Bounded, NoDeadline
  <2>4. TimerTypes'
    BY <1>1, <2>1, <2>3
  <2>5. Numbered'
    BY <1>1, <2>1, <2>2, <2>3 DEF Numbered
  <2>6. WorkerHasReason' /\ FiresRight' /\ TimerAlive'
    BY <1>1, <2>1, <2>2 DEF Numbered, WorkerHasReason, FiresRight, TimerAlive
  <2> QED BY <2>4, <2>5, <2>6
<1>4. CASE /\ ~timer.shutting /\ ~Due /\ UNCHANGED timer
           /\ worker' = IF timer.deadline = NoDeadline THEN [worker EXCEPT !.pc = "sleeps"]
                        ELSE [worker EXCEPT !.pc = "times", !.until = timer.deadline.at]
  <2>1. /\ worker'.pc = (IF timer.deadline = NoDeadline THEN "sleeps" ELSE "times")
        /\ worker'.took = worker.took
        /\ timer.deadline # NoDeadline => worker'.until = timer.deadline.at
    BY <1>4
  <2>2. TimerTypes'
    BY <1>1, <1>4
  <2>3. Numbered' /\ FiresRight' /\ TimerAlive'
    BY <1>1, <1>4, <2>1 DEF Numbered, FiresRight, TimerAlive
  <2>4. WorkerHasReason'
    BY <1>4, <2>1 DEF Numbered, WorkerHasReason
  <2> QED BY <2>2, <2>3, <2>4
<1> QED BY <1>2, <1>3, <1>4 DEF Look

LEMMA OtherStep ==
    ASSUME Bounded, TimerInv, Open \/ Tick \/ Destroy \/ TimeOut \/ CallbackEnds \/ UNCHANGED vars
    PROVE  TimerInv'
<1> USE DEF TimerInv, TimerTypes, Numbered, WorkerHasReason, FiresRight, TimerAlive, Arming, WorkerPcs
<1>1. CASE Open
  <2>1. CASE timer' = NewTimer /\ worker' = [worker EXCEPT !.pc = "looks"]
    <3>1. NoDeadline \in Arming /\ NoDeadline.arm = 0
      BY DEF Bounded, NoDeadline
    <3>2. timer' = [heap |-> TRUE, deadline |-> NoDeadline, shutting |-> FALSE]
      BY <2>1 DEF NewTimer
    <3>3. worker'.pc = "looks" /\ worker'.took = worker.took /\ worker' \in [pc : WorkerPcs, took : Arming, until : 0..MaxTime]
      BY <2>1
    <3>4. now' = now /\ hist' = hist
      BY <1>1 DEF Open
    <3>5. timer' \in [heap : BOOLEAN, deadline : Arming, shutting : BOOLEAN]
      BY <3>1, <3>2
    <3>6. TimerTypes'
      BY <3>3, <3>4, <3>5
    <3>7. Numbered'
      BY <3>1, <3>2, <3>3, <3>4
    <3> QED BY <3>2, <3>3, <3>6, <3>7
  <2>2. CASE UNCHANGED <<timer, worker>>
    BY <1>1, <2>2 DEF Open
  <2> QED BY <1>1, <2>1, <2>2 DEF Open
<1>2. CASE Tick
  BY <1>2 DEF Tick, Bounded
<1>3. CASE Destroy
  BY <1>3 DEF Destroy
<1>4. CASE TimeOut
  BY <1>4 DEF TimeOut
<1>5. CASE CallbackEnds
  <2>1. /\ worker.pc = "calls" /\ worker' = [worker EXCEPT !.pc = "looks", !.took = NoDeadline]
        /\ hist' = [hist EXCEPT !.fired = @ \cup {worker.took.arm}] /\ timer' = timer /\ now' = now
    BY <1>5 DEF CallbackEnds
  <2>2. NoDeadline \in Arming /\ NoDeadline.arm = 0
    BY DEF Bounded, NoDeadline
  <2>3. /\ hist'.arms = hist.arms /\ hist'.replaced = hist.replaced
        /\ hist'.fired = hist.fired \cup {worker.took.arm}
    BY <2>1
  <2>4. worker'.pc = "looks" /\ worker'.took = NoDeadline
    BY <2>1
  <2>5. TimerTypes'
    BY <2>1, <2>2
  <2>6. Numbered'
    BY <2>1, <2>2, <2>3, <2>4
  <2> QED BY <2>1, <2>4, <2>5, <2>6
<1>6. CASE UNCHANGED vars
  BY <1>6 DEF vars
<1> QED BY <1>1, <1>2, <1>3, <1>4, <1>5, <1>6

LEMMA TimerStep == ASSUME Bounded, TimerInv, [Next]_vars PROVE TimerInv'
BY ResetStep, DeinitStep, LookStep, OtherStep DEF Next

\* The invariant holds in every behaviour of the timer.
LEMMA TimerInvariant == ASSUME Bounded PROVE Spec => []TimerInv
<1>1. Init => TimerInv
  BY TimerInit
<1>2. TimerInv /\ [Next]_vars => TimerInv'
  BY TimerStep
<1> QED BY <1>1, <1>2, PTL DEF Spec

\* The callback runs once for a deadline, not before it and never for one that was
\* replaced while pending, however often the timer is set, by its owner or by the
\* callback itself (reset, waitForFire).
THEOREM TimerFiresRight == ASSUME Bounded PROVE Spec => []FiresRight
BY TimerInvariant, PTL DEF TimerInv

\* No wakeup of the worker is lost: it sleeps only without a deadline, and with
\* one no longer than until the deadline that is set now.
THEOREM TimerWorkerHasReason == ASSUME Bounded PROVE Spec => []WorkerHasReason
BY TimerInvariant, PTL DEF TimerInv

\* deinit frees the timer after its worker has ended.
THEOREM TimerStaysAlive == ASSUME Bounded PROVE Spec => []TimerAlive
BY TimerInvariant, PTL DEF TimerInv
=============================================================================
