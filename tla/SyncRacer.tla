------------------------------- MODULE SyncRacer -------------------------------
(* The race of detached tasks of glib/lib/sync/Racer.zig: the first success    *)
(* wins, race and wait sleep on one condition, deinit frees what the tasks       *)
(* share once the last of them has counted itself off.                          *)
EXTENDS Naturals, FiniteSets, FiniteSetTheorems, TLAPS

CONSTANTS Racers,   \* the tasks that may be spawned
          Askers    \* the tasks that use the Racer

VARIABLES shared,   \* allocated, done, running, the value
          task,     \* where each task is, and whether its success was taken
          asker,    \* where each caller is, and what race told it
          cancelled
vars == <<shared, task, asker, cancelled>>

Nobody == "nobody"
Inside == {"starts", "runs"}       \* counted in running

RacerTypeOK ==
    /\ shared.value \in Racers \cup {Nobody}
    /\ shared.running \in 0..Cardinality(Racers)
    /\ task \in [Racers -> [pc : {"idle"} \cup Inside \cup {"frees", "gone"}, won : BOOLEAN]]

Init ==
    /\ shared = [heap |-> TRUE, done |-> FALSE, running |-> 0, value |-> Nobody]
    /\ task = [t \in Racers |-> [pc |-> "idle", won |-> FALSE]]
    /\ asker = [a \in Askers |-> [pc |-> "idle", told |-> "nothing"]]
    /\ cancelled = FALSE

Has == shared.value # Nobody
Asleep == {"sleeps in race", "sleeps in wait", "sleeps in deinit"}
Looks(pc) == CASE pc = "sleeps in race" -> "races" [] pc = "sleeps in wait" -> "waits"
               [] pc = "sleeps in deinit" -> "deinits" [] OTHER -> pc
\* cond.broadcast
Woken(as) == [a \in Askers |-> [as[a] EXCEPT !.pc = Looks(@)]]
Goes(a, pc) == asker' = [asker EXCEPT ![a].pc = pc]
\* deinit is the last call
Calls(a) == shared.heap /\ asker[a].pc = "idle"
            /\ \A b \in Askers : asker[b].pc \notin {"deinits", "sleeps in deinit"}

----------------------------------------------------------------------------
(* spawn: the task is counted before it is made. What race told earlier is   *)
(* about the tasks before.                                                   *)
Spawn(a, t) ==
    /\ Calls(a) /\ task[t].pc = "idle" /\ UNCHANGED cancelled
    /\ shared' = [shared EXCEPT !.running = @ + 1]
    /\ task' = [task EXCEPT ![t].pc = "starts"]
    /\ asker' = [b \in Askers |-> [pc |-> IF b = a THEN "spawns" ELSE asker[b].pc, told |-> "nothing"]]

\* mutant: the last task to leave tells nobody
CountOffQuietly(as) == shared' = [shared EXCEPT !.running = @ - 1] /\ asker' = as

\* finishTask
CountOff(as) ==
    /\ shared' = [shared EXCEPT !.running = @ - 1]
    /\ asker' = IF shared.running = 1 THEN Woken(as) ELSE as

\* mutant: a task that cannot be started stays counted
StartedCounting(a, t) ==
    /\ asker[a].pc = "spawns" /\ task[t].pc = "starts" /\ UNCHANGED <<shared, cancelled>>
    /\ \/ task' = [task EXCEPT ![t].pc = "idle"] /\ Goes(a, "idle")
       \/ task' = [task EXCEPT ![t].pc = "runs"] /\ Goes(a, "idle")

\* the context cannot be allocated, the task not started, or it runs, detached
Started(a, t) ==
    /\ asker[a].pc = "spawns" /\ task[t].pc = "starts" /\ UNCHANGED cancelled
    /\ \/ /\ task' = [task EXCEPT ![t].pc = "idle"]
          /\ CountOff([asker EXCEPT ![a].pc = "idle"])
       \/ task' = [task EXCEPT ![t].pc = "runs"] /\ Goes(a, "idle") /\ UNCHANGED shared

----------------------------------------------------------------------------
(* A task succeeds as often as it likes, and ends.                          *)
\* mutant: only done is looked at, and only cancel sets it
SuccessUnchecked(t) ==
    /\ task[t].pc = "runs" /\ UNCHANGED cancelled
    /\ ~cancelled
    /\ shared' = [shared EXCEPT !.value = t, !.done = TRUE]
    /\ task' = [task EXCEPT ![t].won = TRUE] /\ asker' = Woken(asker)

\* refused, it changes nothing
Success(t) ==
    /\ task[t].pc = "runs" /\ UNCHANGED cancelled
    /\ ~Has /\ ~shared.done
    /\ shared' = [shared EXCEPT !.value = t, !.done = TRUE]
    /\ task' = [task EXCEPT ![t].won = TRUE] /\ asker' = Woken(asker)

Finish(t) ==
    /\ task[t].pc = "runs" /\ task' = [task EXCEPT ![t].pc = "frees"]
    /\ CountOff(asker) /\ UNCHANGED cancelled

\* the task's own context goes after it has counted itself off
FreeContext(t) ==
    task[t].pc = "frees" /\ task' = [task EXCEPT ![t].pc = "gone"] /\ UNCHANGED <<shared, asker, cancelled>>

----------------------------------------------------------------------------
(* The callers.                                                             *)
\* after a winner it does nothing
Cancel(a) ==
    /\ Calls(a) /\ ~shared.done /\ shared' = [shared EXCEPT !.done = TRUE]
    /\ cancelled' = TRUE /\ asker' = Woken(asker) /\ UNCHANGED task

Ask(a) ==
    /\ Calls(a) /\ UNCHANGED <<shared, task, cancelled>>
    /\ \/ Goes(a, "races") \/ Goes(a, "waits")
       \/ (\A b \in Askers : asker[b].pc = "idle") /\ Goes(a, "deinits")

\* mutant: what woke race is taken for a winner or the end
RaceOnce(a) ==
    /\ asker[a].pc \in {"races", "sleeps in race"} /\ UNCHANGED <<shared, task, cancelled>>
    /\ asker' = [asker EXCEPT ![a] = [pc |-> "idle", told |-> IF Has THEN shared.value ELSE "exhausted"]]

\* race and raceContext
Race(a) ==
    /\ asker[a].pc = "races" /\ UNCHANGED <<shared, task, cancelled>>
    /\ asker' = [asker EXCEPT ![a] =
         IF ~Has /\ shared.running # 0 THEN [@ EXCEPT !.pc = "sleeps in race"]
         ELSE [pc |-> "idle", told |-> IF Has THEN shared.value ELSE "exhausted"]]

\* raceContext looks at its context every few milliseconds: it wakes for
\* nothing, or returns the context's error
Poll(a) ==
    /\ asker[a].pc = "sleeps in race" /\ UNCHANGED <<shared, task, cancelled>>
    /\ Goes(a, "races") \/ Goes(a, "idle")

Wait(a) ==
    /\ asker[a].pc = "waits" /\ UNCHANGED <<shared, task, cancelled>>
    /\ Goes(a, IF shared.running # 0 THEN "sleeps in wait" ELSE "idle")

\* mutant: deinit does not wait for tasks once there is a winner
DeinitOnWinner(a) ==
    /\ asker[a].pc = "deinits" /\ UNCHANGED <<task, cancelled>>
    /\ IF ~Has /\ shared.running # 0 THEN Goes(a, "sleeps in deinit") /\ UNCHANGED shared
       ELSE Goes(a, "idle") /\ shared' = [shared EXCEPT !.heap = FALSE]

Deinit(a) ==
    /\ asker[a].pc = "deinits" /\ UNCHANGED <<task, cancelled>>
    /\ IF shared.running # 0 THEN Goes(a, "sleeps in deinit") /\ UNCHANGED shared
       ELSE Goes(a, "idle") /\ shared' = [shared EXCEPT !.heap = FALSE]

Next ==
    \/ \E a \in Askers : \/ Cancel(a) \/ Ask(a) \/ Race(a) \/ Poll(a) \/ Wait(a) \/ Deinit(a)
                         \/ \E t \in Racers : Spawn(a, t) \/ Started(a, t)
    \/ \E t \in Racers : Success(t) \/ Finish(t) \/ FreeContext(t)

Spec == Init /\ [][Next]_vars

----------------------------------------------------------------------------
\* At most one success is taken, none after a cancel that found no winner, and it
\* is the value.
OneWinner ==
    \A t \in Racers : task[t].won => shared.value = t /\ ~cancelled

\* What race says is so: a winner is the winner for good, and exhausted means
\* that no task spawned before had won or still can.
RaceHonest ==
    \A a \in Askers : asker[a].told # "nothing" =>
        \/ asker[a].told = shared.value
        \/ asker[a].told = "exhausted" /\ ~Has /\ \A t \in Racers : task[t].pc \notin Inside

\* running counts the tasks that are inside, so that who sleeps in race has a
\* task to wait for and no winner, and who sleeps in wait or deinit has a task.
AskersHaveReason ==
    /\ shared.running = Cardinality({t \in Racers : task[t].pc \in Inside})
    /\ \A a \in Askers :
         /\ asker[a].pc \in Asleep => shared.running # 0
         /\ asker[a].pc = "sleeps in race" => ~Has

\* What the tasks share is freed after the last of them has counted itself off.
\* The task still frees its own context then (line 140): its allocator must
\* outlive deinit.
RacerAlive == ~shared.heap => \A t \in Racers : task[t].pc \notin Inside

----------------------------------------------------------------------------
(* Theorems about the race, for every finite set of tasks and every set of  *)
(* callers.                                                                 *)
TaskPcs  == {"idle", "starts", "runs", "frees", "gone"}
AskerPcs == {"idle", "spawns", "races", "waits", "deinits"} \cup Asleep
AskerRecs == [pc : AskerPcs, told : Racers \cup {Nobody, "nothing", "exhausted"}]
Counted  == {t \in Racers : task[t].pc \in Inside}

\* AskersHaveReason without the count.
Reasons == \A a \in Askers : /\ asker[a].pc \in Asleep => shared.running # 0
                             /\ asker[a].pc = "sleeps in race" => ~Has

RacerTypes ==
    /\ shared \in [heap : BOOLEAN, done : BOOLEAN, running : Nat, value : Racers \cup {Nobody}]
    /\ task \in [Racers -> [pc : TaskPcs, won : BOOLEAN]]
    /\ asker \in [Askers -> AskerRecs]
    /\ cancelled \in BOOLEAN

\* done is set by whatever ends the race.
DoneEnds == cancelled \/ (\E t \in Racers : task[t].won) => shared.done

\* Nobody is told that nobody has won.
ToldSome == \A a \in Askers : asker[a].told # Nobody

RacerInv == /\ RacerTypes /\ DoneEnds /\ ToldSome
            /\ OneWinner /\ RaceHonest /\ AskersHaveReason /\ RacerAlive

(***************************************************************************)
(* The count of the tasks that are inside.                                 *)
(***************************************************************************)
LEMMA CountedMoves ==
    ASSUME IsFiniteSet(Racers), NEW S \in SUBSET Racers, NEW t \in Racers
    PROVE  /\ Cardinality(S) \in Nat
           /\ Cardinality(S) = 0 <=> S = {}
           /\ t \notin S => Cardinality(S \cup {t}) = Cardinality(S) + 1
           /\ t \in S => Cardinality(S \ {t}) = Cardinality(S) - 1
<1>1. IsFiniteSet(S)
  BY FS_Subset
<1> QED BY <1>1, FS_CardinalityType, FS_EmptySet, FS_AddElement, FS_RemoveElement

\* running = 0 is said of a set that is empty.
LEMMA NobodyInside ==
    ASSUME IsFiniteSet(Racers), RacerInv, shared.running = 0
    PROVE  \A t \in Racers : task[t].pc \notin Inside
<1>1. Cardinality(Counted) = 0
  BY DEF RacerInv, AskersHaveReason, Counted
<1>2. SUFFICES ASSUME NEW t \in Racers PROVE task[t].pc \notin Inside
  OBVIOUS
<1>3. Counted = {}
  BY <1>1, CountedMoves DEF Counted
<1> QED BY <1>3 DEF Counted

\* A broadcast leaves nobody asleep, and tells nobody anything.
LEMMA WokenAskers ==
    ASSUME NEW as \in [Askers -> AskerRecs]
    PROVE  /\ Woken(as) \in [Askers -> AskerRecs]
           /\ \A a \in Askers : Woken(as)[a].told = as[a].told /\ Woken(as)[a].pc \notin Asleep
BY DEF Woken, Looks, AskerPcs, Asleep, AskerRecs

\* AskersHaveReason, in two parts.
LEMMA ReasonParts ==
    /\ AskersHaveReason <=> shared.running = Cardinality(Counted) /\ Reasons
    /\ AskersHaveReason' <=> shared'.running = Cardinality(Counted') /\ Reasons'
BY Zenon DEF AskersHaveReason, Counted, Reasons

(***************************************************************************)
(* One lemma for each step.                                                *)
(***************************************************************************)
LEMMA RacerInit == ASSUME IsFiniteSet(Racers), Init PROVE RacerInv
<1>1. {t \in Racers : task[t].pc \in Inside} = {}
  BY DEF Init, Inside
<1>2. Cardinality({t \in Racers : task[t].pc \in Inside}) = 0
  BY <1>1, FS_EmptySet
<1>3. RacerTypes /\ DoneEnds /\ ToldSome /\ OneWinner /\ RaceHonest /\ RacerAlive
  BY DEF Init, RacerTypes, DoneEnds, ToldSome, OneWinner, RaceHonest, RacerAlive, TaskPcs, AskerPcs, AskerRecs, Nobody
<1>4. AskersHaveReason
  BY <1>2 DEF Init, AskersHaveReason, Asleep
<1> QED BY <1>3, <1>4 DEF RacerInv

LEMMA SpawnStep ==
    ASSUME IsFiniteSet(Racers), RacerInv, NEW a \in Askers, NEW t \in Racers, Spawn(a, t)
    PROVE  RacerInv'
<1>1. /\ shared' = [shared EXCEPT !.running = @ + 1] /\ task' = [task EXCEPT ![t].pc = "starts"]
      /\ shared.heap /\ task[t].pc = "idle" /\ cancelled' = cancelled
  BY DEF Spawn, Calls
<1>2. RacerTypes
  BY DEF RacerInv
<1>3. asker' = [b \in Askers |-> [pc |-> IF b = a THEN "spawns" ELSE asker[b].pc, told |-> "nothing"]]
  BY DEF Spawn
<1>4. RacerTypes'
  <2>1. asker' \in [Askers -> AskerRecs]
    <3>1. ASSUME NEW b \in Askers
          PROVE  [pc |-> IF b = a THEN "spawns" ELSE asker[b].pc, told |-> "nothing"] \in AskerRecs
      BY <1>2 DEF RacerTypes, AskerRecs, AskerPcs
    <3> QED BY <1>3, <3>1
  <2>2. /\ shared' \in [heap : BOOLEAN, done : BOOLEAN, running : Nat, value : Racers \cup {Nobody}]
        /\ task' \in [Racers -> [pc : TaskPcs, won : BOOLEAN]] /\ cancelled' \in BOOLEAN
    BY <1>1, <1>2 DEF RacerTypes, TaskPcs
  <2> QED BY <2>1, <2>2 DEF RacerTypes
<1>5. shared'.running = Cardinality(Counted')
  <2>1. Counted' = Counted \cup {t} /\ t \notin Counted /\ Counted \in SUBSET Racers
    BY <1>1, <1>2 DEF RacerTypes, Counted, Inside
  <2>2. shared.running = Cardinality(Counted)
    BY ReasonParts DEF RacerInv
  <2>3. Cardinality(Counted \cup {t}) = Cardinality(Counted) + 1
    BY <2>1, CountedMoves
  <2>4. shared'.running = shared.running + 1
    BY <1>1, <1>2 DEF RacerTypes
  <2> QED BY <2>1, <2>2, <2>3, <2>4
<1>6. shared'.running # 0 /\ shared'.value = shared.value /\ shared'.done = shared.done /\ shared'.heap
  BY <1>1, <1>2 DEF RacerTypes
<1>7. Reasons'
  <2>1. \A b \in Askers : asker'[b].pc = "sleeps in race" => asker[b].pc = "sleeps in race"
    BY <1>3
  <2> QED BY <1>6, <2>1, ReasonParts DEF RacerInv, Reasons, Has
<1>8. DoneEnds' /\ OneWinner'
  BY <1>1, <1>2, <1>6 DEF RacerInv, RacerTypes, DoneEnds, OneWinner
<1>9. ToldSome' /\ RaceHonest' /\ RacerAlive'
  BY <1>3, <1>6 DEF ToldSome, RaceHonest, RacerAlive, Nobody
<1> QED BY <1>4, <1>5, <1>7, <1>8, <1>9, ReasonParts DEF RacerInv

\* Who leaves is counted off, and the last to leave wakes everybody.
LEMMA CountOffStep ==
    ASSUME IsFiniteSet(Racers), RacerInv, NEW t \in Racers, task[t].pc \in Inside,
           NEW pc \in TaskPcs \ Inside, task' = [task EXCEPT ![t].pc = pc],
           NEW as, as \in [Askers -> AskerRecs],
           \A a \in Askers : as[a].told = asker[a].told /\ (as[a].pc \in Asleep => as[a].pc = asker[a].pc),
           CountOff(as), cancelled' = cancelled
    PROVE  RacerInv'
<1>1. shared' = [shared EXCEPT !.running = @ - 1] /\ asker' = IF shared.running = 1 THEN Woken(as) ELSE as
  BY DEF CountOff
<1>2. RacerTypes
  BY DEF RacerInv
<1>3. /\ shared'.running = shared.running - 1 /\ shared.running \in Nat
      /\ shared'.value = shared.value /\ shared'.done = shared.done /\ shared'.heap = shared.heap
  BY <1>1, <1>2 DEF RacerTypes
<1>4. shared'.running = Cardinality(Counted') /\ shared'.running \in Nat
  <2>1. Counted' = Counted \ {t} /\ t \in Counted /\ Counted \in SUBSET Racers /\ Counted' \in SUBSET Racers
    BY <1>2 DEF RacerTypes, Counted
  <2>2. shared.running = Cardinality(Counted)
    BY ReasonParts DEF RacerInv
  <2>3. Cardinality(Counted \ {t}) = Cardinality(Counted) - 1 /\ Cardinality(Counted') \in Nat
    BY <2>1, CountedMoves
  <2> QED BY <1>3, <2>1, <2>2, <2>3
<1>5. asker' \in [Askers -> AskerRecs] /\ \A a \in Askers : asker'[a].told = asker[a].told
  <2>1. /\ Woken(as) \in [Askers -> AskerRecs]
        /\ \A a \in Askers : Woken(as)[a].told = as[a].told /\ Woken(as)[a].pc \notin Asleep
    BY WokenAskers
  <2> QED BY <1>1, <2>1
<1>6. RacerTypes'
  <2>1. shared' \in [heap : BOOLEAN, done : BOOLEAN, running : Nat, value : Racers \cup {Nobody}]
    BY <1>1, <1>2, <1>3, <1>4 DEF RacerTypes
  <2>2. task' \in [Racers -> [pc : TaskPcs, won : BOOLEAN]] /\ cancelled' \in BOOLEAN
    BY <1>2 DEF RacerTypes
  <2> QED BY <1>5, <2>1, <2>2 DEF RacerTypes
<1>7. Reasons'
  <2>1. \A a \in Askers : asker'[a].pc \in Asleep => asker'[a].pc = asker[a].pc /\ shared.running # 1
    <3>1. \A a \in Askers : Woken(as)[a].pc \notin Asleep
      BY WokenAskers
    <3> QED BY <1>1, <3>1
  <2>2. Reasons
    BY ReasonParts DEF RacerInv
  <2>3. ASSUME NEW a \in Askers, asker'[a].pc \in Asleep
        PROVE  shared'.running # 0 /\ (asker'[a].pc = "sleeps in race" => ~Has')
    <3>1. shared.running # 0 /\ shared.running # 1 /\ asker'[a].pc = asker[a].pc
      BY <2>1, <2>2, <2>3 DEF Reasons
    <3>2. shared'.running # 0
      BY <1>3, <3>1
    <3> QED BY <1>3, <2>2, <3>1, <3>2 DEF Reasons, Has
  <2> QED BY <2>3 DEF Reasons, Asleep
<1>8. \A u \in Racers : task'[u].won = task[u].won /\ (task'[u].pc \in Inside => task[u].pc \in Inside)
  BY <1>2 DEF RacerTypes, Inside, TaskPcs
<1>9. DoneEnds' /\ ToldSome' /\ OneWinner'
  BY <1>3, <1>5, <1>8 DEF RacerInv, DoneEnds, ToldSome, OneWinner
<1>10. RaceHonest' /\ RacerAlive'
  BY <1>3, <1>5, <1>8 DEF RacerInv, RaceHonest, RacerAlive, Has
<1> QED BY <1>4, <1>6, <1>7, <1>9, <1>10, ReasonParts DEF RacerInv

LEMMA StartedStep ==
    ASSUME IsFiniteSet(Racers), RacerInv, NEW a \in Askers, NEW t \in Racers, Started(a, t)
    PROVE  RacerInv'
<1> USE DEF RacerInv, RacerTypes
<1>1. CASE task' = [task EXCEPT ![t].pc = "idle"] /\ CountOff([asker EXCEPT ![a].pc = "idle"])
  <2> DEFINE as == [asker EXCEPT ![a].pc = "idle"]
  <2>1. as \in [Askers -> AskerRecs]
    BY DEF AskerPcs, AskerRecs
  <2>2. \A b \in Askers : as[b].told = asker[b].told /\ (as[b].pc \in Asleep => as[b].pc = asker[b].pc)
    BY DEF Asleep
  <2>3. task[t].pc \in Inside /\ cancelled' = cancelled /\ "idle" \in TaskPcs \ Inside
    BY DEF Started, Inside, TaskPcs
  <2>4. CountOff(as)
    BY <1>1
  <2> HIDE DEF as
  <2> QED BY <1>1, <2>1, <2>2, <2>3, <2>4, CountOffStep
<1>2. CASE task' = [task EXCEPT ![t].pc = "runs"] /\ Goes(a, "idle") /\ UNCHANGED shared
  <2>1. task[t].pc = "starts" /\ cancelled' = cancelled
    BY DEF Started
  <2>2. RacerTypes'
    BY <1>2, <2>1 DEF Goes, TaskPcs, AskerPcs, AskerRecs
  <2>3. Counted' = Counted
    BY <1>2, <2>1 DEF Counted, Inside
  <2>4. \A b \in Askers : asker'[b].told = asker[b].told /\ (asker'[b].pc \in Asleep => asker'[b].pc = asker[b].pc)
    BY <1>2 DEF Goes, Asleep
  <2>5. AskersHaveReason'
    <3>1. Reasons'
      BY <1>2, <2>4, ReasonParts DEF Reasons, Has, Asleep
    <3> QED BY <1>2, <2>3, <3>1, ReasonParts
  <2>6. DoneEnds' /\ ToldSome' /\ OneWinner' /\ RaceHonest' /\ RacerAlive'
    <3>1. \A u \in Racers : task'[u].won = task[u].won /\ (task'[u].pc \in Inside => task[u].pc \in Inside)
      BY <1>2, <2>1 DEF Inside
    <3>2. DoneEnds' /\ ToldSome' /\ OneWinner'
      BY <1>2, <2>1, <2>4, <3>1 DEF DoneEnds, ToldSome, OneWinner
    <3>3. RaceHonest' /\ RacerAlive'
      BY <1>2, <2>4, <3>1 DEF RaceHonest, RacerAlive, Has
    <3> QED BY <3>2, <3>3
  <2> QED BY <2>2, <2>5, <2>6
<1> QED BY <1>1, <1>2 DEF Started

LEMMA SuccessStep ==
    ASSUME IsFiniteSet(Racers), RacerInv, NEW t \in Racers, Success(t)
    PROVE  RacerInv'
<1> USE DEF RacerInv, RacerTypes
<1>1. /\ shared' = [shared EXCEPT !.value = t, !.done = TRUE] /\ task' = [task EXCEPT ![t].won = TRUE]
      /\ task[t].pc = "runs" /\ shared.value = Nobody /\ ~shared.done /\ cancelled' = cancelled
      /\ asker' = Woken(asker)
  BY DEF Success, Has
<1>2. RacerTypes' /\ \A a \in Askers : asker'[a].told = asker[a].told /\ asker'[a].pc \notin Asleep
  <2>1. /\ asker' \in [Askers -> AskerRecs]
        /\ \A a \in Askers : asker'[a].told = asker[a].told /\ asker'[a].pc \notin Asleep
    BY <1>1, WokenAskers
  <2>2. /\ shared' \in [heap : BOOLEAN, done : BOOLEAN, running : Nat, value : Racers \cup {Nobody}]
        /\ task' \in [Racers -> [pc : TaskPcs, won : BOOLEAN]]
    BY <1>1
  <2> QED BY <1>1, <2>1, <2>2
<1>3. Counted' = Counted
  BY <1>1 DEF Counted
<1>4. AskersHaveReason'
  <2>1. Reasons'
    BY <1>2 DEF Reasons, Asleep
  <2>2. shared'.running = shared.running
    BY <1>1
  <2>3. shared.running = Cardinality(Counted)
    BY ReasonParts
  <2> QED BY <1>3, <2>1, <2>2, <2>3, ReasonParts
<1>5. DoneEnds' /\ ToldSome'
  BY <1>1, <1>2 DEF DoneEnds, ToldSome
<1>6. OneWinner'
  BY <1>1 DEF OneWinner, DoneEnds
<1>7. RaceHonest'
  <2>1. \A a \in Askers : asker[a].told = "nothing"
    BY <1>1 DEF RaceHonest, ToldSome, Inside
  <2> QED BY <1>2, <2>1 DEF RaceHonest
<1>8. RacerAlive'
  BY <1>1 DEF RacerAlive, Inside
<1> QED BY <1>2, <1>4, <1>5, <1>6, <1>7, <1>8

LEMMA TaskStep ==
    ASSUME IsFiniteSet(Racers), RacerInv, NEW t \in Racers, Finish(t) \/ FreeContext(t)
    PROVE  RacerInv'
<1> USE DEF RacerInv, RacerTypes
<1>1. CASE Finish(t)
  <2>1. task[t].pc \in Inside /\ "frees" \in TaskPcs \ Inside
    BY <1>1 DEF Finish, Inside, TaskPcs
  <2>2. task' = [task EXCEPT ![t].pc = "frees"] /\ CountOff(asker) /\ cancelled' = cancelled
    BY <1>1 DEF Finish
  <2> QED BY <2>1, <2>2, CountOffStep
<1>2. CASE FreeContext(t)
  <2>1. /\ task' = [task EXCEPT ![t].pc = "gone"] /\ task[t].pc = "frees"
        /\ shared' = shared /\ asker' = asker /\ cancelled' = cancelled
    BY <1>2 DEF FreeContext
  <2>2. RacerTypes'
    BY <2>1 DEF TaskPcs
  <2>3. Counted' = Counted
    BY <2>1 DEF Counted, Inside
  <2>4. AskersHaveReason'
    BY <2>1, <2>3 DEF AskersHaveReason, Counted, Has
  <2>5. DoneEnds' /\ ToldSome' /\ OneWinner' /\ RaceHonest' /\ RacerAlive'
    BY <2>1 DEF DoneEnds, ToldSome, OneWinner, RaceHonest, RacerAlive, Has, Inside
  <2> QED BY <2>2, <2>4, <2>5
<1> QED BY <1>1, <1>2

LEMMA CancelStep ==
    ASSUME IsFiniteSet(Racers), RacerInv, NEW a \in Askers, Cancel(a)
    PROVE  RacerInv'
<1> USE DEF RacerInv, RacerTypes
<1>1. /\ shared' = [shared EXCEPT !.done = TRUE] /\ ~shared.done /\ task' = task /\ cancelled' = TRUE
      /\ asker' = Woken(asker)
  BY DEF Cancel
<1>2. RacerTypes' /\ \A b \in Askers : asker'[b].told = asker[b].told /\ asker'[b].pc \notin Asleep
  <2>1. /\ asker' \in [Askers -> AskerRecs]
        /\ \A b \in Askers : asker'[b].told = asker[b].told /\ asker'[b].pc \notin Asleep
    BY <1>1, WokenAskers
  <2>2. shared' \in [heap : BOOLEAN, done : BOOLEAN, running : Nat, value : Racers \cup {Nobody}]
    BY <1>1
  <2> QED BY <1>1, <2>1, <2>2
<1>3. AskersHaveReason'
  <2>1. Reasons'
    BY <1>2 DEF Reasons, Asleep
  <2>2. shared'.running = shared.running /\ Counted' = Counted
    BY <1>1 DEF Counted
  <2>3. shared.running = Cardinality(Counted)
    BY ReasonParts
  <2> QED BY <2>1, <2>2, <2>3, ReasonParts
<1>4. OneWinner' /\ DoneEnds'
  BY <1>1 DEF OneWinner, DoneEnds
<1>5. ToldSome' /\ RaceHonest' /\ RacerAlive'
  BY <1>1, <1>2 DEF ToldSome, RaceHonest, RacerAlive, Has
<1> QED BY <1>2, <1>3, <1>4, <1>5

\* What the callers do changes where they are and what they were told; deinit
\* frees the shared state when nobody is inside.
LEMMA AskerStep ==
    ASSUME IsFiniteSet(Racers), RacerInv, NEW a \in Askers,
           Ask(a) \/ Race(a) \/ Poll(a) \/ Wait(a) \/ Deinit(a)
    PROVE  RacerInv'
<1> USE DEF RacerInv, RacerTypes
<1>1. task' = task /\ cancelled' = cancelled
  BY DEF Ask, Race, Poll, Wait, Deinit
<1>2. /\ shared' = shared \/ (shared.running = 0 /\ shared' = [shared EXCEPT !.heap = FALSE])
      /\ shared'.value = shared.value /\ shared'.running = shared.running /\ shared'.done = shared.done
  BY DEF Ask, Race, Poll, Wait, Deinit
<1>3. \A b \in Askers \ {a} : asker'[b] = asker[b]
  BY DEF Ask, Race, Poll, Wait, Deinit, Goes
<1>4. /\ asker' \in [Askers -> AskerRecs]
      /\ asker'[a].pc \in Asleep => shared.running # 0
      /\ asker'[a].pc = "sleeps in race" => ~Has
      /\ \/ asker'[a].told = asker[a].told
         \/ Has /\ asker'[a].told = shared.value
         \/ ~Has /\ shared.running = 0 /\ asker'[a].told = "exhausted"
  <2>1. ASSUME NEW pc \in AskerPcs, Goes(a, pc)
        PROVE  asker' \in [Askers -> AskerRecs] /\ asker'[a].pc = pc /\ asker'[a].told = asker[a].told
    BY <2>1 DEF Goes, AskerRecs
  <2>2. CASE Ask(a) \/ Poll(a)
    <3>1. \E pc \in {"races", "waits", "deinits", "idle"} : Goes(a, pc)
      BY <2>2 DEF Ask, Poll
    <3> QED BY <2>1, <3>1 DEF AskerPcs, Asleep
  <2>3. CASE Race(a)
    <3>1. CASE ~Has /\ shared.running # 0
      <4>1. asker' = [asker EXCEPT ![a] = [@ EXCEPT !.pc = "sleeps in race"]]
        BY <2>3, <3>1 DEF Race
      <4> QED BY <3>1, <4>1 DEF AskerRecs, AskerPcs, Asleep
    <3>2. CASE Has \/ shared.running = 0
      <4>1. asker' = [asker EXCEPT ![a] = [pc |-> "idle", told |-> IF Has THEN shared.value ELSE "exhausted"]]
        BY <2>3, <3>2 DEF Race
      <4>2. asker'[a].pc = "idle" /\ asker'[a].told = (IF Has THEN shared.value ELSE "exhausted")
        BY <4>1
      <4>3. asker' \in [Askers -> AskerRecs]
        BY <4>1 DEF AskerRecs, AskerPcs
      <4> QED BY <3>2, <4>2, <4>3 DEF Asleep
    <3> QED BY <3>1, <3>2
  <2>4. CASE Wait(a) \/ Deinit(a)
    <3>1. \/ Goes(a, "idle")
          \/ shared.running # 0 /\ (Goes(a, "sleeps in wait") \/ Goes(a, "sleeps in deinit"))
      BY <2>4 DEF Wait, Deinit
    <3>2. {"idle", "sleeps in wait", "sleeps in deinit"} \subseteq AskerPcs
      BY DEF AskerPcs, Asleep
    <3>3. PICK pc \in {"idle", "sleeps in wait", "sleeps in deinit"} :
            Goes(a, pc) /\ (pc = "idle" \/ shared.running # 0)
      BY <3>1
    <3>4. asker' \in [Askers -> AskerRecs] /\ asker'[a].pc = pc /\ asker'[a].told = asker[a].told
      BY <2>1, <3>2, <3>3
    <3> QED BY <3>3, <3>4 DEF Asleep
  <2> QED BY <2>2, <2>3, <2>4
<1>5. RacerTypes'
  BY <1>1, <1>2, <1>4
<1>6. AskersHaveReason'
  <2>1. Reasons
    BY ReasonParts
  <2>2. Reasons'
    BY <1>2, <1>3, <1>4, <2>1 DEF Reasons, Has
  <2>3. shared.running = Cardinality(Counted) /\ Counted' = Counted
    BY <1>1, ReasonParts DEF Counted
  <2> QED BY <1>2, <2>2, <2>3, ReasonParts
<1>7. ToldSome'
  BY <1>3, <1>4 DEF ToldSome, Has, Nobody
<1>8. RaceHonest'
  <2>1. shared.running = 0 => \A t \in Racers : task[t].pc \notin Inside
    BY NobodyInside
  <2> QED BY <1>1, <1>2, <1>3, <1>4, <2>1 DEF RaceHonest, Has
<1>9. DoneEnds' /\ OneWinner'
  BY <1>1, <1>2 DEF DoneEnds, OneWinner
<1>10. RacerAlive'
  BY <1>1, <1>2, NobodyInside DEF RacerAlive
<1> QED BY <1>5, <1>6, <1>7, <1>8, <1>9, <1>10

LEMMA RacerStep == ASSUME IsFiniteSet(Racers), RacerInv, [Next]_vars PROVE RacerInv'
<1>1. CASE UNCHANGED vars
  BY <1>1 DEF vars, RacerInv, RacerTypes, DoneEnds, ToldSome, OneWinner, RaceHonest, AskersHaveReason, RacerAlive, Has
<1> QED BY <1>1, SpawnStep, StartedStep, SuccessStep, TaskStep, CancelStep, AskerStep DEF Next

LEMMA RacerInvariant == ASSUME IsFiniteSet(Racers) PROVE Spec => []RacerInv
<1>1. Init => RacerInv
  BY RacerInit
<1>2. RacerInv /\ [Next]_vars => RacerInv'
  BY RacerStep
<1> QED BY <1>1, <1>2, PTL DEF Spec

\* At most one success is taken, and none after a cancel that came first (success,
\* cancel).
THEOREM RacerOneWinner == ASSUME IsFiniteSet(Racers) PROVE Spec => []OneWinner
BY RacerInvariant, PTL DEF RacerInv

\* What race answers is and stays true of the tasks spawned before (race).
THEOREM RacerIsHonest == ASSUME IsFiniteSet(Racers) PROVE Spec => []RaceHonest
BY RacerInvariant, PTL DEF RacerInv

\* running is the number of tasks that are inside, and nobody sleeps in race, wait
\* or deinit without one of them, or beside a winner (finishTask, spawn).
THEOREM RacerAskersHaveReason == ASSUME IsFiniteSet(Racers) PROVE Spec => []AskersHaveReason
BY RacerInvariant, PTL DEF RacerInv

\* deinit frees what the tasks share when none of them is left inside.
THEOREM RacerStaysAlive == ASSUME IsFiniteSet(Racers) PROVE Spec => []RacerAlive
BY RacerInvariant, PTL DEF RacerInv
=============================================================================
