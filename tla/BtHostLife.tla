------------------------------- MODULE BtHostLife -------------------------------
(* How central and peripheral share the Bluetooth host, embed/lib/bt/host/Hci.zig: *)
(* retain starts it for the first user, release stops it after the last, a task    *)
(* receives what the controller sends. Commands are one event with an outcome.     *)
EXTENDS Naturals, FiniteSets, FiniteSetTheorems, TLAPS

CONSTANTS Users,      \* of the host: the roles
          RecvTasks,  \* the receive tasks there can be at once
          None,
          MaxFaults   \* bound: reads that fail

VARIABLES host,    \* active_roles, running, initialized, async_error, recv_task
          recv,    \* the receive tasks that run, and those that have ended and are not joined yet
          user,    \* where each user is
          hand,    \* the task it has spawned and not stored yet, or is joining
          faults,
          raced,   \* users that retained while another was inside start or stop
          slipped  \* a stop has cleared a handle that was not the one it joined
vars == <<host, recv, user, hand, faults, raced, slipped>>

Starting == {"starts", "spawns", "stores", "commands", "fails", "seeks", "undoes", "wipes", "unretains"}
Stopping == {"stops", "looks", "joins", "clears"}
Inside   == Starting \cup Stopping
UserPcs  == {"idle", "holds"} \cup Inside

LifeTypeOK ==
    /\ host.roles \in 0..Cardinality(Users) /\ host.task \in RecvTasks \cup {None}
    /\ user \in [Users -> UserPcs] /\ hand \in [Users -> RecvTasks \cup {None}]
    /\ recv.live \cup recv.ended \subseteq RecvTasks /\ faults \in 0..MaxFaults

Init ==
    /\ host = [roles |-> 0, running |-> FALSE, ready |-> FALSE, async |-> FALSE, task |-> None]
    /\ recv = [live |-> {}, ended |-> {}] /\ hand = [u \in Users |-> None]
    /\ user = [u \in Users |-> "idle"] /\ faults = 0 /\ raced = {} /\ slipped = FALSE

Unjoined == recv.live \cup recv.ended

Goes(u, pc) == user' = [user EXCEPT ![u] = pc]
\* who comes back to idle starts anew
Moves(u, pc) == Goes(u, pc) /\ raced' = IF pc = "idle" THEN raced \ {u} ELSE raced

----------------------------------------------------------------------------
(* retain.                                                                  *)
\* who retains beside a start or a stop races it; a host whose user holds a
\* broken one was raced for too
Races(u) == raced' = IF \/ \E v \in Users : user[v] \in Inside
                        \/ \E v \in raced : user[v] = "holds" THEN raced \cup {u} ELSE raced

\* mutant: the host is started only when there is no task
RetainByTask(u) ==
    /\ user[u] = "idle" /\ host' = [host EXCEPT !.roles = @ + 1] /\ Races(u)
    /\ Goes(u, IF host.task # None THEN "holds" ELSE "starts") /\ UNCHANGED <<recv, hand, faults, slipped>>

\* the second user takes the host as it is
Retain(u) ==
    /\ user[u] = "idle" /\ host' = [host EXCEPT !.roles = @ + 1] /\ Races(u)
    /\ Goes(u, IF host.roles = 0 /\ host.task = None THEN "starts" ELSE "holds")
    /\ UNCHANGED <<recv, hand, faults, slipped>>

\* start: a receive task that is there is enough
Start(u) ==
    /\ user[u] = "starts" /\ UNCHANGED <<recv, hand, faults, slipped>>
    /\ IF host.task # None THEN Moves(u, "holds") /\ UNCHANGED host
       ELSE Moves(u, "spawns") /\ host' = [host EXCEPT !.running = TRUE, !.ready = FALSE, !.async = FALSE]

\* a new task is none that somebody still knows
Spawn(u) ==
    /\ user[u] = "spawns" /\ UNCHANGED <<host, faults, slipped>>
    /\ \/ Moves(u, "unretains") /\ UNCHANGED <<recv, hand>>
       \/ \E t \in RecvTasks \ (Unjoined \cup {hand[v] : v \in Users}) :
            /\ recv' = [recv EXCEPT !.live = @ \cup {t}] /\ hand' = [hand EXCEPT ![u] = t]
            /\ Moves(u, "stores")

StoreTask(u) ==
    /\ user[u] = "stores" /\ host' = [host EXCEPT !.task = hand[u]]
    /\ hand' = [hand EXCEPT ![u] = None] /\ Moves(u, "commands") /\ UNCHANGED <<recv, faults, slipped>>

\* mutant: a command that fails is not noticed
CommandsUnheeded(u) ==
    /\ user[u] = "commands" /\ UNCHANGED <<recv, hand, faults, slipped>>
    /\ Moves(u, "holds") /\ \E ready \in BOOLEAN : host' = [host EXCEPT !.ready = ready]

\* the commands that set the controller up: answered, refused, timed out, or cut
\* off by stop or an error of the transport
Commands(u) ==
    /\ user[u] = "commands" /\ UNCHANGED <<recv, hand, faults, slipped>>
    /\ \/ Moves(u, "holds") /\ host' = [host EXCEPT !.ready = TRUE]
       \/ Moves(u, "fails") /\ UNCHANGED host

\* mutant: a start that failed keeps its role
UnretainNot(u) == user[u] = "unretains" /\ Moves(u, "idle") /\ UNCHANGED <<host, recv, hand, faults, slipped>>

Unretain(u) ==
    /\ user[u] = "unretains" /\ host' = [host EXCEPT !.roles = @ - 1]
    /\ Moves(u, "idle") /\ UNCHANGED <<recv, hand, faults, slipped>>

----------------------------------------------------------------------------
(* release, and stop, which start calls too when it fails.                  *)
Release(u) ==
    /\ user[u] = "holds" /\ host' = [host EXCEPT !.roles = @ - 1]
    /\ Moves(u, IF host.roles = 1 THEN "stops" ELSE "idle") /\ UNCHANGED <<recv, hand, faults, slipped>>

Stop(u) ==
    /\ user[u] \in {"stops", "fails"} /\ UNCHANGED <<recv, hand, faults, slipped>>
    /\ host' = [host EXCEPT !.running = FALSE, !.ready = FALSE, !.async = FALSE]
    /\ Moves(u, IF user[u] = "stops" THEN "looks" ELSE "seeks")

\* where a stop ends: in release, or in start
Back(u) == IF user[u] \in Stopping THEN "idle" ELSE "unretains"

\* recv_task is read outside the lock
Look(u) ==
    /\ user[u] \in {"looks", "seeks"} /\ hand' = [hand EXCEPT ![u] = host.task]
    /\ Moves(u, IF host.task = None THEN Back(u) ELSE IF user[u] = "looks" THEN "joins" ELSE "undoes")
    /\ UNCHANGED <<host, recv, faults, slipped>>

\* mutant: the task is left to end by itself
JoinNot(u) ==
    /\ user[u] \in {"joins", "undoes"} /\ Moves(u, IF user[u] = "joins" THEN "clears" ELSE "wipes")
    /\ UNCHANGED <<host, recv, hand, faults, slipped>>

\* to join a task that another stop has joined is undefined: here it returns, or
\* never does
Join(u) ==
    /\ user[u] \in {"joins", "undoes"} /\ hand[u] \notin recv.live
    /\ recv' = [recv EXCEPT !.ended = @ \ {hand[u]}]
    /\ Moves(u, IF user[u] = "joins" THEN "clears" ELSE "wipes") /\ UNCHANGED <<host, hand, faults, slipped>>

\* recv_task is null from now on, whichever task it holds by then
Clear(u) ==
    /\ user[u] \in {"clears", "wipes"} /\ host' = [host EXCEPT !.task = None]
    /\ slipped' = (slipped \/ host.task \notin {None, hand[u]})
    /\ hand' = [hand EXCEPT ![u] = None] /\ Moves(u, Back(u)) /\ UNCHANGED <<recv, faults>>

----------------------------------------------------------------------------
(* recvLoop: it ends when it is told to, or when a read fails.              *)
Receive(t) ==
    /\ t \in recv.live /\ recv' = [live |-> recv.live \ {t}, ended |-> recv.ended \cup {t}]
    /\ \/ ~host.running /\ UNCHANGED <<host, faults>>
       \/ /\ host.running /\ faults < MaxFaults /\ faults' = faults + 1
          /\ host' = [host EXCEPT !.running = FALSE, !.async = TRUE]
    /\ UNCHANGED <<user, hand, raced, slipped>>

Next == \/ \E t \in RecvTasks : Receive(t)
        \/ \E u \in Users : \/ Retain(u) \/ Start(u) \/ Spawn(u) \/ StoreTask(u) \/ Commands(u) \/ Unretain(u)
                            \/ Release(u) \/ Stop(u) \/ Look(u) \/ Join(u) \/ Clear(u)

Spec == Init /\ [][Next]_vars

----------------------------------------------------------------------------
Counted(u) == user[u] \in {"holds"} \cup Starting

\* active_roles counts the users, and when all have gone there is no handle and,
\* unless a stop cleared another's, nothing runs and nothing is left to be joined.
RolesCounted ==
    /\ host.roles = Cardinality({u \in Users : Counted(u)})
    /\ (\A u \in Users : user[u] = "idle") => host.task = None /\ (slipped \/ Unjoined = {})

\* There is one receive task at most, and recv_task is its handle but for the
\* moment between its start and the store: until a stop clears a handle that is not
\* the one it joined. Of two stops that read recv_task before either clears it
\* (line 229), the later one clears the handle of a task started in between (231).
OneReceiver ==
    slipped \/ /\ \A t \in Unjoined : host.task = t \/ \E u \in Users : user[u] = "stores" /\ hand[u] = t
               /\ \A t1, t2 \in Unjoined : t1 = t2

\* Who retained the host has one that runs and is set up, or that says what broke
\* it: but not who retained it while another was starting or stopping it. It then
\* gets a host that is not ready (line 102), one that stop is about to end, or one
\* whose handle a late stop clears; and of two that join, one has raced.
HoldersServed ==
    /\ \A u \in Users \ raced :
        user[u] = "holds" => host.async \/ (host.running /\ host.ready /\ host.task \in recv.live)
    /\ \A u, v \in Users \ raced : user[u] \in {"joins", "clears"} /\ user[v] \in {"joins", "clears"} => u = v

----------------------------------------------------------------------------
(* The theorems, for every finite set of users, any tasks and any number of faults. *)
Handles  == RecvTasks \cup {None}
HostType == [roles : Nat, running : BOOLEAN, ready : BOOLEAN, async : BOOLEAN, task : Handles]

LifeTypes ==
    /\ host \in HostType
    /\ recv \in [live : SUBSET RecvTasks, ended : SUBSET RecvTasks]
    /\ user \in [Users -> UserPcs] /\ hand \in [Users -> Handles]
    /\ raced \subseteq Users /\ slipped \in BOOLEAN

\* Only one user at a time starts the host, and until the handle of the receive
\* task is stored, or once its start has been undone, there is no handle.
OneStarter ==
    /\ \A u, v \in Users : user[u] \in Starting /\ user[v] \in Starting => u = v
    /\ \A u \in Users : user[u] \in {"starts", "spawns", "stores", "unretains"} => host.task = None

\* A task that a stop is about to clear has been joined.
JoinedFirst == \A u \in Users : user[u] \in {"clears", "wipes"} => hand[u] \notin Unjoined

\* Somebody is there to clear the handle.
HandleHasUser == host.task # None => \E u \in Users : user[u] # "idle"

\* Who did not retain in the middle of a start or a stop has the others either
\* holding the host beside it or, once it stops, raced.
UnracedAlone ==
    /\ \A u \in raced : user[u] # "idle"
    /\ \A u \in Users \ raced : Counted(u) => \A v \in Users \ {u} : user[v] \in {"idle", "holds"}
    /\ \A u \in Users \ raced : user[u] \in Stopping => \A v \in Users \ {u} : user[v] = "idle" \/ v \in raced

\* While it starts the host, the receive task is told to run, and runs, or has failed.
UnracedStarts ==
    \A u \in Users \ raced :
        /\ user[u] = "spawns" => host.async \/ host.running
        /\ user[u] = "stores" => host.async \/ (host.running /\ hand[u] \in recv.live)
        /\ user[u] = "commands" => host.async \/ (host.running /\ host.task \in recv.live)

LifeInv == /\ LifeTypes /\ OneStarter /\ JoinedFirst /\ HandleHasUser /\ UnracedAlone /\ UnracedStarts
           /\ RolesCounted /\ OneReceiver /\ HoldersServed

Holders == {u \in Users : Counted(u)}
Nobody  == \A u \in Users : user[u] = "idle"

\* RolesCounted, in two parts.
LEMMA RolesParts ==
    /\ RolesCounted <=> /\ host.roles = Cardinality(Holders)
                        /\ Nobody => host.task = None /\ (slipped \/ Unjoined = {})
    /\ RolesCounted' <=> /\ host'.roles = Cardinality(Holders')
                         /\ Nobody' => host'.task = None /\ (slipped' \/ Unjoined' = {})
BY Zenon DEF RolesCounted, Holders, Nobody

LEMMA HoldersMove ==
    ASSUME IsFiniteSet(Users), NEW S \in SUBSET Users, NEW u \in Users
    PROVE  /\ Cardinality(S) \in Nat
           /\ Cardinality(S) = 0 <=> S = {}
           /\ u \notin S => Cardinality(S \cup {u}) = Cardinality(S) + 1
           /\ u \in S => Cardinality(S \ {u}) = Cardinality(S) - 1
<1>1. IsFiniteSet(S)
  BY FS_Subset
<1> QED BY <1>1, FS_CardinalityType, FS_EmptySet, FS_AddElement, FS_RemoveElement

\* What active_roles tells a user about the others.
Told(u) ==
    /\ host.roles \in Nat
    /\ host.roles = 0 => \A v \in Users : ~Counted(v)
    /\ host.roles # 0 => \E v \in Users : Counted(v)
    /\ Counted(u) => host.roles # 0
    /\ Counted(u) /\ host.roles = 1 => \A v \in Users \ {u} : ~Counted(v)
    /\ Counted(u) /\ host.roles # 1 => \E v \in Users \ {u} : Counted(v)

LEMMA RolesTell ==
    ASSUME IsFiniteSet(Users), LifeInv, NEW u \in Users
    PROVE  Told(u)
<1>1. host.roles = Cardinality(Holders) /\ host.roles \in Nat
  BY RolesParts DEF LifeInv, LifeTypes, HostType
<1>2. Holders \in SUBSET Users /\ Holders \ {u} \in SUBSET Users
  BY DEF Holders
<1>3. /\ Cardinality(Holders) \in Nat /\ (host.roles = 0 <=> Holders = {})
      /\ u \in Holders => Cardinality(Holders \ {u}) = host.roles - 1
      /\ Cardinality(Holders \ {u}) = 0 <=> Holders \ {u} = {}
  BY <1>1, <1>2, HoldersMove
<1>4. u \in Holders => (host.roles = 1 <=> Holders \ {u} = {})
  BY <1>1, <1>3
<1> QED BY <1>1, <1>3, <1>4 DEF Holders, Told

\* A step of one user moves nobody else, and moves it in or out of the count.
LEMMA MoveOf ==
    ASSUME LifeTypes, NEW u \in Users, NEW pc \in UserPcs, Goes(u, pc)
    PROVE  /\ user' \in [Users -> UserPcs]
           /\ user'[u] = pc /\ \A v \in Users \ {u} : user'[v] = user[v]
           /\ Counted(u)' <=> pc \in {"holds"} \cup Starting
           /\ \A v \in Users \ {u} : Counted(v)' <=> Counted(v)
           /\ pc \in {"holds"} \cup Starting => Holders' = Holders \cup {u}
           /\ pc \notin {"holds"} \cup Starting => Holders' = Holders \ {u}
<1>1. user' \in [Users -> UserPcs] /\ user'[u] = pc /\ \A v \in Users \ {u} : user'[v] = user[v]
  BY DEF LifeTypes, Goes
<1>2. /\ Counted(u)' <=> pc \in {"holds"} \cup Starting
      /\ \A v \in Users \ {u} : Counted(v)' <=> Counted(v)
  BY <1>1 DEF Counted
<1>3. Holders' = {v \in Users : Counted(v)'} /\ Holders = {v \in Users : Counted(v)}
  BY DEF Holders
<1> QED BY <1>1, <1>2, <1>3

\* What every step of a user keeps to, as far as it concerns the host,
In(pc) == IF pc \in {"holds"} \cup Starting THEN 1 ELSE 0
HostFits(u, pc) ==
    /\ host'.roles = host.roles + In(pc) - In(user[u])
    /\ pc \in Starting => user[u] \in Starting \/ host.roles = 0
    /\ pc \in {"starts", "spawns", "stores", "unretains"} => host'.task = None
    /\ host'.task \in {None, host.task} \/ user[u] = "stores"
    /\ user[u] \in {"idle", "holds"} =>
         /\ host'.running = host.running /\ host'.ready = host.ready /\ host'.async = host.async
         /\ host'.task = host.task /\ recv'.live = recv.live
    /\ \/ pc \in {"idle", "holds"} \/ user[u] \notin {"idle", "holds"}
       \/ \A v \in Users \ {u} : ~Counted(v)

\* who has raced,
Quiet == /\ \A v \in Users : user[v] \in {"idle", "holds"}
         /\ \A v \in raced : user[v] # "holds"
RacedFits(u, pc) ==
    /\ raced' \subseteq raced \cup {u} /\ raced \subseteq raced' \cup {u} /\ (pc = "idle" => u \notin raced')
    /\ u \notin raced' /\ pc # "idle" =>
         /\ u \notin raced /\ (user[u] = "idle" => Quiet)
         /\ pc \in Stopping => \/ user[u] \in Stopping
                               \/ Counted(u) /\ \A v \in Users \ {u} : ~Counted(v)
         /\ pc \in {"holds"} \cup Starting => user[u] = "idle" \/ Counted(u)
         /\ pc = "spawns" => host'.async \/ host'.running
         /\ pc = "stores" => host'.async \/ (host'.running /\ hand'[u] \in recv'.live)
         /\ pc = "commands" => host'.async \/ (host'.running /\ host'.task \in recv'.live)
         /\ pc = "holds" => host'.async \/ (host'.running /\ host'.ready /\ host'.task \in recv'.live)

\* and the receive tasks and their handles.
TaskFits(u, pc) ==
    /\ \A v \in Users \ {u} : hand'[v] = hand[v]
    /\ pc \in {"clears", "wipes"} => hand'[u] \notin Unjoined'
    /\ \A t \in Unjoined' \ Unjoined : \A v \in Users \ {u} : hand[v] # t
    /\ slipped' \/ \A t \in Unjoined' : \/ host'.task = t \/ (pc = "stores" /\ hand'[u] = t)
                                        \/ \E v \in Users \ {u} : user[v] = "stores" /\ hand[v] = t
    /\ host'.task # None /\ pc = "idle" => \E v \in Users \ {u} : user[v] # "idle"

LEMMA OneStarterStays ==
    ASSUME IsFiniteSet(Users), LifeInv, NEW u \in Users, NEW pc \in UserPcs, Goes(u, pc), HostFits(u, pc)
    PROVE  OneStarter'
<1>1. user'[u] = pc /\ \A v \in Users \ {u} : user'[v] = user[v]
  BY MoveOf DEF LifeInv
<1>2. OneStarter /\ (host.roles = 0 => \A v \in Users : user[v] \notin Starting)
  BY RolesTell DEF LifeInv, Counted, Told
<1>3. ASSUME NEW v \in Users \ {u}, user'[v] \in Starting
      PROVE  pc \notin Starting
  BY <1>1, <1>2, <1>3 DEF HostFits, OneStarter
<1>4. ASSUME NEW v \in Users, user'[v] \in {"starts", "spawns", "stores", "unretains"}
      PROVE  host'.task = None
  <2>1. CASE v = u
    BY <1>1, <1>4, <2>1 DEF HostFits
  <2>2. CASE v # u
    BY <1>1, <1>2, <1>4, <2>2 DEF HostFits, OneStarter, Starting
  <2> QED BY <2>1, <2>2
<1> QED BY <1>1, <1>2, <1>3, <1>4 DEF OneStarter

LEMMA UnracedStays ==
    ASSUME LifeInv, NEW u \in Users, NEW pc \in UserPcs, Goes(u, pc), HostFits(u, pc), RacedFits(u, pc),
           \A v \in Users \ {u} : hand'[v] = hand[v]
    PROVE  UnracedAlone' /\ UnracedStarts' /\ HoldersServed'
<1>1. /\ user'[u] = pc /\ \A v \in Users \ {u} : user'[v] = user[v] /\ (Counted(v)' <=> Counted(v))
      /\ Counted(u)' <=> pc \in {"holds"} \cup Starting
  BY MoveOf DEF LifeInv
<1>2. UnracedAlone /\ UnracedStarts /\ HoldersServed
  BY DEF LifeInv
<1>3. \A v \in Users \ {u} : v \in raced' <=> v \in raced
  BY DEF RacedFits
<1>4. \A v \in raced' : user'[v] # "idle"
  BY <1>1, <1>2, <1>3 DEF RacedFits, UnracedAlone, LifeInv, LifeTypes
<1>5. ASSUME NEW v \in Users \ raced', Counted(v)', NEW w \in Users \ {v}
      PROVE  user'[w] \in {"idle", "holds"}
  <2>1. CASE v = u
    <3>1. pc # "idle" /\ u \notin raced /\ (user[u] = "idle" \/ Counted(u)) /\ (user[u] = "idle" => Quiet)
      BY <1>1, <1>5, <2>1 DEF RacedFits, Starting
    <3>2. user[w] \in {"idle", "holds"}
      BY <1>2, <1>5, <2>1, <3>1 DEF Quiet, UnracedAlone
    <3> QED BY <1>1, <1>5, <2>1, <3>2
  <2>2. CASE v # u /\ w = u
    BY <1>1, <1>2, <1>3, <1>5, <2>2 DEF HostFits, UnracedAlone
  <2>3. CASE v # u /\ w # u
    BY <1>1, <1>2, <1>3, <1>5, <2>3 DEF UnracedAlone
  <2> QED BY <2>1, <2>2, <2>3
<1>6. ASSUME NEW v \in Users \ raced', user'[v] \in Stopping, NEW w \in Users \ {v}
      PROVE  user'[w] = "idle" \/ w \in raced'
  <2>1. CASE v = u /\ user[u] \in Stopping
    <3>1. u \notin raced
      BY <1>1, <1>6, <2>1 DEF RacedFits, Stopping
    <3> QED BY <1>1, <1>2, <1>3, <1>6, <2>1, <3>1 DEF UnracedAlone
  <2>2. CASE v = u /\ user[u] \notin Stopping
    <3>1. Counted(u) /\ ~Counted(w) /\ u \notin raced
      BY <1>1, <1>6, <2>2 DEF RacedFits, Stopping
    <3>2. user[w] = "idle"
      BY <1>2, <1>6, <2>2, <3>1 DEF UnracedAlone, Counted
    <3> QED BY <1>1, <1>6, <2>2, <3>2
  <2>3. CASE v # u /\ w = u
    <3>1. user[v] \in Stopping /\ v \notin raced /\ ~Quiet
      BY <1>1, <1>3, <1>6, <2>3 DEF Quiet, Stopping
    <3>2. user[u] = "idle" \/ u \in raced
      BY <1>2, <1>6, <2>3, <3>1 DEF UnracedAlone
    <3> QED BY <1>1, <2>3, <3>1, <3>2 DEF RacedFits
  <2>4. CASE v # u /\ w # u
    BY <1>1, <1>2, <1>3, <1>6, <2>4 DEF UnracedAlone
  <2> QED BY <2>1, <2>2, <2>3, <2>4
<1>7. UnracedAlone'
  BY <1>4, <1>5, <1>6 DEF UnracedAlone
<1>8. ASSUME NEW v \in Users \ raced'
      PROVE  /\ user'[v] = "spawns" => host'.async \/ host'.running
             /\ user'[v] = "stores" => host'.async \/ (host'.running /\ hand'[v] \in recv'.live)
             /\ user'[v] = "commands" => host'.async \/ (host'.running /\ host'.task \in recv'.live)
             /\ user'[v] = "holds" => host'.async \/ (host'.running /\ host'.ready /\ host'.task \in recv'.live)
  <2>1. CASE v = u
    BY <1>1, <1>8, <2>1 DEF RacedFits
  <2>2. CASE v # u
    <3>1. user'[v] = user[v] /\ v \notin raced /\ hand'[v] = hand[v]
      BY <1>1, <1>3, <1>8, <2>2
    <3>2. Counted(v) => user[u] \in {"idle", "holds"}
      BY <1>2, <1>8, <2>2, <3>1 DEF UnracedAlone
    <3>3. user[v] \in {"spawns", "stores", "commands", "holds"} => Counted(v)
      BY DEF Counted, Starting
    <3> QED BY <1>2, <1>8, <3>1, <3>2, <3>3 DEF HostFits, UnracedStarts, HoldersServed
  <2> QED BY <2>1, <2>2
<1>9. ASSUME NEW v \in Users \ raced', NEW w \in Users \ raced',
             user'[v] \in {"joins", "clears"}, user'[w] \in {"joins", "clears"}
      PROVE  v = w
  BY <1>6, <1>9 DEF Stopping
<1> QED BY <1>7, <1>8, <1>9 DEF UnracedStarts, HoldersServed

LEMMA TaskStays ==
    ASSUME None \notin RecvTasks, LifeInv, NEW u \in Users, NEW pc \in UserPcs, Goes(u, pc), TaskFits(u, pc),
           LifeTypes', OneStarter'
    PROVE  /\ JoinedFirst' /\ HandleHasUser' /\ OneReceiver'
           /\ Nobody' => host'.task = None /\ (slipped' \/ Unjoined' = {})
<1>1. user'[u] = pc /\ \A v \in Users \ {u} : user'[v] = user[v] /\ hand'[v] = hand[v]
  BY MoveOf DEF LifeInv, TaskFits
<1>2. Unjoined' \subseteq RecvTasks
  BY DEF Unjoined, LifeTypes
<1>3. JoinedFirst'
  <2>1. SUFFICES ASSUME NEW v \in Users, user'[v] \in {"clears", "wipes"}
                 PROVE  hand'[v] \notin Unjoined'
    BY DEF JoinedFirst
  <2>2. CASE v = u
    BY <1>1, <2>1, <2>2 DEF TaskFits
  <2>3. CASE v # u
    <3>1. hand[v] \notin Unjoined
      BY <1>1, <2>1, <2>3 DEF LifeInv, JoinedFirst
    <3> QED BY <1>1, <2>1, <2>3, <3>1 DEF TaskFits
  <2> QED BY <2>2, <2>3
<1>4. HandleHasUser'
  <2>1. SUFFICES ASSUME host'.task # None
                 PROVE  \E v \in Users : user'[v] # "idle"
    BY DEF HandleHasUser
  <2> QED BY <1>1, <2>1 DEF TaskFits
<1>5. slipped' \/ \A t \in Unjoined' : host'.task = t \/ \E v \in Users : user'[v] = "stores" /\ hand'[v] = t
  BY <1>1 DEF TaskFits
<1>6. ASSUME ~slipped', NEW t1 \in Unjoined', NEW t2 \in Unjoined'
      PROVE  t1 = t2
  <2>1. CASE host'.task \in {t1, t2}
    <3>1. \A v \in Users : user'[v] # "stores"
      BY <1>2, <1>6, <2>1 DEF OneStarter
    <3> QED BY <1>5, <1>6, <3>1
  <2>2. CASE host'.task \notin {t1, t2}
    <3>1. PICK v \in Users, w \in Users : /\ user'[v] = "stores" /\ hand'[v] = t1
                                          /\ user'[w] = "stores" /\ hand'[w] = t2
      BY <1>5, <1>6, <2>2
    <3> QED BY <3>1 DEF OneStarter, Starting
  <2> QED BY <2>1, <2>2
<1>7. OneReceiver'
  BY <1>5, <1>6 DEF OneReceiver
<1>8. ASSUME Nobody'
      PROVE  host'.task = None /\ (slipped' \/ Unjoined' = {})
  <2>1. \A v \in Users : user'[v] = "idle"
    BY <1>8 DEF Nobody
  <2>2. host'.task = None
    BY <1>4, <2>1 DEF HandleHasUser
  <2> QED BY <1>2, <1>5, <2>1, <2>2
<1> QED BY <1>3, <1>4, <1>7, <1>8

\* A step that fits keeps the invariant.
LEMMA FittingStep ==
    ASSUME IsFiniteSet(Users), None \notin RecvTasks, LifeInv, NEW u \in Users, NEW pc \in UserPcs, Goes(u, pc),
           LifeTypes', HostFits(u, pc), RacedFits(u, pc), TaskFits(u, pc)
    PROVE  LifeInv'
<1>1. host'.roles = Cardinality(Holders')
  <2>1. /\ host.roles = Cardinality(Holders) /\ host.roles \in Nat
        /\ Holders \in SUBSET Users /\ (u \in Holders <=> user[u] \in {"holds"} \cup Starting)
    BY RolesParts DEF LifeInv, LifeTypes, HostType, Holders, Counted
  <2>2. /\ pc \in {"holds"} \cup Starting => Holders' = Holders \cup {u}
        /\ pc \notin {"holds"} \cup Starting => Holders' = Holders \ {u}
    BY MoveOf DEF LifeInv
  <2>3. /\ u \notin Holders => Cardinality(Holders \cup {u}) = Cardinality(Holders) + 1 /\ Holders \ {u} = Holders
        /\ u \in Holders => Cardinality(Holders \ {u}) = Cardinality(Holders) - 1 /\ Holders \cup {u} = Holders
    BY <2>1, HoldersMove
  <2>4. host'.roles = host.roles + In(pc) - In(user[u])
    BY DEF HostFits
  <2>5. CASE u \in Holders /\ pc \in {"holds"} \cup Starting
    <3>1. In(pc) = 1 /\ In(user[u]) = 1 /\ Holders' = Holders
      BY <2>1, <2>2, <2>3, <2>5 DEF In
    <3> QED BY <2>1, <2>4, <3>1
  <2>6. CASE u \in Holders /\ pc \notin {"holds"} \cup Starting
    <3>1. In(pc) = 0 /\ In(user[u]) = 1 /\ Holders' = Holders \ {u}
      BY <2>1, <2>2, <2>6 DEF In
    <3> QED BY <2>1, <2>3, <2>4, <2>6, <3>1
  <2>7. CASE u \notin Holders /\ pc \in {"holds"} \cup Starting
    <3>1. In(pc) = 1 /\ In(user[u]) = 0 /\ Holders' = Holders \cup {u}
      BY <2>1, <2>2, <2>7 DEF In
    <3> QED BY <2>1, <2>3, <2>4, <2>7, <3>1
  <2>8. CASE u \notin Holders /\ pc \notin {"holds"} \cup Starting
    <3>1. In(pc) = 0 /\ In(user[u]) = 0 /\ Holders' = Holders
      BY <2>1, <2>2, <2>3, <2>8 DEF In
    <3> QED BY <2>1, <2>4, <3>1
  <2> QED BY <2>5, <2>6, <2>7, <2>8
<1>2. OneStarter'
  BY OneStarterStays
<1>3. /\ JoinedFirst' /\ HandleHasUser' /\ OneReceiver'
      /\ Nobody' => host'.task = None /\ (slipped' \/ Unjoined' = {})
  BY <1>2, TaskStays
<1>4. UnracedAlone' /\ UnracedStarts' /\ HoldersServed'
  BY UnracedStays DEF TaskFits
<1>5. RolesCounted'
  BY <1>1, <1>3, RolesParts
<1> QED BY <1>2, <1>3, <1>4, <1>5 DEF LifeInv

LEMMA LifeStart == ASSUME IsFiniteSet(Users), Init PROVE LifeInv
<1>1. Holders = {} /\ Cardinality(Holders) = 0
  BY FS_EmptySet DEF Init, Holders, Counted, Starting
<1>2. Unjoined = {} /\ host.task = None
  BY DEF Init, Unjoined
<1>3. RolesCounted
  BY <1>1, <1>2, RolesParts DEF Init
<1>4. LifeTypes
  BY DEF Init, LifeTypes, HostType, Handles, UserPcs
<1>5. /\ OneStarter /\ JoinedFirst /\ HandleHasUser /\ UnracedAlone /\ UnracedStarts
      /\ OneReceiver /\ HoldersServed
  BY <1>2 DEF Init, OneStarter, JoinedFirst, HandleHasUser, UnracedAlone, UnracedStarts, OneReceiver,
         HoldersServed, Starting, Stopping, Counted
<1> QED BY <1>3, <1>4, <1>5 DEF LifeInv

----------------------------------------------------------------------------
(* One lemma for each action: the steps it takes fit.                       *)
LEMMA RetainStep ==
    ASSUME IsFiniteSet(Users), None \notin RecvTasks, LifeInv, NEW u \in Users, Retain(u)
    PROVE  LifeInv'
<1>1. /\ LifeTypes /\ OneStarter /\ JoinedFirst /\ HandleHasUser /\ UnracedAlone /\ UnracedStarts
      /\ RolesCounted /\ OneReceiver /\ HoldersServed
  BY DEF LifeInv
<1>2. Told(u)
  BY RolesTell
<1>3. CASE host.roles = 0 /\ host.task = None
  <2>1. Goes(u, "starts") /\ "starts" \in UserPcs /\ user[u] = "idle"
    BY <1>3 DEF Retain, Moves, Back, UserPcs, Inside, Starting, Stopping
  <2>2. /\ host'.roles = host.roles + 1 /\ host'.running = host.running /\ host'.ready = host.ready
        /\ host'.async = host.async /\ host'.task = host.task /\ Unjoined' = Unjoined
        /\ recv' = recv /\ hand' = hand /\ slipped' = slipped
        /\ raced' = IF (\E v \in Users : user[v] \in Inside) \/ (\E v \in raced : user[v] = "holds")
                     THEN raced \cup {u} ELSE raced
    BY <1>1, <1>3, <2>1 DEF Retain, Moves, Races, Back, LifeTypes, HostType, Unjoined, Stopping
  <2>3. LifeTypes'
    <3>1. host'.roles \in Nat
      BY <1>2, <2>1, <2>2 DEF Told, Counted, Starting
    <3>2. host' \in HostType
      BY <1>1, <1>3, <2>1, <2>2, <3>1 DEF Retain, LifeTypes, HostType, Handles
    <3>3. user' \in [Users -> UserPcs] /\ hand' \in [Users -> Handles]
      BY <1>1, <2>1, <2>2 DEF LifeTypes, HostType, Handles, Goes
    <3>4. recv' \in [live : SUBSET RecvTasks, ended : SUBSET RecvTasks] /\ raced' \subseteq Users /\ slipped' \in BOOLEAN
      BY <1>1, <2>2 DEF LifeTypes
    <3> QED BY <3>2, <3>3, <3>4 DEF LifeTypes
  <2>4. HostFits(u, "starts")
    <3>1. In("starts") = 1 /\ In(user[u]) = 0
      BY <2>1 DEF In, Starting
    <3> QED BY <1>1, <1>2, <1>3, <2>1, <2>2, <3>1 DEF HostFits, OneStarter, Starting, Counted, Told
  <2>5. RacedFits(u, "starts")
    <3>1. u \notin raced /\ raced' \subseteq raced \cup {u} /\ raced \subseteq raced' \cup {u}
      BY <1>1, <2>1, <2>2 DEF UnracedAlone
    <3>2. ASSUME u \notin raced'
          PROVE  Quiet
      <4>1. (\A v \in Users : user[v] \notin Inside) /\ \A v \in raced : user[v] # "holds"
        BY <2>2, <3>2
      <4>2. \A v \in Users : user[v] \in UserPcs
        BY <1>1 DEF LifeTypes
      <4> QED BY <4>1, <4>2 DEF Quiet, UserPcs
    <3> QED BY <2>1, <2>2, <3>1, <3>2 DEF RacedFits, Starting, Stopping
  <2>6. TaskFits(u, "starts")
    BY <1>1, <1>2, <1>3, <2>1, <2>2 DEF TaskFits, OneReceiver, OneStarter, Counted, Starting, LifeTypes, Told
  <2> QED BY <2>1, <2>3, <2>4, <2>5, <2>6, FittingStep
<1>4. CASE ~(host.roles = 0 /\ host.task = None)
  <2>1. Goes(u, "holds") /\ "holds" \in UserPcs /\ user[u] = "idle"
    BY <1>4 DEF Retain, Moves, Back, UserPcs, Inside, Starting, Stopping
  <2>2. /\ host'.roles = host.roles + 1 /\ host'.running = host.running /\ host'.ready = host.ready
        /\ host'.async = host.async /\ host'.task = host.task /\ Unjoined' = Unjoined
        /\ recv' = recv /\ hand' = hand /\ slipped' = slipped
        /\ raced' = IF (\E v \in Users : user[v] \in Inside) \/ (\E v \in raced : user[v] = "holds")
                     THEN raced \cup {u} ELSE raced
    BY <1>1, <1>4, <2>1 DEF Retain, Moves, Races, Back, LifeTypes, HostType, Unjoined, Stopping
  <2>3. LifeTypes'
    <3>1. host'.roles \in Nat
      BY <1>2, <2>1, <2>2 DEF Told, Counted, Starting
    <3>2. host' \in HostType
      BY <1>1, <1>4, <2>1, <2>2, <3>1 DEF Retain, LifeTypes, HostType, Handles
    <3>3. user' \in [Users -> UserPcs] /\ hand' \in [Users -> Handles]
      BY <1>1, <2>1, <2>2 DEF LifeTypes, HostType, Handles, Goes
    <3>4. recv' \in [live : SUBSET RecvTasks, ended : SUBSET RecvTasks] /\ raced' \subseteq Users /\ slipped' \in BOOLEAN
      BY <1>1, <2>2 DEF LifeTypes
    <3> QED BY <3>2, <3>3, <3>4 DEF LifeTypes
  <2>4. HostFits(u, "holds")
    <3>1. In("holds") = 1 /\ In(user[u]) = 0
      BY <2>1 DEF In, Starting
    <3> QED BY <1>1, <1>2, <1>4, <2>1, <2>2, <3>1 DEF HostFits, OneStarter, Starting, Counted, Told
  <2>5. RacedFits(u, "holds")
    <3>1. u \notin raced /\ raced' \subseteq raced \cup {u} /\ raced \subseteq raced' \cup {u}
      BY <1>1, <2>1, <2>2 DEF UnracedAlone
    <3>2. ASSUME u \notin raced'
          PROVE  Quiet
      <4>1. (\A v \in Users : user[v] \notin Inside) /\ \A v \in raced : user[v] # "holds"
        BY <2>2, <3>2
      <4>2. \A v \in Users : user[v] \in UserPcs
        BY <1>1 DEF LifeTypes
      <4> QED BY <4>1, <4>2 DEF Quiet, UserPcs
    <3>3. ASSUME Quiet
          PROVE  host.async \/ (host.running /\ host.ready /\ host.task \in recv.live)
      <4>1. host.roles # 0
        <5>1. ASSUME host.roles = 0
              PROVE  FALSE
          <6>1. Nobody
            BY <1>2, <3>3, <5>1 DEF Nobody, Quiet, Counted, Told
          <6> QED BY <1>1, <1>4, <5>1, <6>1, RolesParts
        <5> QED BY <5>1
      <4>2. PICK v \in Users : Counted(v)
        BY <1>2, <4>1 DEF Told
      <4>3. user[v] = "holds" /\ v \notin raced
        BY <3>3, <4>2 DEF Quiet, Counted, Inside, Starting
      <4> QED BY <1>1, <4>3 DEF HoldersServed
    <3> QED BY <2>1, <2>2, <3>1, <3>2, <3>3 DEF RacedFits, Starting, Stopping
  <2>6. TaskFits(u, "holds")
    BY <1>1, <1>2, <1>4, <2>1, <2>2 DEF TaskFits, OneReceiver, OneStarter, Counted, Starting, LifeTypes, Told
  <2> QED BY <2>1, <2>3, <2>4, <2>5, <2>6, FittingStep
<1> QED BY <1>3, <1>4 DEF Retain

LEMMA StartStep ==
    ASSUME IsFiniteSet(Users), None \notin RecvTasks, LifeInv, NEW u \in Users, Start(u)
    PROVE  LifeInv'
<1>1. /\ LifeTypes /\ OneStarter /\ JoinedFirst /\ HandleHasUser /\ UnracedAlone /\ UnracedStarts
      /\ RolesCounted /\ OneReceiver /\ HoldersServed
  BY DEF LifeInv
<1>2. Told(u)
  BY RolesTell
<1>3. CASE host.task = None
  <2>1. Goes(u, "spawns") /\ "spawns" \in UserPcs /\ user[u] = "starts"
    BY <1>3 DEF Start, Moves, Back, UserPcs, Inside, Starting, Stopping
  <2>2. /\ host'.roles = host.roles /\ host'.running = TRUE /\ host'.ready = FALSE
        /\ host'.async = FALSE /\ host'.task = host.task /\ Unjoined' = Unjoined
        /\ recv' = recv /\ hand' = hand /\ slipped' = slipped
        /\ raced' = raced
    BY <1>1, <1>3, <2>1 DEF Start, Moves, Races, Back, LifeTypes, HostType, Unjoined, Stopping
  <2>3. LifeTypes'
    <3>2. host' \in HostType
      BY <1>1, <1>3, <2>1, <2>2 DEF Start, LifeTypes, HostType, Handles
    <3>3. user' \in [Users -> UserPcs] /\ hand' \in [Users -> Handles]
      BY <1>1, <2>1, <2>2 DEF LifeTypes, HostType, Handles, Goes
    <3>4. recv' \in [live : SUBSET RecvTasks, ended : SUBSET RecvTasks] /\ raced' \subseteq Users /\ slipped' \in BOOLEAN
      BY <1>1, <2>2 DEF LifeTypes
    <3> QED BY <3>2, <3>3, <3>4 DEF LifeTypes
  <2>4. HostFits(u, "spawns")
    <3>1. In("spawns") = 1 /\ In(user[u]) = 1
      BY <2>1 DEF In, Starting
    <3> QED BY <1>1, <1>2, <1>3, <2>1, <2>2, <3>1 DEF HostFits, OneStarter, Starting, Counted, Told
  <2>5. RacedFits(u, "spawns")
    BY <1>1, <1>2, <1>3, <2>1, <2>2
       DEF RacedFits, Starting, Stopping, Counted, UnracedAlone, UnracedStarts, HoldersServed, LifeTypes, Told
  <2>6. TaskFits(u, "spawns")
    BY <1>1, <1>2, <1>3, <2>1, <2>2 DEF TaskFits, OneReceiver, OneStarter, Counted, Starting, LifeTypes, Told
  <2> QED BY <2>1, <2>3, <2>4, <2>5, <2>6, FittingStep
<1> QED BY <1>1, <1>3 DEF Start, OneStarter

LEMMA SpawnStep ==
    ASSUME IsFiniteSet(Users), None \notin RecvTasks, LifeInv, NEW u \in Users, Spawn(u)
    PROVE  LifeInv'
<1>1. /\ LifeTypes /\ OneStarter /\ JoinedFirst /\ HandleHasUser /\ UnracedAlone /\ UnracedStarts
      /\ RolesCounted /\ OneReceiver /\ HoldersServed
  BY DEF LifeInv
<1>2. Told(u)
  BY RolesTell
<1>3. CASE Moves(u, "unretains") /\ UNCHANGED <<recv, hand>>
  <2>1. Goes(u, "unretains") /\ "unretains" \in UserPcs /\ user[u] = "spawns"
    BY <1>3 DEF Spawn, Moves, Back, UserPcs, Inside, Starting, Stopping
  <2>2. /\ host'.roles = host.roles /\ host'.running = host.running /\ host'.ready = host.ready
        /\ host'.async = host.async /\ host'.task = host.task /\ Unjoined' = Unjoined
        /\ recv' = recv /\ hand' = hand /\ slipped' = slipped
        /\ raced' = raced
    BY <1>1, <1>3, <2>1 DEF Spawn, Moves, Races, Back, LifeTypes, HostType, Unjoined, Stopping
  <2>3. LifeTypes'
    <3>2. host' \in HostType
      BY <1>1, <1>3, <2>1, <2>2 DEF Spawn, LifeTypes, HostType, Handles
    <3>3. user' \in [Users -> UserPcs] /\ hand' \in [Users -> Handles]
      BY <1>1, <2>1, <2>2 DEF LifeTypes, HostType, Handles, Goes
    <3>4. recv' \in [live : SUBSET RecvTasks, ended : SUBSET RecvTasks] /\ raced' \subseteq Users /\ slipped' \in BOOLEAN
      BY <1>1, <2>2 DEF LifeTypes
    <3> QED BY <3>2, <3>3, <3>4 DEF LifeTypes
  <2>4. HostFits(u, "unretains")
    <3>1. In("unretains") = 1 /\ In(user[u]) = 1
      BY <2>1 DEF In, Starting
    <3> QED BY <1>1, <1>2, <1>3, <2>1, <2>2, <3>1 DEF HostFits, OneStarter, Starting, Counted, Told
  <2>5. RacedFits(u, "unretains")
    BY <1>1, <1>2, <1>3, <2>1, <2>2
       DEF RacedFits, Starting, Stopping, Counted, UnracedAlone, UnracedStarts, HoldersServed, LifeTypes, Told
  <2>6. TaskFits(u, "unretains")
    BY <1>1, <1>2, <1>3, <2>1, <2>2 DEF TaskFits, OneReceiver, OneStarter, Counted, Starting, LifeTypes, Told
  <2> QED BY <2>1, <2>3, <2>4, <2>5, <2>6, FittingStep
<1>4. CASE \E t \in RecvTasks \ (Unjoined \cup {hand[v] : v \in Users}) :
            /\ recv' = [recv EXCEPT !.live = @ \cup {t}] /\ hand' = [hand EXCEPT ![u] = t]
            /\ Moves(u, "stores")
  <2>0. PICK t \in RecvTasks \ (Unjoined \cup {hand[v] : v \in Users}) :
            /\ recv' = [recv EXCEPT !.live = @ \cup {t}] /\ hand' = [hand EXCEPT ![u] = t]
            /\ Moves(u, "stores")
    BY <1>4
  <2>1. Goes(u, "stores") /\ "stores" \in UserPcs /\ user[u] = "spawns"
    BY <2>0 DEF Spawn, Moves, Back, UserPcs, Inside, Starting, Stopping
  <2>2. /\ host'.roles = host.roles /\ host'.running = host.running /\ host'.ready = host.ready
        /\ host'.async = host.async /\ host'.task = host.task /\ Unjoined' = Unjoined \cup {t}
        /\ recv' = [live |-> recv.live \cup {t}, ended |-> recv.ended] /\ hand' = [hand EXCEPT ![u] = t] /\ slipped' = slipped
        /\ raced' = raced
    BY <1>1, <2>0, <2>1 DEF Spawn, Moves, Races, Back, LifeTypes, HostType, Unjoined, Stopping
  <2>3. LifeTypes'
    <3>2. host' \in HostType
      BY <1>1, <2>0, <2>1, <2>2 DEF Spawn, LifeTypes, HostType, Handles
    <3>3. user' \in [Users -> UserPcs] /\ hand' \in [Users -> Handles]
      BY <1>1, <2>1, <2>2 DEF LifeTypes, HostType, Handles, Goes
    <3>4. recv' \in [live : SUBSET RecvTasks, ended : SUBSET RecvTasks] /\ raced' \subseteq Users /\ slipped' \in BOOLEAN
      BY <1>1, <2>2 DEF LifeTypes
    <3> QED BY <3>2, <3>3, <3>4 DEF LifeTypes
  <2>4. HostFits(u, "stores")
    <3>1. In("stores") = 1 /\ In(user[u]) = 1
      BY <2>1 DEF In, Starting
    <3> QED BY <1>1, <1>2, <2>0, <2>1, <2>2, <3>1 DEF HostFits, OneStarter, Starting, Counted, Told
  <2>5. RacedFits(u, "stores")
    BY <1>1, <1>2, <2>0, <2>1, <2>2
       DEF RacedFits, Starting, Stopping, Counted, UnracedAlone, UnracedStarts, HoldersServed, LifeTypes, Told
  <2>6. TaskFits(u, "stores")
    BY <1>1, <1>2, <2>0, <2>1, <2>2 DEF TaskFits, OneReceiver, OneStarter, Counted, Starting, LifeTypes, Told
  <2> QED BY <2>1, <2>3, <2>4, <2>5, <2>6, FittingStep
<1> QED BY <1>3, <1>4 DEF Spawn

LEMMA StoreStep ==
    ASSUME IsFiniteSet(Users), None \notin RecvTasks, LifeInv, NEW u \in Users, StoreTask(u)
    PROVE  LifeInv'
<1>1. /\ LifeTypes /\ OneStarter /\ JoinedFirst /\ HandleHasUser /\ UnracedAlone /\ UnracedStarts
      /\ RolesCounted /\ OneReceiver /\ HoldersServed
  BY DEF LifeInv
<1>2. Told(u)
  BY RolesTell
<1>3. LifeInv'
  <2>1. Goes(u, "commands") /\ "commands" \in UserPcs /\ user[u] = "stores"
    BY DEF StoreTask, Moves, Back, UserPcs, Inside, Starting, Stopping
  <2>2. /\ host'.roles = host.roles /\ host'.running = host.running /\ host'.ready = host.ready
        /\ host'.async = host.async /\ host'.task = hand[u] /\ Unjoined' = Unjoined
        /\ recv' = recv /\ hand' = [hand EXCEPT ![u] = None] /\ slipped' = slipped
        /\ raced' = raced
    BY <1>1, <2>1 DEF StoreTask, Moves, Races, Back, LifeTypes, HostType, Unjoined, Stopping
  <2>3. LifeTypes'
    <3>2. host' \in HostType
      BY <1>1, <2>1, <2>2 DEF StoreTask, LifeTypes, HostType, Handles
    <3>3. user' \in [Users -> UserPcs] /\ hand' \in [Users -> Handles]
      BY <1>1, <2>1, <2>2 DEF LifeTypes, HostType, Handles, Goes
    <3>4. recv' \in [live : SUBSET RecvTasks, ended : SUBSET RecvTasks] /\ raced' \subseteq Users /\ slipped' \in BOOLEAN
      BY <1>1, <2>2 DEF LifeTypes
    <3> QED BY <3>2, <3>3, <3>4 DEF LifeTypes
  <2>4. HostFits(u, "commands")
    <3>1. In("commands") = 1 /\ In(user[u]) = 1
      BY <2>1 DEF In, Starting
    <3> QED BY <1>1, <1>2, <2>1, <2>2, <3>1 DEF HostFits, OneStarter, Starting, Counted, Told
  <2>5. RacedFits(u, "commands")
    BY <1>1, <1>2, <2>1, <2>2
       DEF RacedFits, Starting, Stopping, Counted, UnracedAlone, UnracedStarts, HoldersServed, LifeTypes, Told
  <2>6. TaskFits(u, "commands")
    <3>1. /\ \A v \in Users \ {u} : hand'[v] = hand[v] /\ user[v] # "stores"
          /\ host.task = None /\ Unjoined \subseteq RecvTasks
      BY <1>1, <2>1, <2>2 DEF OneStarter, Starting, LifeTypes, Unjoined
    <3>2. ASSUME ~slipped, NEW t \in Unjoined
          PROVE  host'.task = t
      BY <1>1, <2>1, <2>2, <3>1, <3>2 DEF OneReceiver
    <3> QED BY <2>2, <3>1, <3>2 DEF TaskFits
  <2> QED BY <2>1, <2>3, <2>4, <2>5, <2>6, FittingStep
<1> QED BY <1>3

LEMMA CommandsStep ==
    ASSUME IsFiniteSet(Users), None \notin RecvTasks, LifeInv, NEW u \in Users, Commands(u)
    PROVE  LifeInv'
<1>1. /\ LifeTypes /\ OneStarter /\ JoinedFirst /\ HandleHasUser /\ UnracedAlone /\ UnracedStarts
      /\ RolesCounted /\ OneReceiver /\ HoldersServed
  BY DEF LifeInv
<1>2. Told(u)
  BY RolesTell
<1>3. CASE Moves(u, "holds") /\ host' = [host EXCEPT !.ready = TRUE]
  <2>1. Goes(u, "holds") /\ "holds" \in UserPcs /\ user[u] = "commands"
    BY <1>3 DEF Commands, Moves, Back, UserPcs, Inside, Starting, Stopping
  <2>2. /\ host'.roles = host.roles /\ host'.running = host.running /\ host'.ready = TRUE
        /\ host'.async = host.async /\ host'.task = host.task /\ Unjoined' = Unjoined
        /\ recv' = recv /\ hand' = hand /\ slipped' = slipped
        /\ raced' = raced
    BY <1>1, <1>3, <2>1 DEF Commands, Moves, Races, Back, LifeTypes, HostType, Unjoined, Stopping
  <2>3. LifeTypes'
    <3>2. host' \in HostType
      BY <1>1, <1>3, <2>1, <2>2 DEF Commands, LifeTypes, HostType, Handles
    <3>3. user' \in [Users -> UserPcs] /\ hand' \in [Users -> Handles]
      BY <1>1, <2>1, <2>2 DEF LifeTypes, HostType, Handles, Goes
    <3>4. recv' \in [live : SUBSET RecvTasks, ended : SUBSET RecvTasks] /\ raced' \subseteq Users /\ slipped' \in BOOLEAN
      BY <1>1, <2>2 DEF LifeTypes
    <3> QED BY <3>2, <3>3, <3>4 DEF LifeTypes
  <2>4. HostFits(u, "holds")
    <3>1. In("holds") = 1 /\ In(user[u]) = 1
      BY <2>1 DEF In, Starting
    <3> QED BY <1>1, <1>2, <1>3, <2>1, <2>2, <3>1 DEF HostFits, OneStarter, Starting, Counted, Told
  <2>5. RacedFits(u, "holds")
    BY <1>1, <1>2, <1>3, <2>1, <2>2
       DEF RacedFits, Starting, Stopping, Counted, UnracedAlone, UnracedStarts, HoldersServed, LifeTypes, Told
  <2>6. TaskFits(u, "holds")
    BY <1>1, <1>2, <1>3, <2>1, <2>2 DEF TaskFits, OneReceiver, OneStarter, Counted, Starting, LifeTypes, Told
  <2> QED BY <2>1, <2>3, <2>4, <2>5, <2>6, FittingStep
<1>4. CASE Moves(u, "fails") /\ UNCHANGED host
  <2>1. Goes(u, "fails") /\ "fails" \in UserPcs /\ user[u] = "commands"
    BY <1>4 DEF Commands, Moves, Back, UserPcs, Inside, Starting, Stopping
  <2>2. /\ host'.roles = host.roles /\ host'.running = host.running /\ host'.ready = host.ready
        /\ host'.async = host.async /\ host'.task = host.task /\ Unjoined' = Unjoined
        /\ recv' = recv /\ hand' = hand /\ slipped' = slipped
        /\ raced' = raced
    BY <1>1, <1>4, <2>1 DEF Commands, Moves, Races, Back, LifeTypes, HostType, Unjoined, Stopping
  <2>3. LifeTypes'
    <3>2. host' \in HostType
      BY <1>1, <1>4, <2>1, <2>2 DEF Commands, LifeTypes, HostType, Handles
    <3>3. user' \in [Users -> UserPcs] /\ hand' \in [Users -> Handles]
      BY <1>1, <2>1, <2>2 DEF LifeTypes, HostType, Handles, Goes
    <3>4. recv' \in [live : SUBSET RecvTasks, ended : SUBSET RecvTasks] /\ raced' \subseteq Users /\ slipped' \in BOOLEAN
      BY <1>1, <2>2 DEF LifeTypes
    <3> QED BY <3>2, <3>3, <3>4 DEF LifeTypes
  <2>4. HostFits(u, "fails")
    <3>1. In("fails") = 1 /\ In(user[u]) = 1
      BY <2>1 DEF In, Starting
    <3> QED BY <1>1, <1>2, <1>4, <2>1, <2>2, <3>1 DEF HostFits, OneStarter, Starting, Counted, Told
  <2>5. RacedFits(u, "fails")
    BY <1>1, <1>2, <1>4, <2>1, <2>2
       DEF RacedFits, Starting, Stopping, Counted, UnracedAlone, UnracedStarts, HoldersServed, LifeTypes, Told
  <2>6. TaskFits(u, "fails")
    BY <1>1, <1>2, <1>4, <2>1, <2>2 DEF TaskFits, OneReceiver, OneStarter, Counted, Starting, LifeTypes, Told
  <2> QED BY <2>1, <2>3, <2>4, <2>5, <2>6, FittingStep
<1> QED BY <1>3, <1>4 DEF Commands

LEMMA UnretainStep ==
    ASSUME IsFiniteSet(Users), None \notin RecvTasks, LifeInv, NEW u \in Users, Unretain(u)
    PROVE  LifeInv'
<1>1. /\ LifeTypes /\ OneStarter /\ JoinedFirst /\ HandleHasUser /\ UnracedAlone /\ UnracedStarts
      /\ RolesCounted /\ OneReceiver /\ HoldersServed
  BY DEF LifeInv
<1>2. Told(u)
  BY RolesTell
<1>3. LifeInv'
  <2>1. Goes(u, "idle") /\ "idle" \in UserPcs /\ user[u] = "unretains"
    BY DEF Unretain, Moves, Back, UserPcs, Inside, Starting, Stopping
  <2>2. /\ host'.roles = host.roles - 1 /\ host'.running = host.running /\ host'.ready = host.ready
        /\ host'.async = host.async /\ host'.task = host.task /\ Unjoined' = Unjoined
        /\ recv' = recv /\ hand' = hand /\ slipped' = slipped
        /\ raced' = raced \ {u}
    BY <1>1, <2>1 DEF Unretain, Moves, Races, Back, LifeTypes, HostType, Unjoined, Stopping
  <2>3. LifeTypes'
    <3>1. host'.roles \in Nat
      BY <1>2, <2>1, <2>2 DEF Told, Counted, Starting
    <3>2. host' \in HostType
      BY <1>1, <2>1, <2>2, <3>1 DEF Unretain, LifeTypes, HostType, Handles
    <3>3. user' \in [Users -> UserPcs] /\ hand' \in [Users -> Handles]
      BY <1>1, <2>1, <2>2 DEF LifeTypes, HostType, Handles, Goes
    <3>4. recv' \in [live : SUBSET RecvTasks, ended : SUBSET RecvTasks] /\ raced' \subseteq Users /\ slipped' \in BOOLEAN
      BY <1>1, <2>2 DEF LifeTypes
    <3> QED BY <3>2, <3>3, <3>4 DEF LifeTypes
  <2>4. HostFits(u, "idle")
    <3>1. In("idle") = 0 /\ In(user[u]) = 1
      BY <2>1 DEF In, Starting
    <3> QED BY <1>1, <1>2, <2>1, <2>2, <3>1 DEF HostFits, OneStarter, Starting, Counted, Told
  <2>5. RacedFits(u, "idle")
    BY <1>1, <1>2, <2>1, <2>2
       DEF RacedFits, Starting, Stopping, Counted, UnracedAlone, UnracedStarts, HoldersServed, LifeTypes, Told
  <2>6. TaskFits(u, "idle")
    BY <1>1, <1>2, <2>1, <2>2 DEF TaskFits, OneReceiver, OneStarter, Counted, Starting, LifeTypes, Told
  <2> QED BY <2>1, <2>3, <2>4, <2>5, <2>6, FittingStep
<1> QED BY <1>3

LEMMA ReleaseStep ==
    ASSUME IsFiniteSet(Users), None \notin RecvTasks, LifeInv, NEW u \in Users, Release(u)
    PROVE  LifeInv'
<1>1. /\ LifeTypes /\ OneStarter /\ JoinedFirst /\ HandleHasUser /\ UnracedAlone /\ UnracedStarts
      /\ RolesCounted /\ OneReceiver /\ HoldersServed
  BY DEF LifeInv
<1>2. Told(u)
  BY RolesTell
<1>3. CASE host.roles = 1
  <2>1. Goes(u, "stops") /\ "stops" \in UserPcs /\ user[u] = "holds"
    BY <1>3 DEF Release, Moves, Back, UserPcs, Inside, Starting, Stopping
  <2>2. /\ host'.roles = host.roles - 1 /\ host'.running = host.running /\ host'.ready = host.ready
        /\ host'.async = host.async /\ host'.task = host.task /\ Unjoined' = Unjoined
        /\ recv' = recv /\ hand' = hand /\ slipped' = slipped
        /\ raced' = raced
    BY <1>1, <1>3, <2>1 DEF Release, Moves, Races, Back, LifeTypes, HostType, Unjoined, Stopping
  <2>3. LifeTypes'
    <3>1. host'.roles \in Nat
      BY <1>2, <2>1, <2>2 DEF Told, Counted, Starting
    <3>2. host' \in HostType
      BY <1>1, <1>3, <2>1, <2>2, <3>1 DEF Release, LifeTypes, HostType, Handles
    <3>3. user' \in [Users -> UserPcs] /\ hand' \in [Users -> Handles]
      BY <1>1, <2>1, <2>2 DEF LifeTypes, HostType, Handles, Goes
    <3>4. recv' \in [live : SUBSET RecvTasks, ended : SUBSET RecvTasks] /\ raced' \subseteq Users /\ slipped' \in BOOLEAN
      BY <1>1, <2>2 DEF LifeTypes
    <3> QED BY <3>2, <3>3, <3>4 DEF LifeTypes
  <2>4. HostFits(u, "stops")
    <3>1. In("stops") = 0 /\ In(user[u]) = 1
      BY <2>1 DEF In, Starting
    <3> QED BY <1>1, <1>2, <1>3, <2>1, <2>2, <3>1 DEF HostFits, OneStarter, Starting, Counted, Told
  <2>5. RacedFits(u, "stops")
    BY <1>1, <1>2, <1>3, <2>1, <2>2
       DEF RacedFits, Starting, Stopping, Counted, UnracedAlone, UnracedStarts, HoldersServed, LifeTypes, Told
  <2>6. TaskFits(u, "stops")
    BY <1>1, <1>2, <1>3, <2>1, <2>2 DEF TaskFits, OneReceiver, OneStarter, Counted, Starting, LifeTypes, Told
  <2> QED BY <2>1, <2>3, <2>4, <2>5, <2>6, FittingStep
<1>4. CASE host.roles # 1
  <2>1. Goes(u, "idle") /\ "idle" \in UserPcs /\ user[u] = "holds"
    BY <1>4 DEF Release, Moves, Back, UserPcs, Inside, Starting, Stopping
  <2>2. /\ host'.roles = host.roles - 1 /\ host'.running = host.running /\ host'.ready = host.ready
        /\ host'.async = host.async /\ host'.task = host.task /\ Unjoined' = Unjoined
        /\ recv' = recv /\ hand' = hand /\ slipped' = slipped
        /\ raced' = raced \ {u}
    BY <1>1, <1>4, <2>1 DEF Release, Moves, Races, Back, LifeTypes, HostType, Unjoined, Stopping
  <2>3. LifeTypes'
    <3>1. host'.roles \in Nat
      BY <1>2, <2>1, <2>2 DEF Told, Counted, Starting
    <3>2. host' \in HostType
      BY <1>1, <1>4, <2>1, <2>2, <3>1 DEF Release, LifeTypes, HostType, Handles
    <3>3. user' \in [Users -> UserPcs] /\ hand' \in [Users -> Handles]
      BY <1>1, <2>1, <2>2 DEF LifeTypes, HostType, Handles, Goes
    <3>4. recv' \in [live : SUBSET RecvTasks, ended : SUBSET RecvTasks] /\ raced' \subseteq Users /\ slipped' \in BOOLEAN
      BY <1>1, <2>2 DEF LifeTypes
    <3> QED BY <3>2, <3>3, <3>4 DEF LifeTypes
  <2>4. HostFits(u, "idle")
    <3>1. In("idle") = 0 /\ In(user[u]) = 1
      BY <2>1 DEF In, Starting
    <3> QED BY <1>1, <1>2, <1>4, <2>1, <2>2, <3>1 DEF HostFits, OneStarter, Starting, Counted, Told
  <2>5. RacedFits(u, "idle")
    BY <1>1, <1>2, <1>4, <2>1, <2>2
       DEF RacedFits, Starting, Stopping, Counted, UnracedAlone, UnracedStarts, HoldersServed, LifeTypes, Told
  <2>6. TaskFits(u, "idle")
    BY <1>1, <1>2, <1>4, <2>1, <2>2 DEF TaskFits, OneReceiver, OneStarter, Counted, Starting, LifeTypes, Told
  <2> QED BY <2>1, <2>3, <2>4, <2>5, <2>6, FittingStep
<1> QED BY <1>3, <1>4 DEF Release

LEMMA StopStep ==
    ASSUME IsFiniteSet(Users), None \notin RecvTasks, LifeInv, NEW u \in Users, Stop(u)
    PROVE  LifeInv'
<1>1. /\ LifeTypes /\ OneStarter /\ JoinedFirst /\ HandleHasUser /\ UnracedAlone /\ UnracedStarts
      /\ RolesCounted /\ OneReceiver /\ HoldersServed
  BY DEF LifeInv
<1>2. Told(u)
  BY RolesTell
<1>3. CASE user[u] = "stops"
  <2>1. Goes(u, "looks") /\ "looks" \in UserPcs /\ user[u] = "stops"
    BY <1>3 DEF Stop, Moves, Back, UserPcs, Inside, Starting, Stopping
  <2>2. /\ host'.roles = host.roles /\ host'.running = FALSE /\ host'.ready = FALSE
        /\ host'.async = FALSE /\ host'.task = host.task /\ Unjoined' = Unjoined
        /\ recv' = recv /\ hand' = hand /\ slipped' = slipped
        /\ raced' = raced
    BY <1>1, <1>3, <2>1 DEF Stop, Moves, Races, Back, LifeTypes, HostType, Unjoined, Stopping
  <2>3. LifeTypes'
    <3>2. host' \in HostType
      BY <1>1, <1>3, <2>1, <2>2 DEF Stop, LifeTypes, HostType, Handles
    <3>3. user' \in [Users -> UserPcs] /\ hand' \in [Users -> Handles]
      BY <1>1, <2>1, <2>2 DEF LifeTypes, HostType, Handles, Goes
    <3>4. recv' \in [live : SUBSET RecvTasks, ended : SUBSET RecvTasks] /\ raced' \subseteq Users /\ slipped' \in BOOLEAN
      BY <1>1, <2>2 DEF LifeTypes
    <3> QED BY <3>2, <3>3, <3>4 DEF LifeTypes
  <2>4. HostFits(u, "looks")
    <3>1. In("looks") = 0 /\ In(user[u]) = 0
      BY <2>1 DEF In, Starting
    <3> QED BY <1>1, <1>2, <1>3, <2>1, <2>2, <3>1 DEF HostFits, OneStarter, Starting, Counted, Told
  <2>5. RacedFits(u, "looks")
    BY <1>1, <1>2, <1>3, <2>1, <2>2
       DEF RacedFits, Starting, Stopping, Counted, UnracedAlone, UnracedStarts, HoldersServed, LifeTypes, Told
  <2>6. TaskFits(u, "looks")
    BY <1>1, <1>2, <1>3, <2>1, <2>2 DEF TaskFits, OneReceiver, OneStarter, Counted, Starting, LifeTypes, Told
  <2> QED BY <2>1, <2>3, <2>4, <2>5, <2>6, FittingStep
<1>4. CASE user[u] = "fails"
  <2>1. Goes(u, "seeks") /\ "seeks" \in UserPcs /\ user[u] = "fails"
    BY <1>4 DEF Stop, Moves, Back, UserPcs, Inside, Starting, Stopping
  <2>2. /\ host'.roles = host.roles /\ host'.running = FALSE /\ host'.ready = FALSE
        /\ host'.async = FALSE /\ host'.task = host.task /\ Unjoined' = Unjoined
        /\ recv' = recv /\ hand' = hand /\ slipped' = slipped
        /\ raced' = raced
    BY <1>1, <1>4, <2>1 DEF Stop, Moves, Races, Back, LifeTypes, HostType, Unjoined, Stopping
  <2>3. LifeTypes'
    <3>2. host' \in HostType
      BY <1>1, <1>4, <2>1, <2>2 DEF Stop, LifeTypes, HostType, Handles
    <3>3. user' \in [Users -> UserPcs] /\ hand' \in [Users -> Handles]
      BY <1>1, <2>1, <2>2 DEF LifeTypes, HostType, Handles, Goes
    <3>4. recv' \in [live : SUBSET RecvTasks, ended : SUBSET RecvTasks] /\ raced' \subseteq Users /\ slipped' \in BOOLEAN
      BY <1>1, <2>2 DEF LifeTypes
    <3> QED BY <3>2, <3>3, <3>4 DEF LifeTypes
  <2>4. HostFits(u, "seeks")
    <3>1. In("seeks") = 1 /\ In(user[u]) = 1
      BY <2>1 DEF In, Starting
    <3> QED BY <1>1, <1>2, <1>4, <2>1, <2>2, <3>1 DEF HostFits, OneStarter, Starting, Counted, Told
  <2>5. RacedFits(u, "seeks")
    BY <1>1, <1>2, <1>4, <2>1, <2>2
       DEF RacedFits, Starting, Stopping, Counted, UnracedAlone, UnracedStarts, HoldersServed, LifeTypes, Told
  <2>6. TaskFits(u, "seeks")
    BY <1>1, <1>2, <1>4, <2>1, <2>2 DEF TaskFits, OneReceiver, OneStarter, Counted, Starting, LifeTypes, Told
  <2> QED BY <2>1, <2>3, <2>4, <2>5, <2>6, FittingStep
<1> QED BY <1>3, <1>4 DEF Stop

LEMMA LookStep ==
    ASSUME IsFiniteSet(Users), None \notin RecvTasks, LifeInv, NEW u \in Users, Look(u)
    PROVE  LifeInv'
<1>1. /\ LifeTypes /\ OneStarter /\ JoinedFirst /\ HandleHasUser /\ UnracedAlone /\ UnracedStarts
      /\ RolesCounted /\ OneReceiver /\ HoldersServed
  BY DEF LifeInv
<1>2. Told(u)
  BY RolesTell
<1>3. CASE user[u] = "looks" /\ host.task # None
  <2>1. Goes(u, "joins") /\ "joins" \in UserPcs /\ user[u] = "looks"
    BY <1>3 DEF Look, Moves, Back, UserPcs, Inside, Starting, Stopping
  <2>2. /\ host'.roles = host.roles /\ host'.running = host.running /\ host'.ready = host.ready
        /\ host'.async = host.async /\ host'.task = host.task /\ Unjoined' = Unjoined
        /\ recv' = recv /\ hand' = [hand EXCEPT ![u] = host.task] /\ slipped' = slipped
        /\ raced' = raced
    BY <1>1, <1>3, <2>1 DEF Look, Moves, Races, Back, LifeTypes, HostType, Unjoined, Stopping
  <2>3. LifeTypes'
    <3>2. host' \in HostType
      BY <1>1, <1>3, <2>1, <2>2 DEF Look, LifeTypes, HostType, Handles
    <3>3. user' \in [Users -> UserPcs] /\ hand' \in [Users -> Handles]
      BY <1>1, <2>1, <2>2 DEF LifeTypes, HostType, Handles, Goes
    <3>4. recv' \in [live : SUBSET RecvTasks, ended : SUBSET RecvTasks] /\ raced' \subseteq Users /\ slipped' \in BOOLEAN
      BY <1>1, <2>2 DEF LifeTypes
    <3> QED BY <3>2, <3>3, <3>4 DEF LifeTypes
  <2>4. HostFits(u, "joins")
    <3>1. In("joins") = 0 /\ In(user[u]) = 0
      BY <2>1 DEF In, Starting
    <3> QED BY <1>1, <1>2, <1>3, <2>1, <2>2, <3>1 DEF HostFits, OneStarter, Starting, Counted, Told
  <2>5. RacedFits(u, "joins")
    BY <1>1, <1>2, <1>3, <2>1, <2>2
       DEF RacedFits, Starting, Stopping, Counted, UnracedAlone, UnracedStarts, HoldersServed, LifeTypes, Told
  <2>6. TaskFits(u, "joins")
    BY <1>1, <1>2, <1>3, <2>1, <2>2 DEF TaskFits, OneReceiver, OneStarter, Counted, Starting, LifeTypes, Told
  <2> QED BY <2>1, <2>3, <2>4, <2>5, <2>6, FittingStep
<1>4. CASE user[u] = "looks" /\ host.task = None
  <2>1. Goes(u, "idle") /\ "idle" \in UserPcs /\ user[u] = "looks"
    BY <1>4 DEF Look, Moves, Back, UserPcs, Inside, Starting, Stopping
  <2>2. /\ host'.roles = host.roles /\ host'.running = host.running /\ host'.ready = host.ready
        /\ host'.async = host.async /\ host'.task = host.task /\ Unjoined' = Unjoined
        /\ recv' = recv /\ hand' = [hand EXCEPT ![u] = host.task] /\ slipped' = slipped
        /\ raced' = raced \ {u}
    BY <1>1, <1>4, <2>1 DEF Look, Moves, Races, Back, LifeTypes, HostType, Unjoined, Stopping
  <2>3. LifeTypes'
    <3>2. host' \in HostType
      BY <1>1, <1>4, <2>1, <2>2 DEF Look, LifeTypes, HostType, Handles
    <3>3. user' \in [Users -> UserPcs] /\ hand' \in [Users -> Handles]
      BY <1>1, <2>1, <2>2 DEF LifeTypes, HostType, Handles, Goes
    <3>4. recv' \in [live : SUBSET RecvTasks, ended : SUBSET RecvTasks] /\ raced' \subseteq Users /\ slipped' \in BOOLEAN
      BY <1>1, <2>2 DEF LifeTypes
    <3> QED BY <3>2, <3>3, <3>4 DEF LifeTypes
  <2>4. HostFits(u, "idle")
    <3>1. In("idle") = 0 /\ In(user[u]) = 0
      BY <2>1 DEF In, Starting
    <3> QED BY <1>1, <1>2, <1>4, <2>1, <2>2, <3>1 DEF HostFits, OneStarter, Starting, Counted, Told
  <2>5. RacedFits(u, "idle")
    BY <1>1, <1>2, <1>4, <2>1, <2>2
       DEF RacedFits, Starting, Stopping, Counted, UnracedAlone, UnracedStarts, HoldersServed, LifeTypes, Told
  <2>6. TaskFits(u, "idle")
    BY <1>1, <1>2, <1>4, <2>1, <2>2 DEF TaskFits, OneReceiver, OneStarter, Counted, Starting, LifeTypes, Told
  <2> QED BY <2>1, <2>3, <2>4, <2>5, <2>6, FittingStep
<1>5. CASE user[u] = "seeks" /\ host.task # None
  <2>1. Goes(u, "undoes") /\ "undoes" \in UserPcs /\ user[u] = "seeks"
    BY <1>5 DEF Look, Moves, Back, UserPcs, Inside, Starting, Stopping
  <2>2. /\ host'.roles = host.roles /\ host'.running = host.running /\ host'.ready = host.ready
        /\ host'.async = host.async /\ host'.task = host.task /\ Unjoined' = Unjoined
        /\ recv' = recv /\ hand' = [hand EXCEPT ![u] = host.task] /\ slipped' = slipped
        /\ raced' = raced
    BY <1>1, <1>5, <2>1 DEF Look, Moves, Races, Back, LifeTypes, HostType, Unjoined, Stopping
  <2>3. LifeTypes'
    <3>2. host' \in HostType
      BY <1>1, <1>5, <2>1, <2>2 DEF Look, LifeTypes, HostType, Handles
    <3>3. user' \in [Users -> UserPcs] /\ hand' \in [Users -> Handles]
      BY <1>1, <2>1, <2>2 DEF LifeTypes, HostType, Handles, Goes
    <3>4. recv' \in [live : SUBSET RecvTasks, ended : SUBSET RecvTasks] /\ raced' \subseteq Users /\ slipped' \in BOOLEAN
      BY <1>1, <2>2 DEF LifeTypes
    <3> QED BY <3>2, <3>3, <3>4 DEF LifeTypes
  <2>4. HostFits(u, "undoes")
    <3>1. In("undoes") = 1 /\ In(user[u]) = 1
      BY <2>1 DEF In, Starting
    <3> QED BY <1>1, <1>2, <1>5, <2>1, <2>2, <3>1 DEF HostFits, OneStarter, Starting, Counted, Told
  <2>5. RacedFits(u, "undoes")
    BY <1>1, <1>2, <1>5, <2>1, <2>2
       DEF RacedFits, Starting, Stopping, Counted, UnracedAlone, UnracedStarts, HoldersServed, LifeTypes, Told
  <2>6. TaskFits(u, "undoes")
    BY <1>1, <1>2, <1>5, <2>1, <2>2 DEF TaskFits, OneReceiver, OneStarter, Counted, Starting, LifeTypes, Told
  <2> QED BY <2>1, <2>3, <2>4, <2>5, <2>6, FittingStep
<1>6. CASE user[u] = "seeks" /\ host.task = None
  <2>1. Goes(u, "unretains") /\ "unretains" \in UserPcs /\ user[u] = "seeks"
    BY <1>6 DEF Look, Moves, Back, UserPcs, Inside, Starting, Stopping
  <2>2. /\ host'.roles = host.roles /\ host'.running = host.running /\ host'.ready = host.ready
        /\ host'.async = host.async /\ host'.task = host.task /\ Unjoined' = Unjoined
        /\ recv' = recv /\ hand' = [hand EXCEPT ![u] = host.task] /\ slipped' = slipped
        /\ raced' = raced
    BY <1>1, <1>6, <2>1 DEF Look, Moves, Races, Back, LifeTypes, HostType, Unjoined, Stopping
  <2>3. LifeTypes'
    <3>2. host' \in HostType
      BY <1>1, <1>6, <2>1, <2>2 DEF Look, LifeTypes, HostType, Handles
    <3>3. user' \in [Users -> UserPcs] /\ hand' \in [Users -> Handles]
      BY <1>1, <2>1, <2>2 DEF LifeTypes, HostType, Handles, Goes
    <3>4. recv' \in [live : SUBSET RecvTasks, ended : SUBSET RecvTasks] /\ raced' \subseteq Users /\ slipped' \in BOOLEAN
      BY <1>1, <2>2 DEF LifeTypes
    <3> QED BY <3>2, <3>3, <3>4 DEF LifeTypes
  <2>4. HostFits(u, "unretains")
    <3>1. In("unretains") = 1 /\ In(user[u]) = 1
      BY <2>1 DEF In, Starting
    <3> QED BY <1>1, <1>2, <1>6, <2>1, <2>2, <3>1 DEF HostFits, OneStarter, Starting, Counted, Told
  <2>5. RacedFits(u, "unretains")
    BY <1>1, <1>2, <1>6, <2>1, <2>2
       DEF RacedFits, Starting, Stopping, Counted, UnracedAlone, UnracedStarts, HoldersServed, LifeTypes, Told
  <2>6. TaskFits(u, "unretains")
    BY <1>1, <1>2, <1>6, <2>1, <2>2 DEF TaskFits, OneReceiver, OneStarter, Counted, Starting, LifeTypes, Told
  <2> QED BY <2>1, <2>3, <2>4, <2>5, <2>6, FittingStep
<1> QED BY <1>3, <1>4, <1>5, <1>6 DEF Look

LEMMA JoinStep ==
    ASSUME IsFiniteSet(Users), None \notin RecvTasks, LifeInv, NEW u \in Users, Join(u)
    PROVE  LifeInv'
<1>1. /\ LifeTypes /\ OneStarter /\ JoinedFirst /\ HandleHasUser /\ UnracedAlone /\ UnracedStarts
      /\ RolesCounted /\ OneReceiver /\ HoldersServed
  BY DEF LifeInv
<1>2. Told(u)
  BY RolesTell
<1>3. CASE user[u] = "joins"
  <2>1. Goes(u, "clears") /\ "clears" \in UserPcs /\ user[u] = "joins"
    BY <1>3 DEF Join, Moves, Back, UserPcs, Inside, Starting, Stopping
  <2>2. /\ host'.roles = host.roles /\ host'.running = host.running /\ host'.ready = host.ready
        /\ host'.async = host.async /\ host'.task = host.task /\ Unjoined' = Unjoined \ {hand[u]}
        /\ recv' = [live |-> recv.live, ended |-> recv.ended \ {hand[u]}] /\ hand' = hand /\ slipped' = slipped
        /\ raced' = raced
    <3>1. hand[u] \notin recv.live /\ recv' = [live |-> recv.live, ended |-> recv.ended \ {hand[u]}]
      BY <1>1 DEF Join, LifeTypes
    <3>2. Unjoined' = Unjoined \ {hand[u]}
      BY <3>1 DEF Unjoined
    <3> QED BY <1>3, <2>1, <3>1, <3>2 DEF Join, Moves
  <2>3. LifeTypes'
    <3>2. host' \in HostType
      BY <1>1, <1>3, <2>1, <2>2 DEF Join, LifeTypes, HostType, Handles
    <3>3. user' \in [Users -> UserPcs] /\ hand' \in [Users -> Handles]
      BY <1>1, <2>1, <2>2 DEF LifeTypes, HostType, Handles, Goes
    <3>4. recv' \in [live : SUBSET RecvTasks, ended : SUBSET RecvTasks] /\ raced' \subseteq Users /\ slipped' \in BOOLEAN
      BY <1>1, <2>2 DEF LifeTypes
    <3> QED BY <3>2, <3>3, <3>4 DEF LifeTypes
  <2>4. HostFits(u, "clears")
    <3>1. In("clears") = 0 /\ In(user[u]) = 0
      BY <2>1 DEF In, Starting
    <3> QED BY <1>1, <1>2, <1>3, <2>1, <2>2, <3>1 DEF HostFits, OneStarter, Starting, Counted, Told
  <2>5. RacedFits(u, "clears")
    BY <1>1, <1>2, <1>3, <2>1, <2>2
       DEF RacedFits, Starting, Stopping, Counted, UnracedAlone, UnracedStarts, HoldersServed, LifeTypes, Told
  <2>6. TaskFits(u, "clears")
    BY <1>1, <1>2, <1>3, <2>1, <2>2 DEF TaskFits, OneReceiver, OneStarter, Counted, Starting, LifeTypes, Told
  <2> QED BY <2>1, <2>3, <2>4, <2>5, <2>6, FittingStep
<1>4. CASE user[u] = "undoes"
  <2>1. Goes(u, "wipes") /\ "wipes" \in UserPcs /\ user[u] = "undoes"
    BY <1>4 DEF Join, Moves, Back, UserPcs, Inside, Starting, Stopping
  <2>2. /\ host'.roles = host.roles /\ host'.running = host.running /\ host'.ready = host.ready
        /\ host'.async = host.async /\ host'.task = host.task /\ Unjoined' = Unjoined \ {hand[u]}
        /\ recv' = [live |-> recv.live, ended |-> recv.ended \ {hand[u]}] /\ hand' = hand /\ slipped' = slipped
        /\ raced' = raced
    <3>1. hand[u] \notin recv.live /\ recv' = [live |-> recv.live, ended |-> recv.ended \ {hand[u]}]
      BY <1>1 DEF Join, LifeTypes
    <3>2. Unjoined' = Unjoined \ {hand[u]}
      BY <3>1 DEF Unjoined
    <3> QED BY <1>4, <2>1, <3>1, <3>2 DEF Join, Moves
  <2>3. LifeTypes'
    <3>2. host' \in HostType
      BY <1>1, <1>4, <2>1, <2>2 DEF Join, LifeTypes, HostType, Handles
    <3>3. user' \in [Users -> UserPcs] /\ hand' \in [Users -> Handles]
      BY <1>1, <2>1, <2>2 DEF LifeTypes, HostType, Handles, Goes
    <3>4. recv' \in [live : SUBSET RecvTasks, ended : SUBSET RecvTasks] /\ raced' \subseteq Users /\ slipped' \in BOOLEAN
      BY <1>1, <2>2 DEF LifeTypes
    <3> QED BY <3>2, <3>3, <3>4 DEF LifeTypes
  <2>4. HostFits(u, "wipes")
    <3>1. In("wipes") = 1 /\ In(user[u]) = 1
      BY <2>1 DEF In, Starting
    <3> QED BY <1>1, <1>2, <1>4, <2>1, <2>2, <3>1 DEF HostFits, OneStarter, Starting, Counted, Told
  <2>5. RacedFits(u, "wipes")
    BY <1>1, <1>2, <1>4, <2>1, <2>2
       DEF RacedFits, Starting, Stopping, Counted, UnracedAlone, UnracedStarts, HoldersServed, LifeTypes, Told
  <2>6. TaskFits(u, "wipes")
    BY <1>1, <1>2, <1>4, <2>1, <2>2 DEF TaskFits, OneReceiver, OneStarter, Counted, Starting, LifeTypes, Told
  <2> QED BY <2>1, <2>3, <2>4, <2>5, <2>6, FittingStep
<1> QED BY <1>3, <1>4 DEF Join

LEMMA ClearStep ==
    ASSUME IsFiniteSet(Users), None \notin RecvTasks, LifeInv, NEW u \in Users, Clear(u)
    PROVE  LifeInv'
<1>1. /\ LifeTypes /\ OneStarter /\ JoinedFirst /\ HandleHasUser /\ UnracedAlone /\ UnracedStarts
      /\ RolesCounted /\ OneReceiver /\ HoldersServed
  BY DEF LifeInv
<1>2. Told(u)
  BY RolesTell
<1>3. CASE user[u] = "clears"
  <2>1. Goes(u, "idle") /\ "idle" \in UserPcs /\ user[u] = "clears"
    BY <1>3 DEF Clear, Moves, Back, UserPcs, Inside, Starting, Stopping
  <2>2. /\ host'.roles = host.roles /\ host'.running = host.running /\ host'.ready = host.ready
        /\ host'.async = host.async /\ host'.task = None /\ Unjoined' = Unjoined
        /\ recv' = recv /\ hand' = [hand EXCEPT ![u] = None] /\ slipped' = (slipped \/ host.task \notin {None, hand[u]})
        /\ raced' = raced \ {u}
    BY <1>1, <1>3, <2>1 DEF Clear, Moves, Races, Back, LifeTypes, HostType, Unjoined, Stopping
  <2>3. LifeTypes'
    <3>2. host' \in HostType
      BY <1>1, <1>3, <2>1, <2>2 DEF Clear, LifeTypes, HostType, Handles
    <3>3. user' \in [Users -> UserPcs] /\ hand' \in [Users -> Handles]
      BY <1>1, <2>1, <2>2 DEF LifeTypes, HostType, Handles, Goes
    <3>4. recv' \in [live : SUBSET RecvTasks, ended : SUBSET RecvTasks] /\ raced' \subseteq Users /\ slipped' \in BOOLEAN
      BY <1>1, <2>2 DEF LifeTypes
    <3> QED BY <3>2, <3>3, <3>4 DEF LifeTypes
  <2>4. HostFits(u, "idle")
    <3>1. In("idle") = 0 /\ In(user[u]) = 0
      BY <2>1 DEF In, Starting
    <3> QED BY <1>1, <1>2, <1>3, <2>1, <2>2, <3>1 DEF HostFits, OneStarter, Starting, Counted, Told
  <2>5. RacedFits(u, "idle")
    BY <1>1, <1>2, <1>3, <2>1, <2>2
       DEF RacedFits, Starting, Stopping, Counted, UnracedAlone, UnracedStarts, HoldersServed, LifeTypes, Told
  <2>6. TaskFits(u, "idle")
    <3>1. /\ \A v \in Users \ {u} : hand'[v] = hand[v]
          /\ hand[u] \notin Unjoined /\ Unjoined \subseteq RecvTasks
      BY <1>1, <2>1, <2>2 DEF JoinedFirst, LifeTypes, Unjoined
    <3>2. ASSUME ~slipped', NEW t \in Unjoined
          PROVE  \E v \in Users \ {u} : user[v] = "stores" /\ hand[v] = t
      <4>1. ~slipped /\ host.task \in {None, hand[u]}
        BY <2>2, <3>2
      <4>2. host.task # t
        BY <3>1, <3>2, <4>1
      <4>3. PICK v \in Users : user[v] = "stores" /\ hand[v] = t
        BY <1>1, <3>2, <4>1, <4>2 DEF OneReceiver
      <4> QED BY <2>1, <4>3
    <3> QED BY <2>2, <3>1, <3>2 DEF TaskFits
  <2> QED BY <2>1, <2>3, <2>4, <2>5, <2>6, FittingStep
<1>4. CASE user[u] = "wipes"
  <2>1. Goes(u, "unretains") /\ "unretains" \in UserPcs /\ user[u] = "wipes"
    BY <1>4 DEF Clear, Moves, Back, UserPcs, Inside, Starting, Stopping
  <2>2. /\ host'.roles = host.roles /\ host'.running = host.running /\ host'.ready = host.ready
        /\ host'.async = host.async /\ host'.task = None /\ Unjoined' = Unjoined
        /\ recv' = recv /\ hand' = [hand EXCEPT ![u] = None] /\ slipped' = (slipped \/ host.task \notin {None, hand[u]})
        /\ raced' = raced
    BY <1>1, <1>4, <2>1 DEF Clear, Moves, Races, Back, LifeTypes, HostType, Unjoined, Stopping
  <2>3. LifeTypes'
    <3>2. host' \in HostType
      BY <1>1, <1>4, <2>1, <2>2 DEF Clear, LifeTypes, HostType, Handles
    <3>3. user' \in [Users -> UserPcs] /\ hand' \in [Users -> Handles]
      BY <1>1, <2>1, <2>2 DEF LifeTypes, HostType, Handles, Goes
    <3>4. recv' \in [live : SUBSET RecvTasks, ended : SUBSET RecvTasks] /\ raced' \subseteq Users /\ slipped' \in BOOLEAN
      BY <1>1, <2>2 DEF LifeTypes
    <3> QED BY <3>2, <3>3, <3>4 DEF LifeTypes
  <2>4. HostFits(u, "unretains")
    <3>1. In("unretains") = 1 /\ In(user[u]) = 1
      BY <2>1 DEF In, Starting
    <3> QED BY <1>1, <1>2, <1>4, <2>1, <2>2, <3>1 DEF HostFits, OneStarter, Starting, Counted, Told
  <2>5. RacedFits(u, "unretains")
    BY <1>1, <1>2, <1>4, <2>1, <2>2
       DEF RacedFits, Starting, Stopping, Counted, UnracedAlone, UnracedStarts, HoldersServed, LifeTypes, Told
  <2>6. TaskFits(u, "unretains")
    <3>1. /\ \A v \in Users \ {u} : hand'[v] = hand[v]
          /\ hand[u] \notin Unjoined /\ Unjoined \subseteq RecvTasks
      BY <1>1, <2>1, <2>2 DEF JoinedFirst, LifeTypes, Unjoined
    <3>2. ASSUME ~slipped', NEW t \in Unjoined
          PROVE  \E v \in Users \ {u} : user[v] = "stores" /\ hand[v] = t
      <4>1. ~slipped /\ host.task \in {None, hand[u]}
        BY <2>2, <3>2
      <4>2. host.task # t
        BY <3>1, <3>2, <4>1
      <4>3. PICK v \in Users : user[v] = "stores" /\ hand[v] = t
        BY <1>1, <3>2, <4>1, <4>2 DEF OneReceiver
      <4> QED BY <2>1, <4>3
    <3> QED BY <2>2, <3>1, <3>2 DEF TaskFits
  <2> QED BY <2>1, <2>3, <2>4, <2>5, <2>6, FittingStep
<1> QED BY <1>3, <1>4 DEF Clear

LEMMA ReceiveStep ==
    ASSUME LifeInv, NEW t \in RecvTasks, Receive(t)
    PROVE  LifeInv'
<1>1. /\ LifeTypes /\ OneStarter /\ JoinedFirst /\ HandleHasUser /\ UnracedAlone /\ UnracedStarts
      /\ RolesCounted /\ OneReceiver /\ HoldersServed
  BY DEF LifeInv
<1>2. /\ user' = user /\ hand' = hand /\ raced' = raced /\ slipped' = slipped
      /\ host'.roles = host.roles /\ host'.task = host.task /\ Unjoined' = Unjoined
      /\ recv' \in [live : SUBSET RecvTasks, ended : SUBSET RecvTasks]
  BY <1>1 DEF Receive, LifeTypes, HostType, Unjoined
<1>3. \/ ~host.running /\ host'.running = host.running /\ host'.async = host.async
      \/ host'.async = TRUE
  BY <1>1 DEF Receive, LifeTypes, HostType
<1>4. LifeTypes'
  <2>1. host' \in HostType
    BY <1>1 DEF Receive, LifeTypes, HostType
  <2> QED BY <1>1, <1>2, <2>1 DEF LifeTypes
<1>5. OneStarter' /\ JoinedFirst' /\ HandleHasUser' /\ OneReceiver'
  BY <1>1, <1>2 DEF OneStarter, JoinedFirst, HandleHasUser, OneReceiver
<1>6. UnracedAlone' /\ UnracedStarts' /\ HoldersServed'
  BY <1>1, <1>2, <1>3 DEF UnracedAlone, UnracedStarts, HoldersServed, Counted
<1>7. RolesCounted'
  <2>1. Holders' = Holders /\ (Nobody' <=> Nobody)
    BY <1>2 DEF Holders, Counted, Nobody
  <2> QED BY <1>1, <1>2, <2>1, RolesParts
<1> QED BY <1>4, <1>5, <1>6, <1>7 DEF LifeInv

LEMMA LifeStep ==
    ASSUME IsFiniteSet(Users), None \notin RecvTasks, LifeInv, [Next]_vars
    PROVE  LifeInv'
<1>1. CASE UNCHANGED vars
  BY <1>1 DEF vars, LifeInv, LifeTypes, OneStarter, JoinedFirst, HandleHasUser, UnracedAlone, UnracedStarts,
              RolesCounted, OneReceiver, HoldersServed, Unjoined, Counted
<1>2. CASE \E t \in RecvTasks : Receive(t)
  BY <1>2, ReceiveStep
<1>3. CASE \E u \in Users : \/ Retain(u) \/ Start(u) \/ Spawn(u) \/ StoreTask(u) \/ Commands(u) \/ Unretain(u)
                           \/ Release(u) \/ Stop(u) \/ Look(u) \/ Join(u) \/ Clear(u)
  BY <1>3, RetainStep, StartStep, SpawnStep, StoreStep, CommandsStep, UnretainStep, ReleaseStep, StopStep,
     LookStep, JoinStep, ClearStep
<1> QED BY <1>1, <1>2, <1>3 DEF Next

LEMMA LifeInvariant ==
    ASSUME IsFiniteSet(Users), None \notin RecvTasks
    PROVE  Spec => []LifeInv
<1>1. Init => LifeInv
  BY LifeStart
<1>2. LifeInv /\ [Next]_vars => LifeInv'
  BY LifeStep
<1> QED BY <1>1, <1>2, PTL DEF Spec

\* retain and release: active_roles counts the users that hold or start the host,
\* and when the last has gone there is no handle, and no receive task runs or waits
\* to be joined unless a stop cleared the handle of a task it did not join.
THEOREM RolesAreCounted == ASSUME IsFiniteSet(Users), None \notin RecvTasks PROVE Spec => []RolesCounted
BY LifeInvariant, PTL DEF LifeInv

\* start and stop: however the users retain and release the host, there is one
\* receive task at most and its handle is kept, in every failure of a start too,
\* until the one thing happens that loses it: the later of two stops that read one
\* handle clears the handle of a task started since.
THEOREM OneReceiverEver == ASSUME IsFiniteSet(Users), None \notin RecvTasks PROVE Spec => []OneReceiver
BY LifeInvariant, PTL DEF LifeInv

\* A user that did not retain in the middle of a start or a stop has a host whose
\* receive task runs and that is set up, or that holds the error which ended it,
\* late stops or not; and of two that join, one has raced.
THEOREM HoldersAreServed == ASSUME IsFiniteSet(Users), None \notin RecvTasks PROVE Spec => []HoldersServed
BY LifeInvariant, PTL DEF LifeInv
=============================================================================
