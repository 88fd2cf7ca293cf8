-------------------------------- MODULE EspTask --------------------------------
(* A task of the ESP32, esp/lib/grt/task/Native.zig over FreeRTOS tasks         *)
(* (std/thread/binding.c): spawn makes a command that holds a semaphore and a    *)
(* state, the task runs it, and the task or the owner of the handle, whichever  *)
(* comes last, destroys it.                                                    *)
EXTENDS Naturals

VARIABLES cmd,    \* the command: allocated, its semaphore, the semaphore's token, the state
          body,   \* where the task is
          owner,  \* where spawn, or the owner of the handle, is
          used    \* what used the command after it was destroyed
vars == <<cmd, body, owner, used>>

States == {"running_joinable", "running_detached", "finished_pending_join", "finished_detached"}
NoCommand == [heap |-> FALSE, sem |-> FALSE, done |-> 0, state |-> "running_joinable"]
TaskTypeOK == cmd.state \in States /\ cmd.done \in {0, 1}

Init == cmd = NoCommand /\ body = "none" /\ owner = "idle" /\ used = {}

\* a step of who that reads or writes the command
Uses(who) == used' = IF cmd.heap THEN used ELSE used \cup {who}

----------------------------------------------------------------------------
(* spawn.                                                                   *)
Spawn ==
    /\ owner = "idle" /\ body \in {"none", "gone"} /\ ~cmd.heap /\ UNCHANGED <<body, used>>
    /\ \/ UNCHANGED <<cmd, owner>>                                  \* OutOfMemory
       \/ cmd' = [NoCommand EXCEPT !.heap = TRUE] /\ owner' = "semaphore"

\* xSemaphoreCreateBinary; without it the command is freed again
MakeSemaphore ==
    /\ owner = "semaphore" /\ UNCHANGED <<body, used>>
    /\ \/ cmd' = [cmd EXCEPT !.sem = TRUE] /\ owner' = "create"
       \/ cmd' = [cmd EXCEPT !.heap = FALSE] /\ owner' = "idle"

\* mutant: the semaphore of a task that could not be created is forgotten
CreateLeaving ==
    /\ owner = "create" /\ UNCHANGED used
    /\ \/ body' = "runs" /\ owner' = "created" /\ UNCHANGED cmd
       \/ cmd' = [cmd EXCEPT !.heap = FALSE] /\ owner' = "idle" /\ UNCHANGED body

\* the task runs from here on; a task that cannot be created leaves nothing
Create ==
    /\ owner = "create" /\ UNCHANGED used
    /\ \/ body' = "runs" /\ owner' = "created" /\ UNCHANGED cmd
       \/ cmd' = NoCommand /\ owner' = "idle" /\ UNCHANGED body

\* the raw handle is stored after the task may have ended
Store == owner = "created" /\ owner' = "owns" /\ Uses("spawn") /\ UNCHANGED <<cmd, body>>

----------------------------------------------------------------------------
(* The owner joins or detaches, once.                                       *)
Join ==
    /\ owner = "owns" /\ cmd.done = 1 /\ owner' = "joined" /\ Uses("join")
    /\ cmd' = [cmd EXCEPT !.done = 0, !.state = "finished_detached"] /\ UNCHANGED body

Destroy == cmd' = [cmd EXCEPT !.heap = FALSE, !.sem = FALSE, !.done = 0]

DestroyJoined == owner = "joined" /\ owner' = "idle" /\ Uses("join") /\ Destroy /\ UNCHANGED body

\* mutant: a task that has finished is left to itself
DetachOnlyRunning ==
    /\ owner = "owns" /\ owner' = "idle" /\ Uses("detach") /\ UNCHANGED body
    /\ cmd' = [cmd EXCEPT !.state = IF @ = "running_joinable" THEN "running_detached" ELSE "finished_detached"]

\* mutant: a handle that is let go is a command that is freed
DetachFreeing ==
    /\ owner = "owns" /\ Uses("detach") /\ UNCHANGED body
    /\ cmd' = [cmd EXCEPT !.state = "finished_detached"] /\ owner' = "detaching"

Detach ==
    /\ owner = "owns" /\ Uses("detach") /\ UNCHANGED body
    /\ IF cmd.state = "running_joinable"
       THEN cmd' = [cmd EXCEPT !.state = "running_detached"] /\ owner' = "idle"
       ELSE cmd' = [cmd EXCEPT !.state = "finished_detached"] /\ owner' = "detaching"

DestroyDetached == owner = "detaching" /\ owner' = "idle" /\ Uses("detach") /\ Destroy /\ UNCHANGED body

----------------------------------------------------------------------------
(* entry and finish, in the task.                                           *)
Finish ==
    /\ body = "runs" /\ Uses("task") /\ UNCHANGED owner
    /\ IF cmd.state = "running_joinable"
       THEN cmd' = [cmd EXCEPT !.state = "finished_pending_join"] /\ body' = "gives"
       ELSE cmd' = [cmd EXCEPT !.state = "finished_detached"] /\ body' = "destroys"

\* it reads the semaphore's handle out of the command
Give ==
    /\ body = "gives" /\ body' = "ends" /\ Uses("give") /\ UNCHANGED owner
    /\ cmd' = IF cmd.heap THEN [cmd EXCEPT !.done = 1] ELSE cmd

DestroySelf == body = "destroys" /\ body' = "ends" /\ Uses("task") /\ Destroy /\ UNCHANGED owner

\* vTaskDeleteWithCaps frees the stack
DeleteTask == body = "ends" /\ body' = "gone" /\ UNCHANGED <<cmd, owner, used>>

Next == \/ Spawn \/ MakeSemaphore \/ Create \/ Store \/ Join \/ DestroyJoined \/ Detach
        \/ DestroyDetached \/ Finish \/ Give \/ DestroySelf \/ DeleteTask

Spec == Init /\ [][Next]_vars

----------------------------------------------------------------------------
\* Nobody uses a command that has been destroyed, but for the task that has set
\* finished_pending_join and is about to give the semaphore when its owner
\* detaches: detach destroys the command at once (line 104 against line 154).
CommandAlive == used \subseteq {"give"}

\* A command goes when the task has ended and its owner has let it go, and a
\* spawn that failed leaves none; its memory never goes before its semaphore.
CommandFreed ==
    /\ owner = "idle" /\ body \in {"none", "ends", "gone"} => ~cmd.heap /\ ~cmd.sem
    /\ cmd.sem => cmd.heap
=============================================================================
