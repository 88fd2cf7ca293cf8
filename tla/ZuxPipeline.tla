------------------------------ MODULE ZuxPipeline ------------------------------
(* The event pipeline of the application, embed/lib/zux/pipeline/Pipeline.zig:  *)
(* sources, pollers and a tick task inject messages into one bounded channel,   *)
(* a driver task takes them out; stop and wait take it all apart again. The     *)
(* channel is used through its promise (ChannelQueue): each call is one step.   *)
EXTENDS Naturals, FiniteSets

CONSTANTS Sources,   \* that are hooked on and call a receiver
          Pollers,   \* sources that are polled, each by a task of its own
          Capacity   \* of the inbox

VARIABLES pipe,     \* allocated, stopping, the inbox closed, whether a driver ever ran
          box,      \* messages in the inbox
          task,     \* where the driver, the tick task and the pollers' tasks are
          receiver, \* what became of each source's receiver
          source,   \* whether a source is inside its callback, holding its receiver
          owner,    \* where the task is that starts and stops the pipeline
          used      \* sources that used their receiver after it was freed
vars == <<pipe, box, task, receiver, source, owner, used>>

Workers == {"driver", "tick"} \cup Pollers
\* the steps of stop and of wait
Stopping == {"stores", "clears", "closes"}
Joining  == {"joins driver", "joins tick", "joins pollers"}

PipelineTypeOK ==
    /\ box \in 0..Capacity
    /\ task \in [Workers -> {"none", "runs", "holds", "gone"}]
    /\ receiver \in [Sources -> {"none", "set", "cleared", "freed"}]
    /\ owner.pc \in {"open", "ticks"} \cup Stopping \cup Joining

Init ==
    /\ pipe = [heap |-> TRUE, stopping |-> FALSE, closed |-> FALSE, drove |-> FALSE]
    /\ box = 0 /\ task = [t \in Workers |-> "none"]
    /\ receiver = [s \in Sources |-> "none"] /\ source = [s \in Sources |-> "quiet"]
    /\ owner = [pc |-> "open", start |-> FALSE] /\ used = {}

----------------------------------------------------------------------------
(* inject: a message the inbox does not take at once is freed.               *)
Inject == box' = IF pipe.closed \/ box = Capacity THEN box ELSE box + 1

Enter(s) ==
    /\ receiver[s] = "set" /\ source[s] = "quiet" /\ source' = [source EXCEPT ![s] = "calls"]
    /\ UNCHANGED <<pipe, box, task, receiver, owner, used>>

\* EventReceiver.emit, emitFn and inject
Emit(s) ==
    /\ source[s] \in {"calls", "late"} /\ source' = [source EXCEPT ![s] = "quiet"] /\ Inject
    /\ used' = IF receiver[s] = "freed" \/ ~pipe.heap THEN used \cup {<<s, source[s]>>} ELSE used
    /\ UNCHANGED <<pipe, task, receiver, owner>>

\* the tick task after its sleep, and a poller after its poll
Produce(t) ==
    /\ t # "driver" /\ task[t] = "runs" /\ UNCHANGED <<pipe, receiver, source, owner, used>>
    /\ \/ pipe.stopping /\ task' = [task EXCEPT ![t] = "gone"] /\ UNCHANGED box
       \/ ~pipe.stopping /\ task' = [task EXCEPT ![t] = "holds"] /\ UNCHANGED box

Produced(t) ==
    /\ t # "driver" /\ task[t] = "holds" /\ task' = [task EXCEPT ![t] = "runs"] /\ Inject
    /\ UNCHANGED <<pipe, receiver, source, owner, used>>

----------------------------------------------------------------------------
(* driveLoop: it goes on taking messages after stop, to free them.           *)
\* mutant: the driver ends as soon as it sees stopping
ReceiveUnlessStopping ==
    /\ task["driver"] = "runs" /\ UNCHANGED <<pipe, receiver, source, owner, used>>
    /\ \/ ~pipe.stopping /\ box > 0 /\ box' = box - 1 /\ task' = [task EXCEPT !["driver"] = "holds"]
       \/ pipe.stopping /\ task' = [task EXCEPT !["driver"] = "gone"] /\ UNCHANGED box

Receive ==
    /\ task["driver"] = "runs" /\ UNCHANGED <<pipe, receiver, source, owner, used>>
    /\ \/ box > 0 /\ box' = box - 1 /\ task' = [task EXCEPT !["driver"] = "holds"]
       \/ box = 0 /\ pipe.closed /\ task' = [task EXCEPT !["driver"] = "gone"] /\ UNCHANGED box

\* emitted or not, the message is freed
Handled ==
    /\ task["driver"] = "holds" /\ task' = [task EXCEPT !["driver"] = "runs"]
    /\ UNCHANGED <<pipe, box, receiver, source, owner, used>>

----------------------------------------------------------------------------
(* The owner.                                                               *)
Goes(pc) == owner' = [owner EXCEPT !.pc = pc]

\* it may come after stop: the next stop clears that receiver
HookOn(s) ==
    /\ owner.pc = "open" /\ pipe.heap /\ receiver[s] \in {"none", "freed"}
    /\ receiver' = [receiver EXCEPT ![s] = "set"]
    /\ UNCHANGED <<pipe, box, task, source, owner, used>>

\* it may come after stop, before wait
PollFrom(p) ==
    /\ owner.pc = "open" /\ pipe.heap /\ task[p] = "none" /\ task' = [task EXCEPT ![p] = "runs"]
    /\ UNCHANGED <<pipe, box, receiver, source, owner, used>>

\* the driver is made, or start fails without a trace
Start ==
    /\ owner.pc = "open" /\ pipe.heap /\ task["driver"] = "none" /\ task["tick"] = "none"
    /\ task' = [task EXCEPT !["driver"] = "runs"] /\ pipe' = [pipe EXCEPT !.drove = TRUE]
    /\ owner' = [pc |-> "ticks", start |-> TRUE] /\ UNCHANGED <<box, receiver, source, used>>

\* mutant: without the tick task the driver is joined, but the pipeline not stopped
StartTickBare ==
    /\ owner.pc = "ticks" /\ UNCHANGED <<pipe, box, receiver, source, used>>
    /\ \/ task' = [task EXCEPT !["tick"] = "runs"] /\ owner' = [pc |-> "open", start |-> FALSE]
       \/ Goes("joins driver") /\ UNCHANGED task

\* without it, start stops the pipeline and joins the driver
StartTick ==
    /\ owner.pc = "ticks" /\ UNCHANGED <<pipe, box, receiver, source, used>>
    /\ \/ task' = [task EXCEPT !["tick"] = "runs"] /\ owner' = [pc |-> "open", start |-> FALSE]
       \/ Goes("stores") /\ UNCHANGED task

Stop == owner.pc = "open" /\ pipe.heap /\ Goes("stores") /\ UNCHANGED <<pipe, box, task, receiver, source, used>>

StoreStopping ==
    /\ owner.pc = "stores" /\ pipe' = [pipe EXCEPT !.stopping = TRUE] /\ Goes("clears")
    /\ UNCHANGED <<box, task, receiver, source, used>>

\* the source forgets its receiver; one that is inside its callback holds it
Clear(s) ==
    /\ owner.pc = "clears" /\ receiver[s] = "set" /\ receiver' = [receiver EXCEPT ![s] = "cleared"]
    /\ source' = [source EXCEPT ![s] = IF @ = "calls" THEN "late" ELSE @]
    /\ UNCHANGED <<pipe, box, task, owner, used>>

\* mutant: the receiver is freed before the source forgets it
FreeFirst(s) ==
    /\ owner.pc = "clears" /\ receiver[s] \in {"set", "cleared"} /\ receiver' = [receiver EXCEPT ![s] = "freed"]
    /\ UNCHANGED <<pipe, box, task, source, owner, used>>

Free(s) ==
    /\ owner.pc = "clears" /\ receiver[s] = "cleared" /\ receiver' = [receiver EXCEPT ![s] = "freed"]
    /\ UNCHANGED <<pipe, box, task, source, owner, used>>

\* the pipeline was stopped by a start that failed: only its driver is joined
CloseInbox ==
    /\ owner.pc = "clears" /\ \A s \in Sources : receiver[s] \in {"none", "freed"}
    /\ pipe' = [pipe EXCEPT !.closed = TRUE] /\ Goes(IF owner.start THEN "joins driver" ELSE "open")
    /\ UNCHANGED <<box, task, receiver, source, used>>

Wait == owner.pc = "open" /\ pipe.heap /\ pipe.closed /\ Goes("joins driver")
        /\ UNCHANGED <<pipe, box, task, receiver, source, used>>

Joined(t) == task[t] \in {"none", "gone"}

JoinDriver ==
    /\ owner.pc = "joins driver" /\ Joined("driver") /\ task' = [task EXCEPT !["driver"] = "none"]
    /\ owner' = [pc |-> IF owner.start THEN "open" ELSE "joins tick", start |-> FALSE]
    /\ UNCHANGED <<pipe, box, receiver, source, used>>

\* mutant: a pipeline that is stopped is taken to have no ticks any more
JoinTickNot == owner.pc = "joins tick" /\ Goes("joins pollers") /\ UNCHANGED <<pipe, box, task, receiver, source, used>>

JoinTick ==
    /\ owner.pc = "joins tick" /\ Joined("tick") /\ task' = [task EXCEPT !["tick"] = "none"]
    /\ Goes("joins pollers") /\ UNCHANGED <<pipe, box, receiver, source, used>>

JoinPollers ==
    /\ owner.pc = "joins pollers" /\ \A p \in Pollers : Joined(p)
    /\ task' = [t \in Workers |-> IF t \in Pollers THEN "none" ELSE task[t]]
    /\ Goes("open") /\ UNCHANGED <<pipe, box, receiver, source, used>>

\* what it asserts, that wait took back every task and stop every receiver, is
\* what its callers see to
Deinit ==
    /\ owner.pc = "open" /\ pipe.heap /\ UNCHANGED <<box, task, receiver, source, owner, used>>
    /\ task["driver"] = "none" /\ \A p \in Pollers : task[p] = "none"
    /\ \A s \in Sources : receiver[s] \in {"none", "freed"}
    /\ pipe' = [pipe EXCEPT !.heap = FALSE]

Next == \/ Receive \/ Handled \/ Start \/ StartTick \/ Stop \/ StoreStopping \/ CloseInbox \/ Wait
        \/ JoinDriver \/ JoinTick \/ JoinPollers \/ Deinit
        \/ \E s \in Sources : Enter(s) \/ Emit(s) \/ HookOn(s) \/ Clear(s) \/ Free(s)
        \/ \E t \in Workers : Produce(t) \/ Produced(t)
        \/ \E p \in Pollers : PollFrom(p)

Spec == Init /\ [][Next]_vars

----------------------------------------------------------------------------
\* Nobody uses the pipeline or a receiver after it is gone, but for a source that
\* was inside its callback when stop cleared its receiver (line 245 frees it).
PipelineAlive ==
    /\ \A u \in used : u[2] = "late"
    /\ ~pipe.heap => \A t \in Workers : task[t] = "none"

\* Every message is freed: the driver leaves an empty inbox that takes no more,
\* and only a pipeline that never had a driver is destroyed with messages in it.
InboxDrained ==
    /\ task["driver"] = "gone" => box = 0 /\ pipe.closed
    /\ ~pipe.heap /\ pipe.drove => box = 0

\* Who joins a task of the pipeline joins one that has been told to end, and that
\* has nothing to sleep for.
JoinsEnd == owner.pc \in Joining => pipe.stopping /\ pipe.closed
=============================================================================
