------------------------- MODULE ContextTreeProofs -------------------------
(***************************************************************************)
(* Theorems about ContextTree, for every set of threads and nodes, every   *)
(* assignment of kinds and deadlines and both lock policies.               *)
(***************************************************************************)
EXTENDS ContextTree, SequenceTheorems, TLAPS, FiniteSetTheorems

(***************************************************************************)
(* Frames and stacks of frames.                                            *)
(***************************************************************************)
\* The head of a stack of frames is a frame, its tail a stack of frames.
LEMMA TopFrame ==
    ASSUME Types, NEW a \in Actors, code[a] # <<>>
    PROVE  /\ Top(a) \in Frame
           /\ Rest(a) \in Seq(Frame)
           /\ code \in [Actors -> Seq(Frame)]
  BY DEF Types, Top, Rest

\* A frame by its operation: which node and which argument it carries.
LEMMA FrameFields ==
    ASSUME NEW f \in Frame
    PROVE  /\ f.node \in Parents
           /\ f.op # "err" => f.node \in Nodes
           /\ f.op \in {"mark", "fire", "kids"} => f.arg \in Causes /\ f.todo \subseteq Nodes
           /\ f.op = "attach" => f.arg \in Parents
  BY DEF Frame, PlainOps, Parents

\* The frames of the operations that carry neither a cause nor a parent.
LEMMA PlainFrame ==
    ASSUME NEW n \in Nodes, NEW op \in PlainOps
    PROVE  F(op, n) \in Frame
  BY DEF F, Frame, PlainOps

\* A step that carries a cause is a frame.
LEMMA CauseFrame ==
    ASSUME NEW n \in Nodes, NEW c \in Causes, NEW op \in {"mark", "fire"}
    PROVE  FA(op, n, c) \in Frame
  BY DEF FA, Frame

\* What markCanceled, the propagation to a child and the recording of a first
\* cause leave to do are stacks of frames.
LEMMA WalkFrames ==
    ASSUME NEW n \in Nodes, NEW c \in Causes
    PROVE  /\ MarkCanceled(n, c) \in Seq(Frame)
           /\ Propagate(n, c) \in Seq(Frame)
           /\ AfterMark(n, c) \in Seq(Frame)
<1>1. /\ F("share", n) \in Frame
      /\ F("unshare", n) \in Frame
      /\ F("stop", n) \in Frame
      /\ F("broadcast", n) \in Frame
  BY PlainFrame DEF PlainOps, FrameOps, ExclusiveOps, TimerOps
<1>2. FA("mark", n, c) \in Frame /\ FA("fire", n, c) \in Frame
  BY CauseFrame
<1>3. KindOf[n] \in {"cancel", "deadline", "value"}
  BY ContextAssumption
<1> QED
  BY <1>1, <1>2, <1>3 DEF MarkCanceled, Propagate, AfterMark

\* Replacing the head of one actor's stack by frames keeps every stack typed.
LEMMA ContinueTyped ==
    ASSUME Types, NEW a \in Actors, code[a] # <<>>,
           NEW fs \in Seq(Frame), Continue(a, fs)
    PROVE  code' \in [Actors -> Seq(Frame)]
<1>1. Rest(a) \in Seq(Frame) /\ code \in [Actors -> Seq(Frame)]
  BY TopFrame
<1>2. fs \o Rest(a) \in Seq(Frame)
  BY <1>1
<1> QED
  BY <1>1, <1>2 DEF Continue

\* No frames at all are a stack.
LEMMA EmptyTyped == <<>> \in Seq(Frame)
  OBVIOUS


(***************************************************************************)
(* Every action keeps the types: first the actions that only move the      *)
(* actor's own stack, then those that change nodes, then the clients'.     *)
(***************************************************************************)
LEMMA LockingTyped ==
    ASSUME Types, NEW a \in Actors, Locking(a)
    PROVE  Types'
<1>1. CASE RequestExclusive(a)
  BY <1>1 DEF RequestExclusive, Types, nodeVars, lockVars, timerVars, clientVars
<1>2. CASE Share(a)
  <2>1. code' \in [Actors -> Seq(Frame)]
    BY <1>2, ContinueTyped, EmptyTyped DEF Share, At
  <2>2. shares' \in [Actors -> Int]
    BY <1>2 DEF Share, Types
  <2> QED
    BY <1>2, <2>1, <2>2 DEF Share, Types, nodeVars, timerVars, clientVars
<1>3. CASE Unshare(a)
  <2>1. code' \in [Actors -> Seq(Frame)]
    BY <1>3, ContinueTyped, EmptyTyped DEF Unshare, At
  <2>2. shares' \in [Actors -> Int]
    BY <1>3 DEF Unshare, Types
  <2>3. UNCHANGED nodeVars /\ reg' = reg /\ asleep' = asleep /\ writers' = writers
        /\ UNCHANGED timerVars /\ UNCHANGED clientVars
    BY <1>3 DEF Unshare
  <2> QED
    BY <2>1, <2>2, <2>3 DEF Types, nodeVars, timerVars, clientVars
<1> QED
  BY <1>1, <1>2, <1>3 DEF Locking

\* The steps of a cancellation walk keep the types.
LEMMA WalkTyped ==
    ASSUME Types, NEW a \in Actors, Walk(a)
    PROVE  Types'
<1>1. CASE Mark(a)
  <2>1. /\ Top(a).node \in Nodes
        /\ Top(a).arg \in Causes
    BY <1>1, TopFrame, FrameFields DEF Mark, At, Top
  <2>2. code' \in [Actors -> Seq(Frame)]
    BY <1>1, <2>1, ContinueTyped, EmptyTyped, WalkFrames DEF Mark, At
  <2>3. cause' \in [Nodes -> Causes \cup {None}]
    <3>1. cause' = cause \/ cause' = [cause EXCEPT ![Top(a).node] = Top(a).arg]
      BY <1>1 DEF Mark
    <3>2. cause \in [Nodes -> Causes \cup {None}]
      BY DEF Types
    <3> QED
      BY <2>1, <3>1, <3>2
  <2>4. UNCHANGED <<lockVars, timerVars, clientVars, state, parent, children, binding, fired, reg,
                   asleep>>
    BY <1>1 DEF Mark
  <2> QED
    BY <2>2, <2>3, <2>4, ZenonT(60) DEF Types, lockVars, timerVars, clientVars
<1>2. CASE Broadcast(a)
  <2>1. code' \in [Actors -> Seq(Frame)]
    BY <1>2, ContinueTyped, EmptyTyped DEF Broadcast, At
  <2> QED
    BY <1>2, <2>1 DEF Broadcast, Types, nodeVars, lockVars, timerVars, clientVars
<1>3. CASE Fire(a)
  <2> DEFINE n == Top(a).node
  <2>1. /\ n \in Nodes
        /\ Top(a).arg \in Causes
    BY <1>3, TopFrame, FrameFields DEF Fire, At, Top
  <2>2. children[n] \subseteq Nodes
    BY <2>1 DEF Types, Parents
  <2>3. Kids(n, Top(a).arg, children[n]) \in Frame
    BY <2>1, <2>2 DEF Kids, Frame
  <2>4. code' \in [Actors -> Seq(Frame)]
    <3>1. <<Kids(n, Top(a).arg, children[n])>> \in Seq(Frame)
      BY <2>3
    <3> QED
      BY <1>3, <3>1, ContinueTyped DEF Fire, At
  <2>5. fired' \in [Nodes -> Nat]
    BY <1>3, <2>1 DEF Fire, Types
  <2> QED
    BY <1>3, <2>4, <2>5 DEF Fire, Types, lockVars, timerVars, clientVars
<1>4. CASE NextKid(a)
  <2>1. /\ Top(a).node \in Nodes
        /\ Top(a).arg \in Causes
        /\ Top(a).todo \subseteq Nodes
    BY <1>4, TopFrame, FrameFields DEF NextKid, At, Top
  <2>2. code' \in [Actors -> Seq(Frame)]
    <3>1. CASE Continue(a, <<>>)
      BY <1>4, <3>1, ContinueTyped, EmptyTyped DEF NextKid, At
    <3>2. ASSUME NEW m \in Top(a).todo,
                 Continue(a, Propagate(m, Top(a).arg)
                             \o <<Kids(Top(a).node, Top(a).arg, Top(a).todo \ {m})>>)
          PROVE  code' \in [Actors -> Seq(Frame)]
      <4>1. Kids(Top(a).node, Top(a).arg, Top(a).todo \ {m}) \in Frame
        BY <2>1 DEF Kids, Frame
      <4>2. Propagate(m, Top(a).arg) \in Seq(Frame)
        BY <2>1, WalkFrames
      <4>3. Propagate(m, Top(a).arg)
              \o <<Kids(Top(a).node, Top(a).arg, Top(a).todo \ {m})>> \in Seq(Frame)
        BY <4>1, <4>2
      <4> QED
        BY <1>4, <3>2, <4>3, ContinueTyped DEF NextKid, At
    <3> QED
      BY <1>4, <3>1, <3>2 DEF NextKid
  <2> QED
    BY <1>4, <2>2 DEF NextKid, Types, nodeVars, lockVars, timerVars, clientVars
<1>5. CASE Stop(a)
  <2>1. code' \in [Actors -> Seq(Frame)]
    BY <1>5, ContinueTyped, EmptyTyped DEF Stop, At
  <2> QED
    BY <1>5, <2>1 DEF Stop, Signal, Types, nodeVars, lockVars, clientVars
<1> QED
  BY <1>1, <1>2, <1>3, <1>4, <1>5 DEF Walk

\* The cause a chain of value nodes answers with is a cause of some node.
LEMMA ErrNoLockTyped ==
    ASSUME Types, NEW n
    PROVE  ErrNoLock(n) \in Causes \cup {None}
<1> DEFINE found == {cause[m] : m \in Asked(n)} \ {None}
<1>1. Asked(n) \subseteq Nodes
  BY DEF Asked, Chain
<1>2. cause \in [Nodes -> Causes \cup {None}]
  BY DEF Types
<1>3. found \subseteq Causes
  BY <1>1, <1>2
<1> QED
  BY <1>3 DEF ErrNoLock

\* The steps of a query keep the types.
LEMMA AsksTyped ==
    ASSUME Types, NEW a \in Actors, Asks(a)
    PROVE  Types'
<1>1. CASE Err(a)
  <2> DEFINE n == Top(a).node
  <2>1. n \in Parents
    BY <1>1, TopFrame, FrameFields DEF Err, At, Top
  <2>2. /\ code' \in [Actors -> Seq(Frame)]
        /\ reg' \in [Actors -> Causes \cup {None}]
    <3>1. CASE reg' = [reg EXCEPT ![a] = None] /\ Continue(a, <<>>)
      BY <1>1, <3>1, ContinueTyped, EmptyTyped DEF Err, At, Types
    <3>2. CASE n \in Nodes /\ reg' = [reg EXCEPT ![a] = cause[n]] /\ Continue(a, <<>>)
      BY <1>1, <3>2, ContinueTyped, EmptyTyped DEF Err, At, Types
    <3>3. CASE reg' = [reg EXCEPT ![a] = ErrNoLock(n)] /\ Continue(a, <<>>)
      BY <1>1, <3>3, ContinueTyped, EmptyTyped, ErrNoLockTyped DEF Err, At, Types
    <3>4. CASE /\ n \in Nodes /\ parent[n] # None
               /\ Continue(a, <<F("err", parent[n]), F("inherit", n)>>) /\ UNCHANGED reg
      <4>1. parent[n] \in Parents
        BY <3>4 DEF Types
      <4>2. F("err", parent[n]) \in Frame /\ F("inherit", n) \in Frame
        BY <3>4, <4>1, PlainFrame DEF F, Frame, PlainOps, FrameOps, ExclusiveOps, TimerOps
      <4>3. <<F("err", parent[n]), F("inherit", n)>> \in Seq(Frame)
        BY <4>2
      <4>4. code' \in [Actors -> Seq(Frame)]
        BY <1>1, <3>4, <4>3, ContinueTyped DEF Err, At
      <4> QED
        BY <3>4, <4>4 DEF Types
    <3>5. CASE /\ n \in Nodes
               /\ reg' = [reg EXCEPT ![a] = DeadlineExceeded]
               /\ Continue(a, MarkCanceled(n, DeadlineExceeded))
      <4>1. DeadlineExceeded \in Causes
        BY DEF Causes
      <4> QED
        BY <1>1, <3>5, <4>1, ContinueTyped, WalkFrames DEF Err, At, Types
    <3> QED
      BY <1>1, <3>1, <3>2, <3>3, <3>4, <3>5 DEF Err
  <2> QED
    BY <1>1, <2>2 DEF Err, Types, nodeVars, lockVars, timerVars, clientVars
<1>2. CASE Inherit(a)
  <2>1. Top(a).node \in Nodes
    BY <1>2, TopFrame, FrameFields DEF Inherit, At, Top
  <2>2. reg[a] = None \/ reg[a] \in Causes
    BY DEF Types
  <2>3. code' \in [Actors -> Seq(Frame)]
    BY <1>2, <2>1, <2>2, ContinueTyped, EmptyTyped, WalkFrames DEF Inherit, At
  <2> QED
    BY <1>2, <2>3 DEF Inherit, Types, nodeVars, lockVars, timerVars, clientVars
<1>3. CASE Return(a)
  <2>1. code' \in [Actors -> Seq(Frame)]
    BY <1>3, ContinueTyped, EmptyTyped DEF Return, At
  <2> QED
    BY <1>3, <2>1 DEF Return, Types, nodeVars, lockVars, timerVars, clientVars
<1> QED
  BY <1>1, <1>2, <1>3 DEF Asks

\* The steps that create a node keep the types.
LEMMA CreatingTyped ==
    ASSUME Types, NEW a \in Actors, Creating(a)
    PROVE  Types'
<1>1. CASE Attach(a)
  <2>1. Top(a).node \in Nodes /\ Top(a).arg \in Parents
    BY <1>1, TopFrame, FrameFields DEF Attach, Exclusive, At, Top
  <2>2. code' \in [Actors -> Seq(Frame)]
    <3>1. F("err", Top(a).arg) \in Frame /\ F("adopt", Top(a).node) \in Frame
      BY <2>1, PlainFrame DEF F, Frame, PlainOps, FrameOps, ExclusiveOps, TimerOps
    <3>2. <<F("err", Top(a).arg), F("adopt", Top(a).node)>> \in Seq(Frame)
      BY <3>1
    <3> QED
      BY <1>1, <3>2, ContinueTyped DEF Attach, Exclusive, At
  <2>3. parent' \in [Nodes -> Parents \cup {None}]
    BY <1>1, <2>1 DEF Attach, Types
  <2>4. children' \in [Parents -> SUBSET Nodes]
    BY <1>1, <2>1 DEF Attach, Types
  <2>5. tgen' \in [Nodes -> Nat]
    BY <1>1, <2>1 DEF Attach, Types
  <2> QED
    BY <1>1, <2>2, <2>3, <2>4, <2>5 DEF Attach, Exclusive, Types, clientVars
<1>2. CASE Adopt(a)
  <2>1. Top(a).node \in Nodes
    BY <1>2, TopFrame, FrameFields DEF Adopt, At, Top
  <2>2. reg[a] = None \/ reg[a] \in Causes
    BY DEF Types
  <2>3. F("arm", Top(a).node) \in Frame /\ F("ready", Top(a).node) \in Frame
    BY <2>1, PlainFrame DEF PlainOps, FrameOps, ExclusiveOps, TimerOps
  <2>4. Settle(Top(a).node, reg[a]) \in Seq(Frame)
    BY <2>1, <2>2, <2>3, EmptyTyped, WalkFrames DEF Settle
  <2>5. Settle(Top(a).node, reg[a]) \o <<F("ready", Top(a).node)>> \in Seq(Frame)
    BY <2>3, <2>4
  <2>6. code' \in [Actors -> Seq(Frame)]
    BY <1>2, <2>5, ContinueTyped DEF Adopt, At
  <2> QED
    BY <1>2, <2>6 DEF Adopt, Types, nodeVars, lockVars, timerVars, clientVars
<1>3. CASE Arm(a)
  <2> DEFINE n == Top(a).node
  <2>1. n \in Nodes /\ Rest(a) \in Seq(Frame) /\ code \in [Actors -> Seq(Frame)]
    BY <1>3, TopFrame, FrameFields DEF Arm, At, Top
  <2>2. code' \in [Actors -> Seq(Frame)]
    <3>1. /\ MarkCanceled(n, DeadlineExceeded) \in Seq(Frame)
          /\ MarkCanceled(n, SpawnError) \in Seq(Frame)
      BY <2>1, WalkFrames DEF Causes
    <3>2. <<F("tTop", n)>> \in Seq(Frame)
      BY <2>1, PlainFrame DEF PlainOps, FrameOps, ExclusiveOps, TimerOps
    <3>3. CASE code' = [code EXCEPT ![a] = Rest(a), ![n] = <<F("tTop", n)>>]
      BY <2>1, <3>2, <3>3
    <3>4. CASE Continue(a, <<>>) \/ Continue(a, MarkCanceled(n, DeadlineExceeded))
                \/ Continue(a, MarkCanceled(n, SpawnError))
      BY <1>3, <3>1, <3>4, ContinueTyped, EmptyTyped DEF Arm, At
    <3> QED
      BY <1>3, <3>3, <3>4 DEF Arm
  <2> QED
    BY <1>3, <2>2 DEF Arm, Types, nodeVars, lockVars, timerVars, clientVars
<1>4. CASE Ready(a)
  <2>1. Top(a).node \in Nodes
    BY <1>4, TopFrame, FrameFields DEF Ready, At, Top
  <2>2. code' \in [Actors -> Seq(Frame)]
    BY <1>4, ContinueTyped, EmptyTyped DEF Ready, At
  <2>3. state' \in [Nodes -> {"fresh", "init", "live", "closing", "detached", "freed"}]
    BY <1>4, <2>1 DEF Ready, Types
  <2> QED
    BY <1>4, <2>2, <2>3 DEF Ready, Types, lockVars, timerVars, clientVars
<1> QED
  BY <1>1, <1>2, <1>3, <1>4 DEF Creating

\* The steps that bind, join or free a node keep the types.
LEMMA LinksTyped ==
    ASSUME Types, NEW a \in Actors, Links(a)
    PROVE  Types'
<1>1. CASE Bind(a)
  <2>1. code' \in [Actors -> Seq(Frame)]
    BY <1>1, ContinueTyped, EmptyTyped DEF Bind, Exclusive, At
  <2>2. binding' \in [Nodes -> BOOLEAN] /\ fired' \in [Nodes -> Nat]
    <3> DEFINE n == Top(a).node
    <3>1. CASE UNCHANGED <<binding, fired>>
      BY <3>1 DEF Types
    <3>2. CASE /\ binding' = [binding EXCEPT ![n] = TRUE]
               /\ fired' = [fired EXCEPT ![n] = 0]
      <4>1. binding' \in [Nodes -> BOOLEAN]
        BY <3>2 DEF Types
      <4>2. fired' \in [Nodes -> Nat]
        BY <3>2 DEF Types
      <4> QED
        BY <4>1, <4>2
    <3> QED
      BY <1>1, <3>1, <3>2 DEF Bind
  <2> QED
    BY <1>1, <2>1, <2>2 DEF Bind, Exclusive, Types, timerVars, clientVars
<1>2. CASE Unbind(a)
  <2>1. code' \in [Actors -> Seq(Frame)]
    BY <1>2, ContinueTyped, EmptyTyped DEF Unbind, Exclusive, At
  <2>2. binding' \in [Nodes -> BOOLEAN]
    BY <1>2 DEF Unbind, Types
  <2> QED
    BY <1>2, <2>1, <2>2 DEF Unbind, Exclusive, Types, timerVars, clientVars
<1>3. CASE Join(a)
  <2>1. code' \in [Actors -> Seq(Frame)]
    BY <1>3, ContinueTyped, EmptyTyped DEF Join, At
  <2> QED
    BY <1>3, <2>1 DEF Join, Types, nodeVars, lockVars, timerVars, clientVars
<1>4. CASE Detach(a)
  <2> DEFINE n == Top(a).node
             p == parent[n]
             kids == children[n]
  <2>1. n \in Nodes
    BY <1>4, TopFrame, FrameFields DEF Detach, Exclusive, At, Top
  <2>2. p \in Parents \cup {None} /\ kids \subseteq Nodes
    BY <2>1 DEF Types, Parents
  <2>3. code' \in [Actors -> Seq(Frame)]
    <3>1. <<F("free", n)>> \in Seq(Frame)
      BY <2>1, PlainFrame DEF PlainOps, FrameOps, ExclusiveOps, TimerOps
    <3> QED
      BY <1>4, <3>1, ContinueTyped DEF Detach, Exclusive, At
  <2>4. children' \in [Parents -> SUBSET Nodes]
    BY <1>4, <2>2 DEF Detach, Types
  <2>5. parent' \in [Nodes -> Parents \cup {None}]
    BY <1>4, <2>2 DEF Detach, Types
  <2>6. tgen' \in [Nodes -> Nat]
    BY <1>4 DEF Detach, Types
  <2>7. state' \in [Nodes -> {"fresh", "init", "live", "closing", "detached", "freed"}]
    BY <1>4 DEF Detach, Types
  <2>8. asleep' \subseteq Actors
    BY <1>4 DEF Detach, Signal, Types
  <2> QED
    BY <1>4, <2>3, <2>4, <2>5, <2>6, <2>7, <2>8 DEF Detach, Exclusive, Types, clientVars
<1>5. CASE Free(a)
  <2>1. code' \in [Actors -> Seq(Frame)]
    BY <1>5, ContinueTyped, EmptyTyped DEF Free, At
  <2>2. state' \in [Nodes -> {"fresh", "init", "live", "closing", "detached", "freed"}]
    BY <1>5 DEF Free, Types
  <2> QED
    BY <1>5, <2>1, <2>2 DEF Free, Types, lockVars, timerVars, clientVars
<1> QED
  BY <1>1, <1>2, <1>3, <1>4, <1>5 DEF Links

\* A waiter that starts or ends its wait keeps the types.
LEMMA WaitTyped ==
    ASSUME Types, NEW a \in Actors, Wait(a) \/ WaitTimeout(a)
    PROVE  Types'
<1>1. code' \in [Actors -> Seq(Frame)]
  BY ContinueTyped, EmptyTyped DEF Wait, WaitTimeout, At, Sleeping, Types
<1>2. asleep' \subseteq Actors
  BY DEF Wait, WaitTimeout, Types
<1> QED
  BY <1>1, <1>2 DEF Wait, WaitTimeout, Types, nodeVars, lockVars, timerVars, clientVars

\* A timer task's steps keep the types.
LEMMA TimerTyped ==
    ASSUME Types, NEW n \in Nodes, Timer(n)
    PROVE  Types'
<1>1. /\ <<F("tTop", n)>> \in Seq(Frame)
      /\ <<F("tEffective", n)>> \in Seq(Frame)
      /\ <<F("tCheck", n)>> \in Seq(Frame)
      /\ <<F("tExpire", n)>> \in Seq(Frame)
      /\ <<F("tWait", n)>> \in Seq(Frame)
      /\ <<>> \in Seq(Frame)
      /\ MarkCanceled(n, DeadlineExceeded) \in Seq(Frame)
  BY PlainFrame, WalkFrames DEF PlainOps, FrameOps, ExclusiveOps, TimerOps, Causes
<1>2. ASSUME NEW fs \in Seq(Frame), Become(n, fs)
      PROVE  code' \in [Actors -> Seq(Frame)]
  BY <1>2 DEF Become, Types
<1>3. CASE TimerTop(n)
  <2>1. code' \in [Actors -> Seq(Frame)]
    BY <1>1, <1>2, <1>3 DEF TimerTop
  <2>2. tgen[n] \in Nat
    BY DEF Types
  <2>3. tlocal' \in [Nodes -> [gen : Nat, at : SUBSET Nat]]
    BY <1>3, <2>2 DEF TimerTop, Types
  <2> QED
    BY <1>3, <2>1, <2>3 DEF TimerTop, Types, nodeVars, lockVars, clientVars
<1>4. CASE TimerEffective(n)
  <2>1. code' \in [Actors -> Seq(Frame)]
    BY <1>1, <1>2, <1>4 DEF TimerEffective
  <2>2. Deadlines(n) \subseteq Nat
    BY ContextAssumption DEF Deadlines, UpFrom, Chain
  <2>3. tlocal' \in [Nodes -> [gen : Nat, at : SUBSET Nat]]
    <3> DEFINE d == IF Expired(n) THEN {} ELSE Deadlines(n)
    <3>1. d \in SUBSET Nat
      BY <2>2
    <3>2. tlocal' = [tlocal EXCEPT ![n].at = d]
      BY <1>4 DEF TimerEffective
    <3>3. tlocal \in [Nodes -> [gen : Nat, at : SUBSET Nat]]
      BY DEF Types
    <3> HIDE DEF d
    <3> QED
      BY <3>1, <3>2, <3>3
  <2> QED
    <3>1. UNCHANGED nodeVars /\ reg' = reg /\ asleep' = asleep /\ UNCHANGED lockVars
          /\ tcanceled' = tcanceled /\ tgen' = tgen /\ UNCHANGED clientVars
      BY <1>4 DEF TimerEffective
    <3> QED
      BY <2>1, <2>3, <3>1 DEF Types, nodeVars, lockVars, clientVars
<1>5. CASE TimerCheck(n)
  <2>1. code' \in [Actors -> Seq(Frame)]
    BY <1>1, <1>2, <1>5 DEF TimerCheck
  <2>2. asleep' \subseteq Actors
    BY <1>5 DEF TimerCheck, Types, Actors
  <2> QED
    BY <1>5, <2>1, <2>2 DEF TimerCheck, Types, nodeVars, lockVars, timerVars, clientVars
<1>6. CASE TimerTimeout(n)
  BY <1>6 DEF TimerTimeout, Types, nodeVars, lockVars, timerVars, clientVars
<1>7. CASE TimerWake(n)
  <2>1. code' \in [Actors -> Seq(Frame)]
    BY <1>1, <1>2, <1>7 DEF TimerWake
  <2> QED
    BY <1>7, <2>1 DEF TimerWake, Types, nodeVars, lockVars, timerVars, clientVars
<1>8. CASE TimerExpire(n)
  <2>1. code' \in [Actors -> Seq(Frame)]
    BY <1>1, <1>2, <1>8 DEF TimerExpire
  <2> QED
    BY <1>8, <2>1 DEF TimerExpire, Types, nodeVars, lockVars, timerVars, clientVars
<1> QED
  BY <1>3, <1>4, <1>5, <1>6, <1>7, <1>8 DEF Timer

\* A call starts with a stack of frames and borrows nodes.
LEMMA BeginTyped ==
    ASSUME Types, NEW t \in Threads, NEW call, NEW handles \in SUBSET Nodes,
           NEW frames \in Seq(Frame), Begin(t, call, handles, frames),
           state' \in [Nodes -> {"fresh", "init", "live", "closing", "detached", "freed"}]
    PROVE  Types'
<1>1. code' \in [Actors -> Seq(Frame)]
  BY DEF Begin, Types, Actors
<1>2. uses' \in [Threads -> SUBSET Nodes]
  BY DEF Begin, Types
<1> QED
  BY <1>1, <1>2 DEF Begin, Types, lockVars, timerVars

\* A call a client makes keeps the types.
LEMMA CallTyped ==
    ASSUME Types, NEW t \in Threads, Call(t)
    PROVE  Types'
<1> DEFINE States == {"fresh", "init", "live", "closing", "detached", "freed"}
<1>1. \A n \in Nodes, op \in PlainOps : <<F(op, n)>> \in Seq(Frame)
  BY PlainFrame
<1>2. state \in [Nodes -> States]
  BY DEF Types
<1>3. CASE New(t)
  <2>1. PICK n \in Nodes, p \in Parents :
            /\ Begin(t, "new", {n, p} \cap Nodes, <<FA("attach", n, p)>>)
            /\ state' = [state EXCEPT ![n] = "init"]
    BY <1>3 DEF New, Parents
  <2>2. <<FA("attach", n, p)>> \in Seq(Frame)
    BY DEF FA, Frame
  <2>3. state' \in [Nodes -> States]
    BY <1>2, <2>1
  <2> QED
    BY <2>1, <2>2, <2>3, BeginTyped
<1>4. CASE Cancel(t)
  <2>1. PICK n \in Nodes, c \in UserCauses \cup {Canceled} :
            /\ Begin(t, "cancel", {n},
                     (IF KindOf[n] = "deadline" THEN <<F("stop", n)>> ELSE <<>>)
                         \o MarkCanceled(n, c))
            /\ UNCHANGED state
    BY <1>4 DEF Cancel
  <2>2. MarkCanceled(n, c) \in Seq(Frame)
    BY WalkFrames DEF Causes
  <2>3. (IF KindOf[n] = "deadline" THEN <<F("stop", n)>> ELSE <<>>) \in Seq(Frame)
    BY <1>1 DEF PlainOps, FrameOps, ExclusiveOps, TimerOps
  <2>4. (IF KindOf[n] = "deadline" THEN <<F("stop", n)>> ELSE <<>>)
            \o MarkCanceled(n, c) \in Seq(Frame)
    BY <2>2, <2>3
  <2> QED
    BY <1>2, <2>1, <2>4, BeginTyped
<1>5. CASE Query(t)
  <2>1. PICK n \in Nodes :
            /\ Begin(t, "err", {n}, <<F("err", n), F("return", n)>>)
            /\ UNCHANGED state
    BY <1>5 DEF Query
  <2>2. F("err", n) \in Frame /\ F("return", n) \in Frame
    BY PlainFrame DEF F, Frame, PlainOps, FrameOps, ExclusiveOps, TimerOps, Parents
  <2>3. <<F("err", n), F("return", n)>> \in Seq(Frame)
    BY <2>2
  <2> QED
    BY <1>2, <2>1, <2>3, BeginTyped
<1>6. CASE Await(t)
  <2>1. PICK n \in Nodes, op \in {"wait", "waitT"} :
            Begin(t, op, {n}, <<F(op, n)>>) /\ UNCHANGED state
    BY <1>6 DEF Await
  <2>2. <<F(op, n)>> \in Seq(Frame)
    BY <1>1 DEF PlainOps, FrameOps, ExclusiveOps, TimerOps
  <2> QED
    BY <1>2, <2>1, <2>2, BeginTyped
<1>7. CASE BindLink(t)
  <2>1. PICK n \in Nodes, op \in {"bind", "unbind"} :
            Begin(t, op, {n}, <<F(op, n)>>) /\ UNCHANGED state
    BY <1>7 DEF BindLink
  <2>2. <<F(op, n)>> \in Seq(Frame)
    BY <1>1 DEF PlainOps, FrameOps, ExclusiveOps, TimerOps
  <2> QED
    BY <1>2, <2>1, <2>2, BeginTyped
<1>8. CASE Deinit(t)
  <2> DEFINE timed(n) == IF KindOf[n] = "deadline" THEN <<F("stop", n), F("join", n)>> ELSE <<>>
  <2>1. PICK n \in Nodes :
            /\ Begin(t, "deinit", {n}, <<F("unbind", n)>> \o timed(n) \o <<F("detach", n)>>)
            /\ state' = [state EXCEPT ![n] = "closing"]
    BY <1>8 DEF Deinit
  <2>2. /\ F("stop", n) \in Frame
        /\ F("join", n) \in Frame
        /\ F("detach", n) \in Frame
        /\ F("unbind", n) \in Frame
    BY PlainFrame DEF PlainOps, FrameOps, ExclusiveOps, TimerOps
  <2>3. timed(n) \in Seq(Frame)
    BY <2>2
  <2>4. <<F("detach", n)>> \in Seq(Frame) /\ <<F("unbind", n)>> \in Seq(Frame)
    BY <2>2
  <2>5. <<F("unbind", n)>> \o timed(n) \o <<F("detach", n)>> \in Seq(Frame)
    BY <2>3, <2>4
  <2>6. state' \in [Nodes -> States]
    BY <1>2, <2>1
  <2> QED
    BY <2>1, <2>5, <2>6, BeginTyped
<1> QED
  BY <1>3, <1>4, <1>5, <1>6, <1>7, <1>8 DEF Call

(***************************************************************************)
(* The theorems.                                                           *)
(***************************************************************************)
LEMMA InitTyped == Init => Types
<1> SUFFICES ASSUME Init PROVE Types
  OBVIOUS
<1>1. code \in [Actors -> Seq(Frame)]
  <2>1. \A n \in Nodes : <<F("tTop", n)>> \in Seq(Frame)
    BY PlainFrame DEF PlainOps, FrameOps, ExclusiveOps, TimerOps
  <2> QED
    BY <2>1, EmptyTyped DEF Init
<1>2. state \in [Nodes -> {"fresh", "init", "live", "closing", "detached", "freed"}]
  BY DEF Init
<1>3. children \in [Parents -> SUBSET Nodes] /\ parent \in [Nodes -> Parents \cup {None}]
  BY ContextAssumption DEF Init
<1>4. tlocal \in [Nodes -> [gen : Nat, at : SUBSET Nat]]
  BY DEF Init
<1> QED
  BY <1>1, <1>2, <1>3, <1>4 DEF Init, Types

\* Every step keeps the types.
LEMMA NextTyped == Types /\ [Next]_vars => Types'
<1> SUFFICES ASSUME Types, [Next]_vars PROVE Types'
  OBVIOUS
<1>1. ASSUME NEW a \in Actors, Step(a) PROVE Types'
  BY <1>1, LockingTyped, WalkTyped, AsksTyped, CreatingTyped, LinksTyped, WaitTyped,
     TimerTyped DEF Step
<1>2. ASSUME NEW t \in Threads, Call(t) PROVE Types'
  BY <1>2, CallTyped
<1>3. CASE Tick
  BY <1>3 DEF Tick, Types, nodeVars, lockVars, timerVars
<1>4. CASE UNCHANGED vars
  BY <1>4 DEF vars, Types, nodeVars, lockVars, timerVars, clientVars
<1> QED
  BY <1>1, <1>2, <1>3, <1>4 DEF Next, Resting

\* Every variable of the tree, of its lock, of the calls in progress and of
\* the timer tasks keeps its type, whatever the clients do.
THEOREM TypesInvariant == Spec => []Types
  BY InitTyped, NextTyped, PTL DEF Spec

(***************************************************************************)
(* The first cause.                                                        *)
(***************************************************************************)
CausesKept == \A n \in Nodes : cause[n] # None => cause'[n] = cause[n]

\* Only markCanceledLocal writes a cause, and only where there is none.
LEMMA StepKeepsCauses ==
    ASSUME Types, NEW a \in Actors, Step(a)
    PROVE  CausesKept
<1>1. CASE Mark(a)
  <2>1. CASE UNCHANGED cause
    BY <2>1 DEF CausesKept
  <2>2. CASE /\ cause[Top(a).node] = None
             /\ cause' = [cause EXCEPT ![Top(a).node] = Top(a).arg]
    BY <2>2 DEF CausesKept, Types
  <2> QED
    BY <1>1, <2>1, <2>2 DEF Mark
<1>2. CASE Locking(a)
  BY <1>2 DEF Locking, RequestExclusive, Share, Unshare, nodeVars, CausesKept
<1>3. CASE Broadcast(a) \/ Fire(a) \/ NextKid(a) \/ Stop(a)
  BY <1>3 DEF Broadcast, Fire, NextKid, Stop, nodeVars, CausesKept
<1>4. CASE Asks(a)
  BY <1>4 DEF Asks, Err, Inherit, Return, nodeVars, CausesKept
<1>5. CASE Creating(a)
  BY <1>5 DEF Creating, Attach, Adopt, Arm, Ready, nodeVars, CausesKept
<1>6. CASE Links(a)
  BY <1>6 DEF Links, Bind, Unbind, Join, Detach, Free, nodeVars, CausesKept
<1>7. CASE Wait(a) \/ WaitTimeout(a)
  BY <1>7 DEF Wait, WaitTimeout, nodeVars, CausesKept
<1>8. CASE Timer(a)
  BY <1>8 DEF Timer, TimerTop, TimerEffective, TimerCheck, TimerTimeout, TimerWake,
              TimerExpire, nodeVars, CausesKept
<1> QED
  BY <1>1, <1>2, <1>3, <1>4, <1>5, <1>6, <1>7, <1>8 DEF Step, Walk

\* No step replaces or withdraws a cause (cancelWithCause returns when one is
\* set).
LEMMA NextKeepsCauses == Types /\ [Next]_vars => CausesKept
<1> SUFFICES ASSUME Types, [Next]_vars PROVE CausesKept
  OBVIOUS
<1>1. ASSUME NEW a \in Actors, Step(a) PROVE CausesKept
  BY <1>1, StepKeepsCauses
<1>2. ASSUME NEW t \in Threads, Call(t) PROVE CausesKept
  BY <1>2 DEF Call, New, Cancel, Query, Await, BindLink, Deinit, Begin, CausesKept
<1>3. CASE Tick
  BY <1>3 DEF Tick, nodeVars, CausesKept
<1>4. CASE UNCHANGED vars
  BY <1>4 DEF vars, nodeVars, CausesKept
<1> QED
  BY <1>1, <1>2, <1>3, <1>4 DEF Next, Resting

\* Once a node has recorded a cause, no cancel, expiry, walk, reparenting or
\* deinit replaces or withdraws it (markCanceledLocal: the first cause wins).
THEOREM FirstCauseIsSticky == Spec => FirstCauseSticky
<1>1. Types /\ [Next]_vars =>
          [\A n \in Nodes : cause[n] # None => cause'[n] = cause[n]]_vars
  BY NextKeepsCauses DEF CausesKept
<1> QED
  BY <1>1, TypesInvariant, PTL DEF Spec, FirstCauseSticky

(***************************************************************************)
(* The shape of the tree.  What a step may do to the stacks: a quiet step  *)
(* pushes no frame that creates or destroys a node.                        *)
(***************************************************************************)
NoLife(st) == \A i \in 1..Len(st) : st[i].op \notin LifeOps

\* Replacing the head of a stack by frames without life operations.
LEMMA QuietStack ==
    ASSUME NEW st \in Seq(Frame), st # <<>>, NEW fs \in Seq(Frame),
           NoLife(fs), OnlyBottom(st)
    PROVE  /\ OnlyBottom(fs \o Tail(st))
           /\ LifeIn(fs \o Tail(st)) \subseteq LifeIn(st)
<1> DEFINE new == fs \o Tail(st)
<1>1. /\ Len(new) = Len(fs) + Len(st) - 1
      /\ \A i \in 1..Len(fs) : new[i] = fs[i]
      /\ \A i \in Len(fs) + 1..Len(new) : new[i] = st[i - Len(fs) + 1]
      /\ Len(st) \in Nat /\ Len(st) > 0 /\ Len(fs) \in Nat
  OBVIOUS
<1>2. OnlyBottom(new)
  <2> SUFFICES ASSUME NEW i \in 1..Len(new) - 1 PROVE new[i].op \notin LifeOps
    BY DEF OnlyBottom
  <2>1. CASE i <= Len(fs)
    BY <1>1, <2>1 DEF NoLife
  <2>2. CASE i > Len(fs)
    BY <1>1, <2>2 DEF OnlyBottom
  <2> QED
    BY <1>1, <2>1, <2>2
<1>3. LifeIn(new) \subseteq LifeIn(st)
  <2>1. CASE Len(st) = 1
    <3>1. Len(new) = Len(fs)
      BY <1>1, <2>1
    <3>2. CASE new = <<>>
      BY <3>2 DEF LifeIn
    <3>3. CASE new # <<>>
      <4>1. Len(new) \in 1..Len(fs) /\ new[Len(new)] = fs[Len(new)]
        BY <1>1, <3>1, <3>3
      <4> QED
        BY <4>1 DEF LifeIn, NoLife
    <3> QED
      BY <3>2, <3>3
  <2>2. CASE Len(st) > 1
    <3>1. new # <<>> /\ new[Len(new)] = st[Len(st)]
      BY <1>1, <2>2
    <3> QED
      BY <3>1 DEF LifeIn
  <2>3. Len(st) = 1 \/ Len(st) > 1
    <3>1. \A k \in Nat : k > 0 => k = 1 \/ k > 1
      OBVIOUS
    <3> QED
      BY <1>1, <3>1
  <2> HIDE DEF new
  <2> QED
    BY <2>1, <2>2, <2>3
<1> QED
  BY <1>2, <1>3

\* When the head itself creates or destroys a node it is the whole stack.
LEMMA LifeHead ==
    ASSUME NEW st \in Seq(Frame), st # <<>>, OnlyBottom(st), Head(st).op \in LifeOps
    PROVE  /\ Len(st) = 1 /\ Tail(st) = <<>>
           /\ LifeIn(st) = {Head(st)}
<1>1. Len(st) \in Nat /\ Len(st) > 0 /\ Head(st) = st[1]
  OBVIOUS
<1>2. Len(st) = 1
  <2>1. SUFFICES ASSUME Len(st) # 1 PROVE FALSE
    OBVIOUS
  <2>2. 1 \in 1..Len(st) - 1
    <3>1. \A k \in Nat : k > 0 /\ k # 1 => 1 \in 1..k - 1
      OBVIOUS
    <3> QED
      BY <1>1, <2>1, <3>1
  <2>3. st[1].op \notin LifeOps
    BY <2>2 DEF OnlyBottom
  <2> QED
    BY <1>1, <2>3
<1>3. Tail(st) = <<>>
  <2>1. Tail(st) \in Seq(Frame) /\ Len(Tail(st)) = 0
    BY <1>2
  <2> QED
    BY <2>1, EmptySeq
<1> QED
  BY <1>1, <1>2, <1>3 DEF LifeIn

\* The frames of a walk create and destroy nothing.
LEMMA WalkQuiet ==
    ASSUME NEW n \in Nodes, NEW c \in Causes
    PROVE  /\ NoLife(MarkCanceled(n, c))
           /\ NoLife(Propagate(n, c))
           /\ NoLife(AfterMark(n, c))
           /\ NoLife(<<>>)
<1>1. \A op \in FrameOps \ LifeOps : NoLife(<<F(op, n)>>)
  BY DEF NoLife, F
<1>2. NoLife(<<FA("mark", n, c)>>)
  BY DEF NoLife, FA, LifeOps
<1>3. NoLife(<<F("share", n), FA("mark", n, c), F("unshare", n)>>)
  BY DEF NoLife, F, FA, LifeOps
<1>4. NoLife(<<F("stop", n), FA("mark", n, c)>>)
  BY DEF NoLife, F, FA, LifeOps
<1>5. NoLife(<<F("broadcast", n), FA("fire", n, c)>>)
  BY DEF NoLife, F, FA, LifeOps
<1>6. NoLife(<<F("broadcast", n), F("share", n), FA("fire", n, c), F("unshare", n)>>)
  BY DEF NoLife, F, FA, LifeOps
<1>7. NoLife(<<>>)
  BY DEF NoLife
<1>8. KindOf[n] \in {"cancel", "deadline", "value"}
  BY ContextAssumption
<1> QED
  BY <1>2, <1>3, <1>4, <1>5, <1>6, <1>7, <1>8 DEF MarkCanceled, Propagate, AfterMark

\* A calm step leaves the tree alone and starts no creation or destruction.
Calm == /\ UNCHANGED <<state, parent, children, uses>>
        /\ \A b \in Actors : OnlyBottom(code'[b]) /\ LifeIn(code'[b]) \subseteq LifeIn(code[b])

\* A step that pushes no frame of a life's two ends leaves the lives alone.
LEMMA ContinueCalm ==
    ASSUME Types, Lifecycle, NEW a \in Actors, code[a] # <<>>,
           NEW fs \in Seq(Frame), NoLife(fs), Continue(a, fs),
           UNCHANGED <<state, parent, children, uses>>
    PROVE  Calm
<1>1. code[a] \in Seq(Frame) /\ OnlyBottom(code[a])
  BY DEF Types, Lifecycle
<1>2. OnlyBottom(fs \o Tail(code[a])) /\ LifeIn(fs \o Tail(code[a])) \subseteq LifeIn(code[a])
  BY <1>1, QuietStack
<1>3. code' = [code EXCEPT ![a] = fs \o Tail(code[a])] /\ code \in [Actors -> Seq(Frame)]
  BY DEF Continue, Rest, Types
<1> QED
  BY <1>2, <1>3 DEF Calm, Lifecycle

\* A stack whose frames are all quiet has nothing at its bottom.
LEMMA QuietBottom ==
    ASSUME NEW fs \in Seq(Frame), NoLife(fs)
    PROVE  OnlyBottom(fs) /\ LifeIn(fs) = {}
<1>1. Len(fs) \in Nat
  OBVIOUS
<1>2. OnlyBottom(fs)
  BY <1>1 DEF OnlyBottom, NoLife
<1>3. LifeIn(fs) = {}
  <2>1. CASE fs = <<>>
    BY <2>1 DEF LifeIn
  <2>2. CASE fs # <<>>
    <3>1. Len(fs) \in 1..Len(fs)
      BY <2>2
    <3> QED
      BY <3>1 DEF LifeIn, NoLife
  <2> QED
    BY <2>1, <2>2
<1> QED
  BY <1>2, <1>3

\* A task that takes up such frames leaves the lives alone.
LEMMA BecomeCalm ==
    ASSUME Types, Lifecycle, NEW n \in Actors, NEW fs \in Seq(Frame), NoLife(fs),
           Become(n, fs), UNCHANGED <<state, parent, children, uses>>
    PROVE  Calm
<1>1. OnlyBottom(fs) /\ LifeIn(fs) = {}
  BY QuietBottom
<1>2. code' = [code EXCEPT ![n] = fs] /\ code \in [Actors -> Seq(Frame)]
  BY DEF Become, Types
<1> QED
  BY <1>1, <1>2 DEF Calm, Lifecycle

\* So does a step that leaves code and states as they are.
LEMMA StutterCalm ==
    ASSUME Lifecycle, UNCHANGED <<state, parent, children, uses, code>>
    PROVE  Calm
  BY DEF Calm, Lifecycle

\* What is true of the frames and the tree stays true over a calm step.
LEMMA CalmKeepsLifecycle ==
    ASSUME Lifecycle, Calm
    PROVE  Lifecycle'
<1>1. /\ \A b \in Actors : OnlyBottom(code'[b])
      /\ \A b \in Actors : LifeIn(code'[b]) \subseteq LifeIn(code[b])
      /\ state' = state /\ parent' = parent /\ uses' = uses
  BY DEF Calm
<1>2. \A b \in Actors : \A f \in LifeIn(code'[b]) : LifeFrameOK(b, f)
  BY <1>1 DEF Lifecycle
<1>3. \A b \in Actors : \A f \in LifeIn(code'[b]) : LifeFrameOK(b, f)'
  BY <1>1, <1>2 DEF LifeFrameOK
<1>4. \A a, b \in Actors : \A f \in LifeIn(code'[a]), g \in LifeIn(code'[b]) :
          f.node = g.node => a = b
  BY <1>1 DEF Lifecycle
<1> QED
  BY <1>1, <1>3, <1>4 DEF Lifecycle

\* A step that leaves the lives alone keeps the tree.
LEMMA CalmKeepsTree ==
    ASSUME TreeWellFormed, Calm
    PROVE  TreeWellFormed'
  BY DEF TreeWellFormed, LinksAgree, Acyclic, ParentsHeld, OutsideTree, Calm

\* Two pieces of code without a life's ends have none together.
LEMMA QuietConcat ==
    ASSUME NEW x \in Seq(Frame), NoLife(x), NEW y \in Seq(Frame), NoLife(y)
    PROVE  x \o y \in Seq(Frame) /\ NoLife(x \o y)
<1>1. \A i \in 1..Len(x \o y) :
          \/ i \in 1..Len(x) /\ (x \o y)[i] = x[i]
          \/ i - Len(x) \in 1..Len(y) /\ (x \o y)[i] = y[i - Len(x)]
  OBVIOUS
<1> QED
  BY <1>1 DEF NoLife

\* Quiet frames above one frame that creates or destroys a node.
LEMMA BottomStack ==
    ASSUME NEW fs \in Seq(Frame), NoLife(fs), NEW g \in Frame, g.op \in LifeOps
    PROVE  /\ OnlyBottom(fs \o <<g>>)
           /\ LifeIn(fs \o <<g>>) = {g}
<1> DEFINE new == fs \o <<g>>
<1>1. /\ Len(fs) \in Nat
      /\ Len(new) = Len(fs) + 1
      /\ new # <<>>
      /\ new[Len(fs) + 1] = g
      /\ \A i \in 1..Len(fs) : new[i] = fs[i]
  OBVIOUS
<1>2. OnlyBottom(new)
  <2> SUFFICES ASSUME NEW i \in 1..Len(new) - 1 PROVE new[i].op \notin LifeOps
    BY DEF OnlyBottom
  <2>1. i \in 1..Len(fs)
    BY <1>1
  <2> QED
    BY <1>1, <2>1 DEF NoLife
<1>3. LifeIn(new) = {g}
  <2>1. new[Len(new)] = g
    BY <1>1
  <2> HIDE DEF new
  <2> QED
    BY <1>1, <2>1 DEF LifeIn
<1> QED
  BY <1>2, <1>3

(***************************************************************************)
(* Every action that creates or destroys nothing is calm.                  *)
(***************************************************************************)
LEMMA LockingCalm ==
    ASSUME Types, Lifecycle, NEW a \in Actors, Locking(a)
    PROVE  Calm
<1>1. NoLife(<<>>)
  BY DEF NoLife
<1>2. CASE RequestExclusive(a)
  BY <1>2, StutterCalm DEF RequestExclusive, nodeVars, clientVars
<1>3. CASE Share(a)
  BY <1>1, <1>3, EmptyTyped, ContinueCalm DEF Share, At, nodeVars, clientVars
<1>4. CASE Unshare(a)
  BY <1>1, <1>4, EmptyTyped, ContinueCalm DEF Unshare, At, nodeVars, clientVars
<1> QED
  BY <1>2, <1>3, <1>4 DEF Locking

\* A cancellation walk leaves the lives alone.
LEMMA WalkCalm ==
    ASSUME Types, Lifecycle, NEW a \in Actors, Walk(a)
    PROVE  Calm
<1>1. NoLife(<<>>)
  BY DEF NoLife
<1>2. CASE Mark(a)
  <2>1. Top(a).node \in Nodes /\ Top(a).arg \in Causes
    BY <1>2, TopFrame, FrameFields DEF Mark, At, Top
  <2>2. /\ NoLife(AfterMark(Top(a).node, Top(a).arg))
        /\ AfterMark(Top(a).node, Top(a).arg) \in Seq(Frame)
    BY <2>1, WalkQuiet, WalkFrames
  <2> QED
    BY <1>1, <1>2, <2>2, EmptyTyped, ContinueCalm DEF Mark, At, clientVars
<1>3. CASE Broadcast(a)
  BY <1>1, <1>3, EmptyTyped, ContinueCalm DEF Broadcast, At, nodeVars, clientVars
<1>4. CASE Fire(a)
  <2> DEFINE k == Kids(Top(a).node, Top(a).arg, children[Top(a).node])
  <2>1. Top(a).node \in Nodes /\ Top(a).arg \in Causes
    BY <1>4, TopFrame, FrameFields DEF Fire, At, Top
  <2>2. k \in Frame
    <3>1. children[Top(a).node] \subseteq Nodes
      BY <2>1 DEF Types, Parents
    <3> QED
      BY <2>1, <3>1 DEF Kids, Frame
  <2>3. <<k>> \in Seq(Frame)
    BY <2>2
  <2>4. NoLife(<<k>>)
    BY DEF NoLife, Kids, LifeOps
  <2> QED
    BY <1>4, <2>3, <2>4, ContinueCalm DEF Fire, At, clientVars
<1>5. CASE NextKid(a)
  <2>1. /\ Top(a).node \in Nodes
        /\ Top(a).arg \in Causes
        /\ Top(a).todo \subseteq Nodes
    BY <1>5, TopFrame, FrameFields DEF NextKid, At, Top
  <2>2. CASE Continue(a, <<>>)
    BY <1>1, <1>5, <2>2, EmptyTyped, ContinueCalm DEF NextKid, At, nodeVars, clientVars
  <2>3. ASSUME NEW m \in Top(a).todo,
               Continue(a, Propagate(m, Top(a).arg)
                           \o <<Kids(Top(a).node, Top(a).arg, Top(a).todo \ {m})>>)
        PROVE  Calm
    <3> DEFINE k == Kids(Top(a).node, Top(a).arg, Top(a).todo \ {m})
               fs == Propagate(m, Top(a).arg)
    <3>1. k \in Frame /\ k.op \notin LifeOps
      BY <2>1 DEF Kids, Frame, LifeOps
    <3>2. fs \in Seq(Frame) /\ NoLife(fs)
      BY <2>1, WalkFrames, WalkQuiet
    <3> HIDE DEF k, fs
    <3>3. fs \o <<k>> \in Seq(Frame)
      BY <3>1, <3>2
    <3>4. NoLife(fs \o <<k>>)
      <4>1. <<k>> \in Seq(Frame) /\ NoLife(<<k>>)
        BY <3>1 DEF NoLife
      <4> QED
        BY <3>2, <4>1, QuietConcat
    <3> QED
      BY <1>5, <2>3, <3>3, <3>4, ContinueCalm DEF NextKid, At, nodeVars, clientVars, k, fs
  <2> QED
    BY <1>5, <2>2, <2>3 DEF NextKid
<1>6. CASE Stop(a)
  BY <1>1, <1>6, EmptyTyped, ContinueCalm DEF Stop, At, nodeVars, clientVars
<1> QED
  BY <1>2, <1>3, <1>4, <1>5, <1>6 DEF Walk

\* A query leaves the lives alone.
LEMMA AsksCalm ==
    ASSUME Types, Lifecycle, NEW a \in Actors, Asks(a)
    PROVE  Calm
<1>1. NoLife(<<>>)
  BY DEF NoLife
<1>2. CASE Err(a)
  <2> DEFINE n == Top(a).node
  <2>1. code[a] # <<>> /\ UNCHANGED <<state, parent, children, uses>>
    BY <1>2 DEF Err, At, nodeVars, clientVars
  <2>2. CASE Continue(a, <<>>)
    BY <1>1, <2>1, <2>2, EmptyTyped, ContinueCalm
  <2>3. CASE /\ n \in Nodes /\ parent[n] # None
             /\ Continue(a, <<F("err", parent[n]), F("inherit", n)>>)
    <3>1. parent[n] \in Parents
      BY <2>3 DEF Types
    <3>2. F("err", parent[n]) \in Frame /\ F("inherit", n) \in Frame
      BY <2>3, <3>1, PlainFrame DEF F, Frame, PlainOps, FrameOps, ExclusiveOps, TimerOps
    <3>3. <<F("err", parent[n]), F("inherit", n)>> \in Seq(Frame)
      BY <3>2
    <3>4. NoLife(<<F("err", parent[n]), F("inherit", n)>>)
      BY DEF NoLife, F, LifeOps
    <3> QED
      BY <2>1, <2>3, <3>3, <3>4, ContinueCalm
  <2>4. CASE n \in Nodes /\ Continue(a, MarkCanceled(n, DeadlineExceeded))
    <3>1. DeadlineExceeded \in Causes
      BY DEF Causes
    <3> QED
      BY <2>1, <2>4, <3>1, WalkFrames, WalkQuiet, ContinueCalm
  <2> QED
    BY <1>2, <2>2, <2>3, <2>4 DEF Err
<1>3. CASE Inherit(a)
  <2>1. Top(a).node \in Nodes
    BY <1>3, TopFrame, FrameFields DEF Inherit, At, Top
  <2>2. reg[a] = None \/ reg[a] \in Causes
    BY DEF Types
  <2> QED
    BY <1>1, <1>3, <2>1, <2>2, EmptyTyped, WalkFrames, WalkQuiet, ContinueCalm
       DEF Inherit, At, nodeVars, clientVars
<1>4. CASE Return(a)
  BY <1>1, <1>4, EmptyTyped, ContinueCalm DEF Return, At, nodeVars, clientVars
<1> QED
  BY <1>2, <1>3, <1>4 DEF Asks

\* Arming a timer leaves the lives alone.
LEMMA ArmCalm ==
    ASSUME Types, Lifecycle, NEW a \in Actors, Arm(a)
    PROVE  Calm
<1> DEFINE n == Top(a).node
<1>1. /\ n \in Nodes /\ n \in Actors /\ code \in [Actors -> Seq(Frame)]
      /\ code[a] # <<>> /\ UNCHANGED <<state, parent, children, uses>>
  BY TopFrame, FrameFields DEF Arm, At, Top, Actors, nodeVars, clientVars
<1>2. NoLife(<<>>)
  BY DEF NoLife
<1>3. CASE Continue(a, <<>>) \/ Continue(a, MarkCanceled(n, DeadlineExceeded))
            \/ Continue(a, MarkCanceled(n, SpawnError))
  BY <1>1, <1>2, <1>3, EmptyTyped, WalkFrames, WalkQuiet, ContinueCalm DEF Causes
<1>4. CASE code' = [code EXCEPT ![a] = Rest(a), ![n] = <<F("tTop", n)>>]
  <2>1. /\ OnlyBottom(<<>> \o Tail(code[a]))
        /\ LifeIn(<<>> \o Tail(code[a])) \subseteq LifeIn(code[a])
    <3>1. code[a] \in Seq(Frame) /\ OnlyBottom(code[a])
      BY <1>1 DEF Lifecycle
    <3> QED
      BY <1>1, <1>2, <3>1, EmptyTyped, QuietStack
  <2>2. <<>> \o Tail(code[a]) = Rest(a)
    <3>1. Tail(code[a]) \in Seq(Frame)
      BY <1>1
    <3> QED
      BY <3>1 DEF Rest
  <2>3. OnlyBottom(<<F("tTop", n)>>) /\ LifeIn(<<F("tTop", n)>>) = {}
    <3>1. <<F("tTop", n)>> \in Seq(Frame)
      BY <1>1, PlainFrame DEF PlainOps, FrameOps, ExclusiveOps, TimerOps
    <3>2. NoLife(<<F("tTop", n)>>)
      BY DEF NoLife, F, LifeOps
    <3> QED
      BY <3>1, <3>2, QuietBottom
  <2>4. \A b \in Actors : \/ code'[b] = code[b]
                          \/ b = a /\ code'[b] = Rest(a)
                          \/ code'[b] = <<F("tTop", n)>>
    BY <1>1, <1>4
  <2> QED
    BY <1>1, <2>1, <2>2, <2>3, <2>4 DEF Calm, Lifecycle
<1> QED
  BY <1>3, <1>4 DEF Arm

\* So do binding, joining and waiting.
LEMMA QuietLinksCalm ==
    ASSUME Types, Lifecycle, NEW a \in Actors,
           Bind(a) \/ Unbind(a) \/ Join(a) \/ Wait(a) \/ WaitTimeout(a)
    PROVE  Calm
<1>1. NoLife(<<>>)
  BY DEF NoLife
<1>2. UNCHANGED <<state, parent, children, uses>>
  BY DEF Bind, Unbind, Join, Wait, WaitTimeout, nodeVars, clientVars
<1>3. code[a] # <<>>
  BY DEF Bind, Unbind, Join, Wait, WaitTimeout, Exclusive, At, Sleeping
<1>4. CASE Continue(a, <<>>)
  BY <1>1, <1>2, <1>3, <1>4, EmptyTyped, ContinueCalm
<1>5. CASE UNCHANGED code
  BY <1>2, <1>5, StutterCalm
<1> QED
  BY <1>4, <1>5 DEF Bind, Unbind, Join, Wait, WaitTimeout

\* So does a timer task.
LEMMA TimerCalm ==
    ASSUME Types, Lifecycle, NEW n \in Nodes, Timer(n)
    PROVE  Calm
<1>1. UNCHANGED <<state, parent, children, uses>>
  BY DEF Timer, TimerTop, TimerEffective, TimerCheck, TimerTimeout, TimerWake,
         TimerExpire, nodeVars, clientVars
<1>2. n \in Actors
  BY DEF Actors
<1>3. \A op \in TimerOps : <<F(op, n)>> \in Seq(Frame) /\ NoLife(<<F(op, n)>>)
  <2>1. \A op \in TimerOps : F(op, n) \in Frame
    BY PlainFrame DEF PlainOps, FrameOps, ExclusiveOps, TimerOps
  <2>2. \A op \in TimerOps : NoLife(<<F(op, n)>>)
    BY DEF NoLife, F, LifeOps, TimerOps
  <2> QED
    BY <2>1, <2>2
<1>4. /\ NoLife(<<>>) /\ NoLife(MarkCanceled(n, DeadlineExceeded))
      /\ MarkCanceled(n, DeadlineExceeded) \in Seq(Frame)
  BY WalkFrames, WalkQuiet DEF Causes, NoLife
<1>5. CASE UNCHANGED code
  BY <1>1, <1>5, StutterCalm
<1>6. CASE \E op \in TimerOps : Become(n, <<F(op, n)>>)
  BY <1>1, <1>2, <1>3, <1>6, BecomeCalm
<1>7. CASE Become(n, <<>>) \/ Become(n, MarkCanceled(n, DeadlineExceeded))
  BY <1>1, <1>2, <1>4, <1>7, EmptyTyped, BecomeCalm
<1> QED
  BY <1>5, <1>6, <1>7 DEF Timer, TimerTop, TimerEffective, TimerCheck, TimerTimeout,
     TimerWake, TimerExpire, TimerOps

(***************************************************************************)
(* Calls.                                                                  *)
(***************************************************************************)
\* A call by an idle thread that creates or destroys nothing is calm.
LEMMA BeginCalm ==
    ASSUME Types, Lifecycle, NEW t \in Threads, NEW call, NEW handles \in SUBSET Nodes,
           NEW frames \in Seq(Frame), NoLife(frames),
           Begin(t, call, handles, frames), UNCHANGED state
    PROVE  Lifecycle' /\ (TreeWellFormed => TreeWellFormed')
<1>1. OnlyBottom(frames) /\ LifeIn(frames) = {}
  BY QuietBottom
<1>2. /\ code' = [code EXCEPT ![t] = frames] /\ code \in [Actors -> Seq(Frame)]
      /\ uses' = [uses EXCEPT ![t] = handles] /\ uses \in [Threads -> SUBSET Nodes]
      /\ state' = state /\ parent' = parent /\ children' = children
      /\ t \in Actors /\ code[t] = <<>>
  BY DEF Begin, Idle, Types, Actors
<1>3. \A b \in Actors : OnlyBottom(code'[b])
  BY <1>1, <1>2 DEF Lifecycle
<1>4. \A b \in Actors : \A f \in LifeIn(code'[b]) : b # t /\ f \in LifeIn(code[b])
  BY <1>1, <1>2
<1>5. \A b \in Actors : \A f \in LifeIn(code'[b]) : LifeFrameOK(b, f)'
  <2> SUFFICES ASSUME NEW b \in Actors, NEW f \in LifeIn(code'[b]) PROVE LifeFrameOK(b, f)'
    OBVIOUS
  <2>1. LifeFrameOK(b, f) /\ b # t
    BY <1>4 DEF Lifecycle
  <2>2. b \in Threads => uses'[b] = uses[b]
    BY <1>2, <2>1
  <2> QED
    BY <1>2, <2>1, <2>2 DEF LifeFrameOK
<1>6. \A b, c \in Actors : \A f \in LifeIn(code'[b]), g \in LifeIn(code'[c]) :
          f.node = g.node => b = c
  BY <1>4 DEF Lifecycle
<1>7. Lifecycle'
  BY <1>3, <1>5, <1>6 DEF Lifecycle
<1>8. TreeWellFormed => TreeWellFormed'
  BY <1>2 DEF TreeWellFormed, LinksAgree, Acyclic, ParentsHeld, OutsideTree
<1> QED
  BY <1>7, <1>8

\* A call that neither creates nor ends a node keeps lives and tree.
LEMMA QuietCall ==
    ASSUME Types, Lifecycle, NEW t \in Threads,
           Cancel(t) \/ Query(t) \/ Await(t) \/ BindLink(t)
    PROVE  Lifecycle' /\ (TreeWellFormed => TreeWellFormed')
<1>1. \A n \in Nodes, op \in PlainOps \ LifeOps :
          <<F(op, n)>> \in Seq(Frame) /\ NoLife(<<F(op, n)>>)
  <2>1. \A n \in Nodes, op \in PlainOps : F(op, n) \in Frame
    BY PlainFrame
  <2>2. \A n \in Nodes, op \in PlainOps \ LifeOps : NoLife(<<F(op, n)>>)
    BY DEF NoLife, F
  <2> QED
    BY <2>1, <2>2
<1>2. CASE Cancel(t)
  <2>1. PICK n \in Nodes, c \in UserCauses \cup {Canceled} :
            /\ Begin(t, "cancel", {n},
                     (IF KindOf[n] = "deadline" THEN <<F("stop", n)>> ELSE <<>>)
                         \o MarkCanceled(n, c))
            /\ UNCHANGED state
    BY <1>2 DEF Cancel
  <2> DEFINE x == IF KindOf[n] = "deadline" THEN <<F("stop", n)>> ELSE <<>>
             y == MarkCanceled(n, c)
  <2>2. y \in Seq(Frame) /\ NoLife(y)
    BY WalkFrames, WalkQuiet DEF Causes
  <2>3. x \in Seq(Frame) /\ NoLife(x)
    BY <1>1 DEF PlainOps, FrameOps, ExclusiveOps, TimerOps, LifeOps, NoLife
  <2>4. Begin(t, "cancel", {n}, x \o y) /\ UNCHANGED state
    BY <2>1
  <2> HIDE DEF x, y
  <2>5. x \o y \in Seq(Frame)
    BY <2>2, <2>3
  <2>6. NoLife(x \o y)
    BY <2>2, <2>3, QuietConcat
  <2> QED
    BY <2>4, <2>5, <2>6, BeginCalm
<1>3. CASE Query(t)
  <2>1. PICK n \in Nodes :
            Begin(t, "err", {n}, <<F("err", n), F("return", n)>>) /\ UNCHANGED state
    BY <1>3 DEF Query
  <2>2. F("err", n) \in Frame /\ F("return", n) \in Frame
    BY PlainFrame DEF F, Frame, PlainOps, FrameOps, ExclusiveOps, TimerOps, Parents
  <2>3. <<F("err", n), F("return", n)>> \in Seq(Frame)
    BY <2>2
  <2>4. NoLife(<<F("err", n), F("return", n)>>)
    BY DEF NoLife, F, LifeOps
  <2> QED
    BY <2>1, <2>3, <2>4, BeginCalm
<1>4. CASE Await(t) \/ BindLink(t)
  <2>1. PICK n \in Nodes, op \in {"wait", "waitT", "bind", "unbind"} :
            Begin(t, op, {n}, <<F(op, n)>>) /\ UNCHANGED state
    BY <1>4 DEF Await, BindLink
  <2>2. op \in PlainOps \ LifeOps
    BY DEF PlainOps, FrameOps, ExclusiveOps, TimerOps, LifeOps
  <2> QED
    BY <1>1, <2>1, <2>2, BeginCalm
<1> QED
  BY <1>2, <1>3, <1>4

(***************************************************************************)
(* The steps that create or destroy a node: first the stacks.              *)
(***************************************************************************)
\* Actor a executes a life frame and leaves at most one on the same node.
LEMMA LifeStep ==
    ASSUME Types, Lifecycle, NEW a \in Actors, code[a] # <<>>, Top(a).op \in LifeOps,
           NEW fs \in Seq(Frame), Continue(a, fs), OnlyBottom(fs),
           \A f \in LifeIn(fs) : f.node = Top(a).node /\ LifeFrameOK(a, f)',
           \A b \in Actors \ {a} : \A f \in LifeIn(code[b]) :
               f.node # Top(a).node /\ LifeFrameOK(b, f) => LifeFrameOK(b, f)'
    PROVE  Lifecycle'
<1>1. code[a] \in Seq(Frame) /\ OnlyBottom(code[a]) /\ code \in [Actors -> Seq(Frame)]
  BY DEF Types, Lifecycle
<1>2. Tail(code[a]) = <<>> /\ LifeIn(code[a]) = {Top(a)}
  BY <1>1, LifeHead DEF Top
<1>3. code' = [code EXCEPT ![a] = fs]
  <2>1. fs \o <<>> = fs
    OBVIOUS
  <2> QED
    BY <1>2, <2>1 DEF Continue, Rest
<1>4. \A b \in Actors : OnlyBottom(code'[b])
  BY <1>1, <1>3 DEF Lifecycle
<1>5. \A b \in Actors \ {a} : code'[b] = code[b]
  BY <1>1, <1>3
<1>6. \A b \in Actors \ {a} : \A f \in LifeIn(code[b]) : f.node # Top(a).node
  BY <1>2 DEF Lifecycle
<1>7. \A b \in Actors : \A f \in LifeIn(code'[b]) : LifeFrameOK(b, f)'
  <2> SUFFICES ASSUME NEW b \in Actors, NEW f \in LifeIn(code'[b]) PROVE LifeFrameOK(b, f)'
    OBVIOUS
  <2>1. CASE b = a
    BY <1>1, <1>3, <2>1
  <2>2. CASE b # a
    <3>1. LifeFrameOK(b, f)
      BY <1>5, <2>2 DEF Lifecycle
    <3> QED
      BY <1>5, <1>6, <2>2, <3>1
  <2> QED
    BY <2>1, <2>2
<1>8. \A b, c \in Actors : \A f \in LifeIn(code'[b]), g \in LifeIn(code'[c]) :
          f.node = g.node => b = c
  BY <1>1, <1>3, <1>5, <1>6 DEF Lifecycle
<1> QED
  BY <1>4, <1>7, <1>8 DEF Lifecycle

\* The life frame at the head of a stack satisfies its condition.
LEMMA HeadLife ==
    ASSUME Types, Lifecycle, NEW a \in Actors, code[a] # <<>>, Top(a).op \in LifeOps
    PROVE  LifeFrameOK(a, Top(a)) /\ Top(a).node \in Nodes
<1>1. code[a] \in Seq(Frame) /\ OnlyBottom(code[a])
  BY DEF Types, Lifecycle
<1>2. LifeIn(code[a]) = {Top(a)}
  BY <1>1, LifeHead DEF Top
<1>3. Top(a).node \in Nodes
  BY TopFrame, FrameFields DEF LifeOps
<1> QED
  BY <1>2, <1>3 DEF Lifecycle

\* Linking a new node under its parent keeps lives and tree.
LEMMA AttachKeeps ==
    ASSUME Types, Lifecycle, TreeWellFormed, NEW a \in Actors, Attach(a)
    PROVE  Lifecycle' /\ TreeWellFormed'
<1> DEFINE n == Top(a).node
           p == Top(a).arg
           fs == <<F("err", p), F("adopt", n)>>
<1>1. /\ code[a] # <<>> /\ Top(a).op = "attach" /\ Continue(a, fs)
      /\ parent' = [parent EXCEPT ![n] = p]
      /\ children' = [children EXCEPT ![p] = @ \cup {n}]
      /\ state' = state /\ uses' = uses
  BY DEF Attach, Exclusive, At, Top, clientVars
<1>2. /\ LifeFrameOK(a, Top(a)) /\ n \in Nodes /\ p \in Parents
      /\ state[n] = "init" /\ parent[n] = None
      /\ p \in Nodes => state[p] = "live"
  <2>1. LifeFrameOK(a, Top(a)) /\ n \in Nodes
    BY <1>1, HeadLife DEF LifeOps
  <2>2. p \in Parents
    BY <1>1, TopFrame, FrameFields
  <2> QED
    BY <1>1, <2>1, <2>2 DEF LifeFrameOK
<1>3. parent \in [Nodes -> Parents \cup {None}] /\ children \in [Parents -> SUBSET Nodes]
  BY DEF Types
<1>4. p # n /\ None \notin Parents /\ Root \notin Nodes
  BY <1>2, ContextAssumption
<1>5. Lifecycle'
  <2>1. F("err", p) \in Frame /\ F("adopt", n) \in Frame
    BY <1>2, PlainFrame DEF F, Frame, PlainOps, FrameOps, ExclusiveOps, TimerOps
  <2>2. fs \in Seq(Frame) /\ OnlyBottom(fs) /\ LifeIn(fs) = {F("adopt", n)}
    <3>1. <<F("err", p)>> \in Seq(Frame) /\ NoLife(<<F("err", p)>>)
      BY <2>1 DEF NoLife, F, LifeOps
    <3>2. F("adopt", n).op \in LifeOps
      BY DEF F, LifeOps
    <3>3. fs = <<F("err", p)>> \o <<F("adopt", n)>>
      BY <2>1
    <3>4. fs \in Seq(Frame)
      BY <2>1
    <3> HIDE DEF fs
    <3> QED
      BY <2>1, <3>1, <3>2, <3>3, <3>4, BottomStack
  <2>3. ASSUME NEW f, f = F("adopt", n)
        PROVE  f.node = n /\ LifeFrameOK(a, f)'
    BY <1>1, <1>2, <2>3 DEF LifeFrameOK, F
  <2>4. ASSUME NEW b \in Actors \ {a}, NEW f \in LifeIn(code[b]), f.node # n, LifeFrameOK(b, f)
        PROVE  LifeFrameOK(b, f)'
    BY <1>1, <2>4 DEF LifeFrameOK
  <2> HIDE DEF fs
  <2> QED
    BY <1>1, <2>2, <2>3, <2>4, LifeStep DEF LifeOps
<1>6. LinksAgree'
  <2> SUFFICES ASSUME NEW m \in Nodes, NEW q \in Parents
               PROVE  m \in children'[q] <=> parent'[m] = q
    BY DEF LinksAgree
  <2>1. m \in children[q] <=> parent[m] = q
    BY DEF TreeWellFormed, LinksAgree
  <2>2. CASE m = n
    BY <1>1, <1>2, <1>3, <1>4, <2>1, <2>2
  <2>3. CASE m # n
    BY <1>1, <1>2, <1>3, <2>1, <2>3
  <2> QED
    BY <2>2, <2>3
<1>7. Acyclic'
  <2> SUFFICES ASSUME NEW S \in SUBSET Nodes, S # {} PROVE \E m \in S : parent'[m] \notin S
    BY DEF Acyclic
  <2>1. CASE S = {n}
    BY <1>1, <1>2, <1>3, <1>4, <2>1
  <2>2. CASE S # {n}
    <3>1. PICK m \in S \ {n} : parent[m] \notin S \ {n}
      BY <2>2 DEF TreeWellFormed, Acyclic
    <3>2. parent[m] # n
      BY <1>2 DEF TreeWellFormed, ParentsHeld
    <3> QED
      BY <1>1, <1>3, <3>1, <3>2
  <2> QED
    BY <2>1, <2>2
<1>8. ParentsHeld'
  BY <1>1, <1>2, <1>3 DEF TreeWellFormed, ParentsHeld
<1>9. OutsideTree'
  BY <1>1, <1>2, <1>3 DEF TreeWellFormed, OutsideTree
<1> QED
  BY <1>5, <1>6, <1>7, <1>8, <1>9 DEF TreeWellFormed

\* So does settling the cause it inherits.
LEMMA AdoptKeeps ==
    ASSUME Types, Lifecycle, TreeWellFormed, NEW a \in Actors, Adopt(a)
    PROVE  Lifecycle' /\ TreeWellFormed'
<1> DEFINE n == Top(a).node
           fs == Settle(n, reg[a])
           g == F("ready", n)
<1>1. /\ code[a] # <<>> /\ Top(a).op = "adopt" /\ Continue(a, fs \o <<g>>)
      /\ UNCHANGED <<state, parent, children, uses>>
  BY DEF Adopt, At, Top, nodeVars, clientVars
<1>2. LifeFrameOK(a, Top(a)) /\ n \in Nodes /\ state[n] = "init"
  BY <1>1, HeadLife DEF LifeOps, LifeFrameOK
<1>3. fs \in Seq(Frame) /\ NoLife(fs)
  <2>1. reg[a] = None \/ reg[a] \in Causes
    BY DEF Types
  <2>2. F("arm", n) \in Frame /\ NoLife(<<F("arm", n)>>) /\ NoLife(<<>>)
    BY <1>2, PlainFrame DEF PlainOps, FrameOps, ExclusiveOps, TimerOps, NoLife, F, LifeOps
  <2> QED
    BY <1>2, <2>1, <2>2, WalkFrames, WalkQuiet, EmptyTyped DEF Settle
<1>4. g \in Frame /\ g.op \in LifeOps /\ g.op = "ready" /\ g.node = n
  BY <1>2, PlainFrame DEF PlainOps, FrameOps, ExclusiveOps, TimerOps, F, LifeOps
<1>5. ASSUME NEW f, f = g
      PROVE  LifeFrameOK(a, f)'
  BY <1>1, <1>2, <1>4, <1>5 DEF LifeFrameOK
<1>6. ASSUME NEW b \in Actors \ {a}, NEW f \in LifeIn(code[b]), LifeFrameOK(b, f)
      PROVE  LifeFrameOK(b, f)'
  BY <1>1, <1>6 DEF LifeFrameOK
<1> HIDE DEF fs, g
<1>7. fs \o <<g>> \in Seq(Frame) /\ OnlyBottom(fs \o <<g>>) /\ LifeIn(fs \o <<g>>) = {g}
  BY <1>3, <1>4, BottomStack
<1>8. Lifecycle'
  BY <1>1, <1>4, <1>5, <1>6, <1>7, LifeStep DEF LifeOps
<1>9. TreeWellFormed'
  BY <1>1 DEF TreeWellFormed, LinksAgree, Acyclic, ParentsHeld, OutsideTree
<1> QED
  BY <1>8, <1>9

\* So does handing the finished node to its creator.
LEMMA ReadyKeeps ==
    ASSUME Types, Lifecycle, TreeWellFormed, NEW a \in Actors, Ready(a)
    PROVE  Lifecycle' /\ TreeWellFormed'
<1> DEFINE n == Top(a).node
<1>1. /\ code[a] # <<>> /\ Top(a).op = "ready" /\ Continue(a, <<>>)
      /\ state' = [state EXCEPT ![n] = "live"]
      /\ UNCHANGED <<parent, children, uses>>
  BY DEF Ready, At, Top, clientVars
<1>2. LifeFrameOK(a, Top(a)) /\ n \in Nodes /\ state[n] = "init"
  BY <1>1, HeadLife DEF LifeOps, LifeFrameOK
<1>3. \A m \in Nodes : state'[m] = IF m = n THEN "live" ELSE state[m]
  BY <1>1 DEF Types
<1>4. OnlyBottom(<<>>) /\ LifeIn(<<>>) = {}
  BY DEF OnlyBottom, LifeIn
<1>5. ASSUME NEW b \in Actors \ {a}, NEW f \in LifeIn(code[b]), f.node # n, LifeFrameOK(b, f)
      PROVE  LifeFrameOK(b, f)'
  <2>1. f.node \in Nodes
    <3>1. code[b] \in Seq(Frame)
      BY DEF Types
    <3>2. f \in Frame /\ f.op \in LifeOps
      BY <3>1 DEF LifeIn
    <3> QED
      BY <3>2, FrameFields DEF LifeOps
  <2> QED
    BY <1>1, <1>2, <1>3, <1>5, <2>1 DEF LifeFrameOK
<1>6. Lifecycle'
  BY <1>1, <1>4, <1>5, EmptyTyped, LifeStep DEF LifeOps
<1>7. LinksAgree' /\ Acyclic'
  BY <1>1 DEF TreeWellFormed, LinksAgree, Acyclic
<1>8. ParentsHeld' /\ OutsideTree'
  BY <1>1, <1>2, <1>3 DEF TreeWellFormed, ParentsHeld, OutsideTree
<1> QED
  BY <1>6, <1>7, <1>8 DEF TreeWellFormed

\* So does freeing a detached node.
LEMMA FreeKeeps ==
    ASSUME Types, Lifecycle, TreeWellFormed, NEW a \in Actors, Free(a)
    PROVE  Lifecycle' /\ TreeWellFormed'
<1> DEFINE n == Top(a).node
<1>1. /\ code[a] # <<>> /\ Top(a).op = "free" /\ Continue(a, <<>>)
      /\ state' = [state EXCEPT ![n] = "freed"]
      /\ UNCHANGED <<parent, children, uses>>
  BY DEF Free, At, Top, clientVars
<1>2. LifeFrameOK(a, Top(a)) /\ n \in Nodes /\ state[n] = "detached"
  BY <1>1, HeadLife DEF LifeOps, LifeFrameOK
<1>3. \A m \in Nodes : state'[m] = IF m = n THEN "freed" ELSE state[m]
  BY <1>1 DEF Types
<1>4. OnlyBottom(<<>>) /\ LifeIn(<<>>) = {}
  BY DEF OnlyBottom, LifeIn
<1>5. ASSUME NEW b \in Actors \ {a}, NEW f \in LifeIn(code[b]), f.node # n, LifeFrameOK(b, f)
      PROVE  LifeFrameOK(b, f)'
  <2>1. f.node \in Nodes
    <3>1. code[b] \in Seq(Frame)
      BY DEF Types
    <3>2. f \in Frame /\ f.op \in LifeOps
      BY <3>1 DEF LifeIn
    <3> QED
      BY <3>2, FrameFields DEF LifeOps
  <2> QED
    BY <1>1, <1>2, <1>3, <1>5, <2>1 DEF LifeFrameOK
<1>6. Lifecycle'
  BY <1>1, <1>4, <1>5, EmptyTyped, LifeStep DEF LifeOps
<1>7. LinksAgree' /\ Acyclic'
  BY <1>1 DEF TreeWellFormed, LinksAgree, Acyclic
<1>8. ParentsHeld' /\ OutsideTree'
  BY <1>1, <1>2, <1>3 DEF TreeWellFormed, ParentsHeld, OutsideTree
<1> QED
  BY <1>6, <1>7, <1>8 DEF TreeWellFormed

\* So does a detach that gives the children to the parent above.
LEMMA DetachKeeps ==
    ASSUME Types, Lifecycle, TreeWellFormed, NEW a \in Actors, Detach(a)
    PROVE  Lifecycle' /\ TreeWellFormed'
<1> DEFINE n == Top(a).node
           p == parent[n]
           kids == children[n]
           fs == <<F("free", n)>>
<1>1. /\ code[a] # <<>> /\ Top(a).op = "detach" /\ Continue(a, fs)
      /\ children' = [children EXCEPT ![n] = {}, ![p] = (@ \ {n}) \cup kids]
      /\ parent' = [m \in Nodes |-> IF m \in kids THEN p
                                    ELSE IF m = n THEN None ELSE parent[m]]
      /\ state' = [state EXCEPT ![n] = "detached"]
      /\ uses' = uses
  BY DEF Detach, Exclusive, At, Top, clientVars
<1>2. LifeFrameOK(a, Top(a)) /\ n \in Nodes /\ state[n] = "closing"
  BY <1>1, HeadLife DEF LifeOps, LifeFrameOK
<1>3. /\ n \in Parents /\ None \notin Parents /\ p \in Parents \cup {None}
      /\ children \in [Parents -> SUBSET Nodes] /\ parent \in [Nodes -> Parents \cup {None}]
  BY <1>2, ContextAssumption DEF Types, Parents
<1>4. \A m \in Nodes, q \in Parents : m \in children[q] <=> parent[m] = q
  BY DEF TreeWellFormed, LinksAgree
<1>5. p # n /\ n \notin kids
  <2>1. p # n
    <3>1. {n} \in SUBSET Nodes /\ {n} # {}
      BY <1>2
    <3>2. \E m \in {n} : parent[m] \notin {n}
      BY <3>1 DEF TreeWellFormed, Acyclic
    <3> QED
      BY <3>2
  <2> QED
    BY <1>2, <1>3, <1>4, <2>1
<1>6. \A m \in Nodes : /\ m \in kids => parent'[m] = p /\ parent[m] = n
                       /\ m = n => parent'[m] = None
                       /\ m \notin kids /\ m # n => parent'[m] = parent[m] /\ parent[m] # n
  BY <1>1, <1>3, <1>4, <1>5
<1>7. \A m \in Nodes : state'[m] = IF m = n THEN "detached" ELSE state[m]
  BY <1>1 DEF Types
<1>8. Lifecycle'
  <2>1. F("free", n) \in Frame
    BY <1>2, PlainFrame DEF PlainOps, FrameOps, ExclusiveOps, TimerOps
  <2>2. fs \in Seq(Frame) /\ OnlyBottom(fs) /\ LifeIn(fs) \subseteq {F("free", n)}
    BY <2>1 DEF OnlyBottom, LifeIn
  <2>3. ASSUME NEW f, f = F("free", n)
        PROVE  f.node = n /\ LifeFrameOK(a, f)'
    BY <1>2, <1>7, <2>3 DEF LifeFrameOK, F
  <2>4. ASSUME NEW b \in Actors \ {a}, NEW f \in LifeIn(code[b]), f.node # n, LifeFrameOK(b, f)
        PROVE  LifeFrameOK(b, f)'
    <3>1. f.node \in Nodes /\ f.op \in LifeOps
      <4>1. code[b] \in Seq(Frame)
        BY DEF Types
      <4>2. f \in Frame /\ f.op \in LifeOps
        BY <4>1 DEF LifeIn
      <4> QED
        BY <4>2, FrameFields DEF LifeOps
    <3>2. parent[f.node] = None => parent'[f.node] = None
      BY <1>3, <1>6, <2>4, <3>1
    <3> QED
      BY <1>1, <1>2, <1>7, <2>4, <3>1, <3>2 DEF LifeFrameOK
  <2> HIDE DEF fs
  <2> QED
    BY <1>1, <2>2, <2>3, <2>4, LifeStep DEF LifeOps
<1>9. LinksAgree'
  <2> SUFFICES ASSUME NEW m \in Nodes, NEW q \in Parents
               PROVE  m \in children'[q] <=> parent'[m] = q
    BY DEF LinksAgree
  <2>1. CASE q = n
    <3>1. children'[q] = {}
      BY <1>1, <1>3, <1>5, <2>1
    <3>2. parent'[m] # n
      BY <1>3, <1>5, <1>6
    <3> QED
      BY <2>1, <3>1, <3>2
  <2>2. CASE q = p
    <3>1. children'[q] = (children[q] \ {n}) \cup kids
      BY <1>1, <1>3, <1>5, <2>2
    <3> QED
      BY <1>3, <1>4, <1>5, <1>6, <2>2, <3>1
  <2>3. CASE q # n /\ q # p
    <3>1. children'[q] = children[q]
      BY <1>1, <1>3, <2>3
    <3>2. m \in children[q] <=> parent[m] = q
      BY <1>4
    <3>3. CASE m \in kids
      BY <1>6, <2>3, <3>1, <3>2, <3>3
    <3>4. CASE m = n
      BY <1>3, <1>6, <2>3, <3>1, <3>2, <3>4
    <3>5. CASE m \notin kids /\ m # n
      BY <1>6, <3>1, <3>2, <3>5
    <3> QED
      BY <3>3, <3>4, <3>5
  <2> QED
    BY <2>1, <2>2, <2>3
<1>10. Acyclic'
  <2> SUFFICES ASSUME NEW S \in SUBSET Nodes, S # {} PROVE \E m \in S : parent'[m] \notin S
    BY DEF Acyclic
  <2>1. CASE n \in S
    BY <1>3, <1>6, <2>1 DEF Parents
  <2>2. CASE n \notin S /\ p \in S
    <3>1. PICK m \in S \cup {n} : parent[m] \notin S \cup {n}
      BY <1>2 DEF TreeWellFormed, Acyclic
    <3>2. m \in S /\ m # n /\ m \notin kids
      BY <1>6, <2>2, <3>1
    <3> QED
      BY <1>6, <3>1, <3>2
  <2>3. CASE n \notin S /\ p \notin S
    <3>1. PICK m \in S : parent[m] \notin S
      BY DEF TreeWellFormed, Acyclic
    <3> QED
      BY <1>6, <2>3, <3>1
  <2> QED
    BY <2>1, <2>2, <2>3
<1>11. ParentsHeld'
  <2> SUFFICES ASSUME NEW m \in Nodes, parent'[m] \in Nodes
               PROVE  state'[parent'[m]] \in {"live", "closing"}
    BY DEF ParentsHeld
  <2>1. m # n
    BY <1>3, <1>6 DEF Parents
  <2>2. CASE m \in kids
    BY <1>2, <1>5, <1>6, <1>7, <2>2 DEF TreeWellFormed, ParentsHeld
  <2>3. CASE m \notin kids
    BY <1>6, <1>7, <2>1, <2>3 DEF TreeWellFormed, ParentsHeld
  <2> QED
    BY <2>2, <2>3
<1>12. OutsideTree'
  <2> SUFFICES ASSUME NEW m \in Nodes, state'[m] \in {"fresh", "detached", "freed"}
               PROVE  parent'[m] = None
    BY DEF OutsideTree
  <2>1. CASE m = n
    BY <1>6, <2>1
  <2>2. CASE m # n
    <3>1. parent[m] = None
      BY <1>7, <2>2 DEF TreeWellFormed, OutsideTree
    <3> QED
      BY <1>2, <1>3, <1>6, <2>2, <3>1 DEF Parents
  <2> QED
    BY <2>1, <2>2
<1> QED
  BY <1>8, <1>9, <1>10, <1>11, <1>12 DEF TreeWellFormed

\* Thread t starts a call that creates or destroys one node.
LEMMA LifeCall ==
    ASSUME Types, Lifecycle, NEW t \in Threads, NEW call, NEW handles \in SUBSET Nodes,
           NEW frames \in Seq(Frame), Begin(t, call, handles, frames), OnlyBottom(frames),
           \A f \in LifeIn(frames) : LifeFrameOK(t, f)',
           \A b \in Actors : \A f \in LifeIn(frames), g \in LifeIn(code[b]) : f.node # g.node,
           \A b \in Actors \ {t} : \A f \in LifeIn(code[b]) :
               LifeFrameOK(b, f) => LifeFrameOK(b, f)',
           \A f, g \in LifeIn(frames) : f = g
    PROVE  Lifecycle'
<1>1. /\ code' = [code EXCEPT ![t] = frames] /\ code \in [Actors -> Seq(Frame)] /\ t \in Actors
  BY DEF Begin, Types, Actors
<1>2. \A b \in Actors : OnlyBottom(code'[b])
  BY <1>1 DEF Lifecycle
<1>3. \A b \in Actors : \A f \in LifeIn(code'[b]) : LifeFrameOK(b, f)'
  <2> SUFFICES ASSUME NEW b \in Actors, NEW f \in LifeIn(code'[b]) PROVE LifeFrameOK(b, f)'
    OBVIOUS
  <2>1. CASE b = t
    BY <1>1, <2>1
  <2>2. CASE b # t
    <3>1. f \in LifeIn(code[b]) /\ LifeFrameOK(b, f)
      BY <1>1, <2>2 DEF Lifecycle
    <3> QED
      BY <2>2, <3>1
  <2> QED
    BY <2>1, <2>2
<1>4. \A b, c \in Actors : \A f \in LifeIn(code'[b]), g \in LifeIn(code'[c]) :
          f.node = g.node => b = c
  BY <1>1 DEF Lifecycle
<1> QED
  BY <1>2, <1>3, <1>4 DEF Lifecycle

\* The node of a life frame.
LEMMA LifeNode ==
    ASSUME Types, Lifecycle, NEW b \in Actors, NEW f \in LifeIn(code[b])
    PROVE  f.node \in Nodes /\ f.op \in LifeOps /\ LifeFrameOK(b, f) /\ code[b] # <<>>
<1>1. code[b] \in Seq(Frame) /\ code[b] # <<>>
  BY DEF Types, LifeIn
<1>2. f \in Frame /\ f.op \in LifeOps
  BY <1>1 DEF LifeIn
<1> QED
  BY <1>1, <1>2, FrameFields DEF LifeOps, Lifecycle

\* So does the call that creates a node.
LEMMA NewKeeps ==
    ASSUME Types, Lifecycle, TreeWellFormed, NEW t \in Threads, New(t)
    PROVE  Lifecycle' /\ TreeWellFormed'
<1>1. PICK n \in Nodes, p \in {Root} \cup {m \in Nodes : state[m] = "live"} :
          /\ state[n] = "fresh"
          /\ Begin(t, "new", {n, p} \cap Nodes, <<FA("attach", n, p)>>)
          /\ state' = [state EXCEPT ![n] = "init"]
  BY DEF New
<1> DEFINE g == FA("attach", n, p)
           fs == <<g>>
<1>2. /\ parent' = parent /\ children' = children
      /\ uses' = [uses EXCEPT ![t] = {n, p} \cap Nodes] /\ uses \in [Threads -> SUBSET Nodes]
      /\ \A m \in Nodes : state'[m] = IF m = n THEN "init" ELSE state[m]
  BY <1>1 DEF Begin, Types
<1>3. g \in Frame /\ g.op \in LifeOps /\ g.op = "attach" /\ g.node = n /\ g.arg = p
  BY DEF FA, Frame, LifeOps, Parents
<1>4. /\ fs \in Seq(Frame) /\ OnlyBottom(fs) /\ LifeIn(fs) = {g}
  BY <1>3 DEF OnlyBottom, LifeIn
<1>5. ASSUME NEW f, f = g PROVE LifeFrameOK(t, f)'
  <2>1. p \in Nodes => p \in uses'[t] /\ state'[p] = "live"
    BY <1>1, <1>2, ContextAssumption
  <2>2. parent'[n] = None
    BY <1>1, <1>2 DEF TreeWellFormed, OutsideTree
  <2> QED
    BY <1>2, <1>3, <1>5, <2>1, <2>2 DEF LifeFrameOK
<1>6. ASSUME NEW b \in Actors, NEW f \in LifeIn(code[b]) PROVE n # f.node
  BY <1>1, <1>6, LifeNode DEF LifeFrameOK, LifeOps
<1>7. ASSUME NEW b \in Actors \ {t}, NEW f \in LifeIn(code[b]), LifeFrameOK(b, f)
      PROVE  LifeFrameOK(b, f)'
  <2>1. f.node \in Nodes /\ f.node # n
    BY <1>6, <1>7, LifeNode
  <2>2. b \in Threads => uses'[b] = uses[b]
    BY <1>2, <1>7
  <2> QED
    BY <1>1, <1>2, <1>7, <2>1, <2>2 DEF LifeFrameOK
<1>8. Lifecycle'
  <2>1. {n, p} \cap Nodes \in SUBSET Nodes
    OBVIOUS
  <2>2. Begin(t, "new", {n, p} \cap Nodes, fs)
    BY <1>1
  <2> HIDE DEF fs, g
  <2> QED
    BY <1>3, <1>4, <1>5, <1>6, <1>7, <2>1, <2>2, LifeCall
<1>9. LinksAgree' /\ Acyclic'
  BY <1>2 DEF TreeWellFormed, LinksAgree, Acyclic
<1>10. ParentsHeld' /\ OutsideTree'
  BY <1>1, <1>2 DEF TreeWellFormed, ParentsHeld, OutsideTree
<1> QED
  BY <1>8, <1>9, <1>10 DEF TreeWellFormed

\* So does the call that ends one.
LEMMA DeinitKeeps ==
    ASSUME Types, Lifecycle, TreeWellFormed, NEW t \in Threads, Deinit(t)
    PROVE  Lifecycle' /\ TreeWellFormed'
<1> DEFINE timed(n) == IF KindOf[n] = "deadline" THEN <<F("stop", n), F("join", n)>> ELSE <<>>
<1>1. PICK n \in Nodes :
          /\ state[n] = "live"
          /\ \A u \in Threads : n \notin UsedBy(u)
          /\ Begin(t, "deinit", {n}, <<F("unbind", n)>> \o timed(n) \o <<F("detach", n)>>)
          /\ state' = [state EXCEPT ![n] = "closing"]
  BY DEF Deinit
<1> DEFINE quiet == <<F("unbind", n)>> \o timed(n)
           g == F("detach", n)
<1>2. /\ parent' = parent /\ children' = children
      /\ uses' = [uses EXCEPT ![t] = {n}] /\ uses \in [Threads -> SUBSET Nodes]
      /\ \A m \in Nodes : state'[m] = IF m = n THEN "closing" ELSE state[m]
  BY <1>1 DEF Begin, Types
<1>3. g \in Frame /\ g.op \in LifeOps /\ g.op = "detach" /\ g.node = n
  BY PlainFrame DEF F, LifeOps, PlainOps, FrameOps, ExclusiveOps, TimerOps
<1>4. quiet \in Seq(Frame) /\ NoLife(quiet)
  <2>1. F("unbind", n) \in Frame /\ F("stop", n) \in Frame /\ F("join", n) \in Frame
    BY PlainFrame DEF PlainOps, FrameOps, ExclusiveOps, TimerOps
  <2>2. <<F("unbind", n)>> \in Seq(Frame) /\ timed(n) \in Seq(Frame)
    BY <2>1
  <2>3. NoLife(<<F("unbind", n)>>)
    BY DEF NoLife, F, LifeOps
  <2>4. NoLife(timed(n))
    BY DEF NoLife, F, LifeOps
  <2> HIDE DEF timed
  <2> QED
    BY <2>2, <2>3, <2>4, QuietConcat
<1>5. ASSUME NEW f, f = g PROVE LifeFrameOK(t, f)'
  BY <1>2, <1>3, <1>5 DEF LifeFrameOK
<1>6. ASSUME NEW b \in Actors, NEW f \in LifeIn(code[b]) PROVE n # f.node
  BY <1>1, <1>6, LifeNode DEF LifeFrameOK, LifeOps
<1>7. ASSUME NEW b \in Actors \ {t}, NEW f \in LifeIn(code[b]), LifeFrameOK(b, f)
      PROVE  LifeFrameOK(b, f)'
  <2>1. f.node \in Nodes /\ f.node # n /\ code[b] # <<>>
    BY <1>6, <1>7, LifeNode
  <2>2. b \in Threads => uses'[b] = uses[b] /\ n \notin uses[b]
    BY <1>1, <1>2, <1>7, <2>1 DEF UsedBy, Idle
  <2> QED
    BY <1>2, <1>7, <2>1, <2>2 DEF LifeFrameOK
<1>8. Lifecycle'
  <2>1. Begin(t, "deinit", {n}, quiet \o <<g>>)
    BY <1>1
  <2> HIDE DEF quiet, g
  <2>2. /\ quiet \o <<g>> \in Seq(Frame) /\ OnlyBottom(quiet \o <<g>>)
        /\ LifeIn(quiet \o <<g>>) = {g}
    BY <1>3, <1>4, BottomStack
  <2> QED
    BY <1>3, <1>5, <1>6, <1>7, <2>1, <2>2, LifeCall
<1>9. LinksAgree' /\ Acyclic'
  BY <1>2 DEF TreeWellFormed, LinksAgree, Acyclic
<1>10. ParentsHeld' /\ OutsideTree'
  BY <1>1, <1>2 DEF TreeWellFormed, ParentsHeld, OutsideTree
<1> QED
  BY <1>8, <1>9, <1>10 DEF TreeWellFormed

(***************************************************************************)
(* The tree is well formed.                                                *)
(***************************************************************************)
LEMMA InitTree == Init => Lifecycle /\ TreeWellFormed
<1> SUFFICES ASSUME Init PROVE Lifecycle /\ TreeWellFormed
  OBVIOUS
<1>1. \A a \in Actors : OnlyBottom(code[a]) /\ LifeIn(code[a]) = {}
  <2> SUFFICES ASSUME NEW a \in Actors PROVE OnlyBottom(code[a]) /\ LifeIn(code[a]) = {}
    OBVIOUS
  <2>1. code[a] = <<>> \/ code[a] = <<F("tTop", a)>>
    BY DEF Init
  <2>2. OnlyBottom(<<>>) /\ LifeIn(<<>>) = {}
    BY DEF OnlyBottom, LifeIn
  <2>3. OnlyBottom(<<F("tTop", a)>>) /\ LifeIn(<<F("tTop", a)>>) = {}
    BY DEF OnlyBottom, LifeIn, F, LifeOps
  <2> QED
    BY <2>1, <2>2, <2>3
<1>2. Lifecycle
  BY <1>1 DEF Lifecycle
<1>3. LinksAgree
  BY DEF Init, LinksAgree
<1>4. Acyclic
  BY ContextAssumption DEF Init, Acyclic
<1>5. ParentsHeld /\ OutsideTree
  BY ContextAssumption DEF Init, ParentsHeld, OutsideTree
<1> QED
  BY <1>2, <1>3, <1>4, <1>5 DEF TreeWellFormed

\* Every step keeps the lives and the tree.
LEMMA NextTree ==
    Types /\ Lifecycle /\ TreeWellFormed /\ [Next]_vars => Lifecycle' /\ TreeWellFormed'
<1> SUFFICES ASSUME Types, Lifecycle, TreeWellFormed, [Next]_vars
             PROVE  Lifecycle' /\ TreeWellFormed'
  OBVIOUS
<1>1. ASSUME Calm PROVE Lifecycle' /\ TreeWellFormed'
  BY <1>1, CalmKeepsLifecycle, CalmKeepsTree
<1>2. ASSUME NEW a \in Actors, Step(a) PROVE Lifecycle' /\ TreeWellFormed'
  <2>1. CASE Creating(a)
    BY <1>1, <2>1, AttachKeeps, AdoptKeeps, ArmCalm, ReadyKeeps DEF Creating
  <2>2. CASE Links(a)
    BY <1>1, <2>2, QuietLinksCalm, DetachKeeps, FreeKeeps DEF Links
  <2>3. CASE Locking(a) \/ Walk(a) \/ Asks(a)
    BY <1>1, <2>3, LockingCalm, WalkCalm, AsksCalm
  <2>4. CASE Wait(a) \/ WaitTimeout(a)
    BY <1>1, <2>4, QuietLinksCalm
  <2>5. CASE a \in Nodes /\ Timer(a)
    BY <1>1, <2>5, TimerCalm
  <2> QED
    BY <1>2, <2>1, <2>2, <2>3, <2>4, <2>5 DEF Step
<1>3. ASSUME NEW t \in Threads, Call(t) PROVE Lifecycle' /\ TreeWellFormed'
  BY <1>3, NewKeeps, DeinitKeeps, QuietCall DEF Call
<1>4. CASE Tick \/ UNCHANGED vars
  BY <1>1, <1>4, StutterCalm DEF Tick, vars, nodeVars, clientVars
<1> QED
  BY <1>2, <1>3, <1>4 DEF Next, Resting

\* Whatever creations, reparenting deinits, walks and expiries overlap, parent
\* links and children lists describe one forest, nothing hangs below a node
\* that has left the tree, and the stacks keep the discipline this rests on.
THEOREM TreeStaysWellFormed == Spec => []TreeWellFormed
<1>1. Init => Types /\ Lifecycle /\ TreeWellFormed
  BY InitTyped, InitTree
<1>2. Types /\ Lifecycle /\ TreeWellFormed /\ [Next]_vars
          => (Types /\ Lifecycle /\ TreeWellFormed)'
  BY NextTyped, NextTree
<1> QED
  BY <1>1, <1>2, PTL DEF Spec

\* The inductive companion of the theorem above, a checked property itself.
THEOREM LifecycleHolds == Spec => []Lifecycle
<1>1. Init => Types /\ Lifecycle /\ TreeWellFormed
  BY InitTyped, InitTree
<1>2. Types /\ Lifecycle /\ TreeWellFormed /\ [Next]_vars
          => (Types /\ Lifecycle /\ TreeWellFormed)'
  BY NextTyped, NextTree
<1> QED
  BY <1>1, <1>2, PTL DEF Spec


-----------------------------------------------------------------------------
(***************************************************************************)
(* The shared holds of a walk.  A frame that gives the lock back is paid   *)
(* for once the frame that takes it, two frames above, is gone.            *)
(***************************************************************************)
Paid(st) ==
    {j \in 1..Len(st) : /\ st[j].op = "unshare"
                        /\ ~ \E i \in 1..Len(st) : j = i + 2 /\ st[i].op = "share"}
Covered(st, i) == \E j \in Paid(st) : j > i

\* a share frame is followed by the step it is for and by its unshare
Paired(st) ==
    \A i \in 1..Len(st) : st[i].op = "share" =>
        /\ i + 2 <= Len(st)
        /\ st[i + 1].op \in {"mark", "fire"}
        /\ st[i + 2].op = "unshare"

\* the frames that read a children list run under the lock
Walking(f) == f.op \in {"fire", "kids"} \/ (f.op = "mark" /\ KindOf[f.node] # "value")
Guarded(st) ==
    \A i \in 1..Len(st) : Walking(st[i]) =>
        Covered(st, i) \/ \E k \in 1..Len(st) : k + 1 = i /\ st[k].op = "share"

LocksRight ==
    /\ \A a \in Actors : Paired(code[a]) /\ Guarded(code[a])
    /\ \A a \in Actors : shares[a] = Cardinality(Paid(code[a]))

\* Moving a finite set of numbers does not change how many they are.
LEMMA ShiftedCount ==
    ASSUME NEW n \in Nat, NEW S \in SUBSET (1..n), NEW d \in Int
    PROVE  /\ IsFiniteSet(S) /\ Cardinality(S) \in Nat
           /\ Cardinality({k + d : k \in S}) = Cardinality(S)
<1>1. IsFiniteSet(S) /\ Cardinality(S) \in Nat
  <2>1. IsFiniteSet(1..n)
    BY FS_Interval
  <2>2. IsFiniteSet(S)
    BY <2>1, FS_Subset
  <2> QED
    BY <2>2, FS_CardinalityType
<1> DEFINE T == {k + d : k \in S}
           f == [k \in S |-> k + d]
<1>2. f \in [S -> T] /\ \A k \in S : f[k] = k + d /\ k \in Int
  OBVIOUS
<1>3. \A x, y \in S : f[x] = f[y] => x = y
  BY <1>2
<1>4. \A t \in T : \E k \in S : f[k] = t
  BY <1>2
<1>5. ExistsBijection(S, T)
  BY <1>2, <1>3, <1>4 DEF ExistsBijection, Bijection, Injection, Surjection, IsInjective
<1> QED
  BY <1>1, <1>5, FS_Bijection

\* Where the frames of a stack are after its head has been replaced.
LEMMA Replaced ==
    ASSUME NEW st \in Seq(Frame), st # <<>>, NEW fs \in Seq(Frame)
    PROVE  /\ Len(st) \in Nat \ {0} /\ Len(fs) \in Nat
           /\ fs \o Tail(st) \in Seq(Frame)
           /\ Len(fs \o Tail(st)) = Len(fs) + Len(st) - 1
           /\ \A i \in 1..Len(fs) : (fs \o Tail(st))[i] = fs[i]
           /\ \A k \in 2..Len(st) : (fs \o Tail(st))[k - 1 + Len(fs)] = st[k]
           /\ \A i \in Len(fs) + 1..Len(fs \o Tail(st)) :
                  /\ i - Len(fs) + 1 \in 2..Len(st)
                  /\ (fs \o Tail(st))[i] = st[i - Len(fs) + 1]
           /\ Head(st) = st[1]
  OBVIOUS

\* Frames pushed in place of a head that neither takes nor gives back the
\* lock pay for nothing and move what is paid for.
LEMMA PaidReplaced ==
    ASSUME NEW st \in Seq(Frame), st # <<>>, NEW fs \in Seq(Frame),
           Paired(st), Paired(fs), Paid(fs) = {}, Head(st).op \notin {"share", "unshare"}
    PROVE  /\ Paired(fs \o Tail(st))
           /\ Paid(fs \o Tail(st)) = {k + (Len(fs) - 1) : k \in Paid(st)}
           /\ \A k \in Paid(st) : k > 1
<1> DEFINE new == fs \o Tail(st)
           l == Len(fs)
<1>1. /\ Len(st) \in Nat \ {0} /\ l \in Nat
      /\ Len(new) = l + Len(st) - 1
      /\ \A i \in 1..l : new[i] = fs[i]
      /\ \A k \in 2..Len(st) : new[k - 1 + l] = st[k]
      /\ \A i \in l + 1..Len(new) : i - l + 1 \in 2..Len(st) /\ new[i] = st[i - l + 1]
      /\ Head(st) = st[1]
  BY Replaced
<1> HIDE DEF new, l
<1>2. \A k \in Paid(st) : k > 1 /\ k \in 2..Len(st)
  BY <1>1 DEF Paid
<1>3. Paired(new)
  <2> SUFFICES ASSUME NEW i \in 1..Len(new), new[i].op = "share"
               PROVE  /\ i + 2 <= Len(new) /\ new[i + 1].op \in {"mark", "fire"}
                      /\ new[i + 2].op = "unshare"
    BY DEF Paired
  <2>1. CASE i <= l
    <3>1. i \in 1..l /\ fs[i].op = "share"
      BY <1>1, <2>1
    <3>2. i + 2 <= l /\ fs[i + 1].op \in {"mark", "fire"} /\ fs[i + 2].op = "unshare"
      BY <3>1 DEF Paired, l
    <3> QED
      BY <1>1, <3>1, <3>2
  <2>2. CASE i > l
    <3> DEFINE k == i - l + 1
    <3>1. k \in 2..Len(st) /\ st[k].op = "share"
      BY <1>1, <2>2
    <3>2. k + 2 <= Len(st) /\ st[k + 1].op \in {"mark", "fire"} /\ st[k + 2].op = "unshare"
      BY <3>1 DEF Paired
    <3>3. new[(k + 1) - 1 + l] = st[k + 1] /\ new[(k + 2) - 1 + l] = st[k + 2]
      BY <1>1, <3>1, <3>2
    <3>4. (k + 1) - 1 + l = i + 1 /\ (k + 2) - 1 + l = i + 2 /\ i + 2 <= Len(new)
      BY <1>1, <3>1, <3>2
    <3> QED
      BY <3>2, <3>3, <3>4
  <2> QED
    BY <1>1, <2>1, <2>2
<1>4. ASSUME NEW k \in Paid(st) PROVE k + (l - 1) \in Paid(new)
  <2>1. k \in 2..Len(st) /\ st[k].op = "unshare"
        /\ ~ \E i \in 1..Len(st) : k = i + 2 /\ st[i].op = "share"
    BY <1>2 DEF Paid
  <2>2. k + (l - 1) = k - 1 + l /\ k - 1 + l \in 1..Len(new) /\ new[k - 1 + l] = st[k]
    BY <1>1, <2>1
  <2>3. ASSUME NEW i \in 1..Len(new), k - 1 + l = i + 2, new[i].op = "share" PROVE FALSE
    <3>1. CASE i <= l
      <4>1. i \in 1..l /\ fs[i].op = "share"
        BY <1>1, <2>3, <3>1
      <4>2. i + 2 <= l
        BY <4>1 DEF Paired, l
      <4> QED
        BY <1>1, <2>1, <2>3, <4>1, <4>2
    <3>2. CASE i > l
      <4>1. i - l + 1 \in 2..Len(st) /\ st[i - l + 1].op = "share"
        BY <1>1, <2>3, <3>2
      <4>2. k = (i - l + 1) + 2
        BY <1>1, <2>1, <2>3
      <4> QED
        BY <2>1, <4>1, <4>2
    <3> QED
      BY <1>1, <3>1, <3>2
  <2> QED
    BY <2>1, <2>2, <2>3 DEF Paid
<1>5. ASSUME NEW j \in Paid(new) PROVE \E k \in Paid(st) : j = k + (l - 1)
  <2>1. j \in 1..Len(new) /\ new[j].op = "unshare"
        /\ ~ \E i \in 1..Len(new) : j = i + 2 /\ new[i].op = "share"
    BY DEF Paid
  <2>2. CASE j <= l
    <3>1. j \in 1..l /\ fs[j].op = "unshare"
      BY <1>1, <2>1, <2>2
    <3>2. PICK i \in 1..l : j = i + 2 /\ fs[i].op = "share"
      BY <3>1 DEF Paid, l
    <3>3. i \in 1..Len(new) /\ new[i].op = "share"
      BY <1>1, <3>1, <3>2
    <3> QED
      BY <2>1, <3>2, <3>3
  <2>3. CASE j > l
    <3> DEFINE k == j - l + 1
    <3>1. k \in 2..Len(st) /\ st[k].op = "unshare"
      BY <1>1, <2>1, <2>3
    <3>2. ASSUME NEW i \in 1..Len(st), k = i + 2, st[i].op = "share" PROVE FALSE
      <4>1. i # 1
        BY <1>1, <3>2
      <4>2. i \in 2..Len(st) /\ new[i - 1 + l] = st[i] /\ i - 1 + l \in 1..Len(new)
        <5>1. i \in 2..Len(st)
          BY <4>1
        <5>2. new[i - 1 + l] = st[i]
          BY <1>1, <5>1
        <5>3. i - 1 + l \in 1..(l + Len(st) - 1)
          BY <1>1, <5>1
        <5>4. Len(new) = l + Len(st) - 1
          BY <1>1
        <5> QED
          BY <5>1, <5>2, <5>3, <5>4
      <4>3. j = (i - 1 + l) + 2
        BY <1>1, <2>1, <3>2
      <4> QED
        BY <2>1, <3>2, <4>2, <4>3
    <3>3. k \in Paid(st) /\ j = k + (l - 1)
      BY <1>1, <2>1, <3>1, <3>2 DEF Paid
    <3> QED
      BY <3>3
  <2> QED
    BY <1>1, <2>1, <2>2, <2>3
<1>6. Paid(new) = {k + (l - 1) : k \in Paid(st)}
  BY <1>4, <1>5
<1> QED
  BY <1>2, <1>3, <1>6 DEF new, l

\* Taking the lock pays for one more frame.
LEMMA PaidShare ==
    ASSUME NEW st \in Seq(Frame), st # <<>>, Paired(st), Head(st).op = "share"
    PROVE  /\ Paired(Tail(st))
           /\ Paid(Tail(st)) = {k + -1 : k \in Paid(st) \cup {3}}
           /\ 3 \notin Paid(st) /\ 3 <= Len(st)
           /\ \A k \in Paid(st) : k > 1
<1> DEFINE new == Tail(st)
<1>1. /\ Len(st) \in Nat \ {0}
      /\ Len(new) = Len(st) - 1
      /\ \A i \in 1..Len(new) : i + 1 \in 2..Len(st) /\ new[i] = st[i + 1]
      /\ Head(st) = st[1]
  OBVIOUS
<1> HIDE DEF new
<1>2. 3 <= Len(st) /\ st[2].op \in {"mark", "fire"} /\ st[3].op = "unshare"
  BY <1>1 DEF Paired
<1>3. 3 \notin Paid(st) /\ \A k \in Paid(st) : k > 1 /\ k \in 2..Len(st)
  BY <1>1 DEF Paid
<1>4. Paired(new)
  <2> SUFFICES ASSUME NEW i \in 1..Len(new), new[i].op = "share"
               PROVE  /\ i + 2 <= Len(new) /\ new[i + 1].op \in {"mark", "fire"}
                      /\ new[i + 2].op = "unshare"
    BY DEF Paired
  <2>1. i + 1 \in 1..Len(st) /\ st[i + 1].op = "share"
    BY <1>1
  <2>2. /\ (i + 1) + 2 <= Len(st) /\ st[(i + 1) + 1].op \in {"mark", "fire"}
        /\ st[(i + 1) + 2].op = "unshare"
    BY <2>1 DEF Paired
  <2>3. new[i + 1] = st[(i + 1) + 1] /\ new[i + 2] = st[(i + 1) + 2]
    BY <1>1, <2>1, <2>2
  <2> QED
    BY <1>1, <2>2, <2>3
<1>5. ASSUME NEW k \in Paid(st) \cup {3} PROVE k + -1 \in Paid(new)
  <2>1. k \in 2..Len(st) /\ st[k].op = "unshare"
        /\ ~ \E i \in 2..Len(st) : k = i + 2 /\ st[i].op = "share"
    BY <1>1, <1>2, <1>3 DEF Paid
  <2>2. k + -1 \in 1..Len(new) /\ new[k + -1] = st[k]
    BY <1>1, <2>1
  <2>3. ASSUME NEW i \in 1..Len(new), k + -1 = i + 2, new[i].op = "share" PROVE FALSE
    BY <1>1, <2>1, <2>3
  <2> QED
    BY <2>1, <2>2, <2>3 DEF Paid
<1>6. ASSUME NEW j \in Paid(new) PROVE \E k \in Paid(st) \cup {3} : j = k + -1
  <2>1. j \in 1..Len(new) /\ new[j].op = "unshare"
        /\ ~ \E i \in 1..Len(new) : j = i + 2 /\ new[i].op = "share"
    BY DEF Paid
  <2>2. j + 1 \in 2..Len(st) /\ st[j + 1].op = "unshare"
    BY <1>1, <2>1
  <2>3. CASE j # 2
    <3>1. ASSUME NEW i \in 1..Len(st), j + 1 = i + 2, st[i].op = "share" PROVE FALSE
      <4>1. i - 1 \in 1..Len(new) /\ new[i - 1] = st[i] /\ j = (i - 1) + 2
        BY <1>1, <2>1, <2>3, <3>1
      <4> QED
        BY <2>1, <3>1, <4>1
    <3>2. j + 1 \in Paid(st)
      BY <1>1, <2>2, <3>1 DEF Paid
    <3>3. j = (j + 1) + -1
      BY <2>1
    <3> QED
      BY <3>2, <3>3
  <2>4. CASE j = 2
    <3>1. 3 \in Paid(st) \cup {3} /\ 2 = 3 + -1
      OBVIOUS
    <3> QED
      BY <2>4, <3>1
  <2> QED
    BY <2>3, <2>4
<1>7. Paid(new) = {k + -1 : k \in Paid(st) \cup {3}}
  BY <1>5, <1>6
<1> QED
  BY <1>2, <1>3, <1>4, <1>7 DEF new

\* Giving the lock back pays for one frame less.
LEMMA PaidUnshare ==
    ASSUME NEW st \in Seq(Frame), st # <<>>, Paired(st), Head(st).op = "unshare"
    PROVE  /\ Paired(Tail(st))
           /\ Paid(Tail(st)) = {k + -1 : k \in Paid(st) \ {1}}
           /\ 1 \in Paid(st)
<1> DEFINE new == Tail(st)
<1>1. /\ Len(st) \in Nat \ {0}
      /\ Len(new) = Len(st) - 1
      /\ \A i \in 1..Len(new) : i + 1 \in 2..Len(st) /\ new[i] = st[i + 1]
      /\ Head(st) = st[1]
  OBVIOUS
<1> HIDE DEF new
<1>2. 1 \in Paid(st)
  BY <1>1 DEF Paid
<1>3. Paired(new)
  <2> SUFFICES ASSUME NEW i \in 1..Len(new), new[i].op = "share"
               PROVE  /\ i + 2 <= Len(new) /\ new[i + 1].op \in {"mark", "fire"}
                      /\ new[i + 2].op = "unshare"
    BY DEF Paired
  <2>1. i + 1 \in 1..Len(st) /\ st[i + 1].op = "share"
    BY <1>1
  <2>2. /\ (i + 1) + 2 <= Len(st) /\ st[(i + 1) + 1].op \in {"mark", "fire"}
        /\ st[(i + 1) + 2].op = "unshare"
    BY <2>1 DEF Paired
  <2>3. new[i + 1] = st[(i + 1) + 1] /\ new[i + 2] = st[(i + 1) + 2]
    BY <1>1, <2>1, <2>2
  <2> QED
    BY <1>1, <2>2, <2>3
<1>4. ASSUME NEW k \in Paid(st) \ {1} PROVE k + -1 \in Paid(new)
  <2>1. k \in 2..Len(st) /\ st[k].op = "unshare"
        /\ ~ \E i \in 1..Len(st) : k = i + 2 /\ st[i].op = "share"
    BY <1>1 DEF Paid
  <2>2. k + -1 \in 1..Len(new) /\ new[k + -1] = st[k]
    BY <1>1, <2>1
  <2>3. ASSUME NEW i \in 1..Len(new), k + -1 = i + 2, new[i].op = "share" PROVE FALSE
    BY <1>1, <2>1, <2>3
  <2> QED
    BY <2>1, <2>2, <2>3 DEF Paid
<1>5. ASSUME NEW j \in Paid(new) PROVE \E k \in Paid(st) \ {1} : j = k + -1
  <2>1. j \in 1..Len(new) /\ new[j].op = "unshare"
        /\ ~ \E i \in 1..Len(new) : j = i + 2 /\ new[i].op = "share"
    BY DEF Paid
  <2>2. j + 1 \in 2..Len(st) /\ st[j + 1].op = "unshare"
    BY <1>1, <2>1
  <2>3. ASSUME NEW i \in 1..Len(st), j + 1 = i + 2, st[i].op = "share" PROVE FALSE
    <3>1. i # 1
      BY <1>1, <2>3
    <3>2. i - 1 \in 1..Len(new) /\ new[i - 1] = st[i] /\ j = (i - 1) + 2
      BY <1>1, <2>1, <2>3, <3>1
    <3> QED
      BY <2>1, <2>3, <3>2
  <2>4. j + 1 \in Paid(st) \ {1} /\ j = (j + 1) + -1
    BY <1>1, <2>1, <2>2, <2>3 DEF Paid
  <2> QED
    BY <2>4
<1>6. Paid(new) = {k + -1 : k \in Paid(st) \ {1}}
  BY <1>4, <1>5
<1> QED
  BY <1>2, <1>3, <1>6 DEF new

-----------------------------------------------------------------------------
(***************************************************************************)
(* The shape of the stacks.                                                *)
(***************************************************************************)
UserOps == {"attach", "adopt", "arm", "ready", "bind", "unbind", "join", "detach", "free",
            "err", "inherit", "wait", "waitT", "return"}

\* A user's frames are on a thread's stack and a timer task's on its own;
\* which frames are alone, first or last, and what a join or an arm is for.
FrameFits(a, st, i) ==
    /\ st[i].op \in UserOps => a \in Threads
    /\ st[i].op \in TimerOps => a \in Nodes /\ Len(st) = 1 /\ st[i].node = a
    /\ st[i].op = "join" => \E g \in LifeIn(st) : g.op = "detach" /\ g.node = st[i].node
    /\ st[i].op = "arm" => /\ KindOf[st[i].node] = "deadline"
                           /\ i = 1 /\ Len(st) = 2 /\ st[2] = F("ready", st[i].node)
    /\ st[i].op = "attach" => Len(st) = 1
    /\ st[i].op = "err" => i = 1
    /\ st[i].op = "return" => i = Len(st)
StackFits(a, st) == \A i \in 1..Len(st) : FrameFits(a, st, i)
StacksFit == \A a \in Actors : StackFits(a, code[a])

\* the step replaces the head of a's stack by fs
Moves(a, fs) == code[a] # <<>> /\ code' = [code EXCEPT ![a] = fs \o Tail(code[a])]

\* What a step that replaces its head frame by fs does to the stacks.
LEMMA MovesWhat ==
    ASSUME Types, NEW a \in Actors, NEW fs \in Seq(Frame), Moves(a, fs)
    PROVE  /\ code[a] \in Seq(Frame) /\ code[a] # <<>> /\ Top(a) = Head(code[a])
           /\ code'[a] = fs \o Tail(code[a])
           /\ \A b \in Actors : b # a => code'[b] = code[b]
           /\ \A b \in Actors : code[b] \in Seq(Frame) /\ code'[b] \in Seq(Frame)
  BY Replaced DEF Types, Moves, Top

\* Continue is a move, and so is a timer task's change of its only frame.
LEMMA ContinueMoves ==
    ASSUME NEW a \in Actors, NEW fs, code[a] # <<>>, Continue(a, fs)
    PROVE  Moves(a, fs)
  BY DEF Continue, Moves, Rest

\* A timer task that takes up fs replaces its head frame by them.
LEMMA BecomeMoves ==
    ASSUME Types, StacksFit, NEW n \in Nodes, NEW fs \in Seq(Frame), Become(n, fs),
           code[n] # <<>>, Top(n).op \in TimerOps
    PROVE  Moves(n, fs)
<1>1. n \in Actors /\ code[n] \in Seq(Frame)
  BY DEF Types, Actors
<1>2. 1 \in 1..Len(code[n]) /\ code[n][1] = Top(n)
  BY <1>1 DEF Top
<1>3. Len(code[n]) = 1
  BY <1>1, <1>2 DEF StacksFit, StackFits, FrameFits
<1>4. Tail(code[n]) = <<>> /\ fs \o <<>> = fs
  <2>1. Tail(code[n]) \in Seq(Frame) /\ Len(Tail(code[n])) = 0
    BY <1>1, <1>3
  <2>2. Tail(code[n]) = <<>>
    BY <2>1, EmptySeq
  <2>3. fs \o <<>> = fs
    OBVIOUS
  <2> QED
    BY <2>2, <2>3
<1> QED
  BY <1>4 DEF Become, Moves

FreeOps == {"share", "unshare", "mark", "broadcast", "fire", "kids", "stop"}
Unmarked(a, fs) ==
    \A i \in 1..Len(fs) : \/ fs[i].op \in FreeOps
                          \/ a \in Threads /\ fs[i].op \in {"inherit", "adopt", "ready", "free"}
                          \/ a \in Threads /\ fs[i].op = "err" /\ i = 1

\* A stack still fits its actor when its head gives way to unmarked frames.
LEMMA FitReplaced ==
    ASSUME NEW a, NEW st \in Seq(Frame), st # <<>>, StackFits(a, st),
           NEW fs \in Seq(Frame), Unmarked(a, fs)
    PROVE  StackFits(a, fs \o Tail(st))
<1> DEFINE new == fs \o Tail(st)
           l == Len(fs)
<1>1. /\ Len(st) \in Nat \ {0} /\ l \in Nat
      /\ new \in Seq(Frame)
      /\ Len(new) = l + Len(st) - 1
      /\ \A i \in 1..l : new[i] = fs[i]
      /\ \A k \in 2..Len(st) : new[k - 1 + l] = st[k]
      /\ \A i \in l + 1..Len(new) : i - l + 1 \in 2..Len(st) /\ new[i] = st[i - l + 1]
  BY Replaced
<1> HIDE DEF new, l
<1>2. Len(st) >= 2 => LifeIn(new) = LifeIn(st)
  <2> SUFFICES ASSUME Len(st) >= 2 PROVE LifeIn(new) = LifeIn(st)
    OBVIOUS
  <2>1. new[Len(st) - 1 + l] = st[Len(st)] /\ Len(new) = Len(st) - 1 + l /\ Len(new) # 0
    BY <1>1
  <2>2. new # <<>>
    BY <2>1
  <2> QED
    BY <2>1, <2>2 DEF LifeIn
<1> SUFFICES ASSUME NEW i \in 1..Len(new) PROVE FrameFits(a, new, i)
  BY DEF StackFits, new
<1>3. CASE i <= l
  <2>1. i \in 1..l /\ new[i] = fs[i]
    BY <1>1, <1>3
  <2>2. \/ new[i].op \in FreeOps
        \/ a \in Threads /\ new[i].op \in {"inherit", "adopt", "ready", "free"}
        \/ a \in Threads /\ new[i].op = "err" /\ i = 1
    BY <2>1 DEF Unmarked, l
  <2> QED
    BY <2>2 DEF FrameFits, FreeOps, UserOps, TimerOps
<1>4. CASE i > l
  <2> DEFINE k == i - l + 1
  <2>1. k \in 2..Len(st) /\ new[i] = st[k]
    BY <1>1, <1>4
  <2>2. FrameFits(a, st, k) /\ k # 1 /\ Len(st) >= 2
    BY <2>1 DEF StackFits
  <2>3. k = Len(st) => i = Len(new)
    BY <1>1
  <2> HIDE DEF k
  <2> QED
    BY <1>2, <2>1, <2>2, <2>3 DEF FrameFits
<1> QED
  BY <1>1, <1>3, <1>4

\* So do all stacks after a step that pushes only unmarked frames.
LEMMA FitMove ==
    ASSUME Types, StacksFit, NEW a \in Actors, NEW fs \in Seq(Frame), Moves(a, fs),
           Unmarked(a, fs)
    PROVE  StacksFit'
<1>1. /\ code[a] \in Seq(Frame) /\ code[a] # <<>>
      /\ code'[a] = fs \o Tail(code[a])
      /\ \A b \in Actors : b # a => code'[b] = code[b]
  BY MovesWhat
<1>2. StackFits(a, code'[a])
  BY <1>1, FitReplaced DEF StacksFit
<1>3. \A b \in Actors : StackFits(b, code'[b])
  BY <1>1, <1>2 DEF StacksFit
<1> QED
  BY <1>3 DEF StacksFit, StackFits, FrameFits

\* What walks push is free to stand anywhere.
LEMMA WalkUnmarked ==
    ASSUME NEW a, NEW n \in Nodes, NEW c \in Causes
    PROVE  /\ Unmarked(a, MarkCanceled(n, c))
           /\ Unmarked(a, Propagate(n, c))
           /\ Unmarked(a, AfterMark(n, c))
           /\ Unmarked(a, <<>>)
<1>1. \A op \in FreeOps : Unmarked(a, <<F(op, n)>>)
  BY DEF Unmarked, F
<1>2. Unmarked(a, <<FA("mark", n, c)>>)
  BY DEF Unmarked, FA, FreeOps
<1>3. Unmarked(a, <<F("share", n), FA("mark", n, c), F("unshare", n)>>)
  BY DEF Unmarked, F, FA, FreeOps
<1>4. Unmarked(a, <<F("stop", n), FA("mark", n, c)>>)
  BY DEF Unmarked, F, FA, FreeOps
<1>5. Unmarked(a, <<F("broadcast", n), FA("fire", n, c)>>)
  BY DEF Unmarked, F, FA, FreeOps
<1>6. Unmarked(a, <<F("broadcast", n), F("share", n), FA("fire", n, c), F("unshare", n)>>)
  BY DEF Unmarked, F, FA, FreeOps
<1>7. Unmarked(a, <<>>)
  BY DEF Unmarked
<1>8. KindOf[n] \in {"cancel", "deadline", "value"}
  BY ContextAssumption
<1> QED
  BY <1>2, <1>3, <1>4, <1>5, <1>6, <1>7, <1>8 DEF MarkCanceled, Propagate, AfterMark

\* Two unmarked pieces of code are unmarked together.
LEMMA UnmarkedConcat ==
    ASSUME NEW a, NEW x \in Seq(Frame), NEW y \in Seq(Frame), Unmarked(a, x), Unmarked(a, y),
           \A i \in 1..Len(y) : y[i].op # "err"
    PROVE  Unmarked(a, x \o y)
<1>1. \A i \in 1..Len(x \o y) :
          \/ i \in 1..Len(x) /\ (x \o y)[i] = x[i]
          \/ i - Len(x) \in 1..Len(y) /\ (x \o y)[i] = y[i - Len(x)]
  OBVIOUS
<1> QED
  BY <1>1 DEF Unmarked

-----------------------------------------------------------------------------
(***************************************************************************)
(* What each step does to the stack it is about.                           *)
(***************************************************************************)
\* the head frame, with its operation
Head1(a, ops) == /\ code[a] # <<>> /\ code[a] \in Seq(Frame)
                 /\ Top(a) = code[a][1] /\ Top(a).op \in ops
                 /\ 1 \in 1..Len(code[a]) /\ Top(a) \in Frame

\* What an actor at a step, or asleep in it, has on top of its stack.
LEMMA HeadAt ==
    ASSUME Types, NEW a \in Actors, NEW op, At(a, op) \/ Sleeping(a, op)
    PROVE  /\ Head1(a, {op}) /\ Top(a).op = op
           /\ Top(a).node \in Parents
           /\ op # "err" => Top(a).node \in Nodes
           /\ op \in {"mark", "fire", "kids"} =>
                  Top(a).arg \in Causes /\ Top(a).todo \subseteq Nodes
           /\ op = "attach" => Top(a).arg \in Parents
<1>1. code[a] # <<>> /\ Top(a).op = op /\ code[a] \in Seq(Frame)
  BY DEF At, Sleeping, Top, Types
<1>2. Top(a) \in Frame
  BY <1>1, TopFrame
<1>3. Top(a) = code[a][1] /\ 1 \in 1..Len(code[a])
  BY <1>1 DEF Top
<1> QED
  BY <1>1, <1>2, <1>3, FrameFields DEF Head1

\* What the steps on the lock do.
LEMMA WhatLocking ==
    ASSUME Types, NEW a \in Actors, Locking(a)
    PROVE  \/ RequestExclusive(a) /\ UNCHANGED <<code, shares>>
           \/ /\ Share(a) /\ Head1(a, {"share"}) /\ Moves(a, <<>>)
              /\ shares' = [shares EXCEPT ![a] = @ + 1]
           \/ /\ Unshare(a) /\ Head1(a, {"unshare"}) /\ Moves(a, <<>>)
              /\ shares' = [shares EXCEPT ![a] = @ - 1]
<1>1. CASE RequestExclusive(a)
  BY <1>1 DEF RequestExclusive
<1>2. CASE Share(a)
  BY <1>2, HeadAt, ContinueMoves DEF Share, Head1
<1>3. CASE Unshare(a)
  BY <1>3, HeadAt, ContinueMoves DEF Unshare, Head1
<1> QED
  BY <1>1, <1>2, <1>3 DEF Locking

\* What setting a cause does: nothing when there is one.
LEMMA WhatMark ==
    ASSUME Types, NEW a \in Actors, Mark(a)
    PROVE  /\ Head1(a, {"mark"}) /\ Top(a).node \in Nodes /\ Top(a).arg \in Causes
           /\ \/ cause[Top(a).node] # None /\ cause' = cause /\ Moves(a, <<>>)
              \/ /\ cause[Top(a).node] = None
                 /\ cause' = [cause EXCEPT ![Top(a).node] = Top(a).arg]
                 /\ Moves(a, AfterMark(Top(a).node, Top(a).arg))
           /\ UNCHANGED <<state, parent, children, uses, shares, binding, fired, reg, now, tlocal>>
<1>1. /\ Head1(a, {"mark"}) /\ Top(a).node \in Nodes /\ Top(a).arg \in Causes
  BY HeadAt DEF Mark
<1>2. code[a] # <<>>
  BY <1>1 DEF Head1
<1>3. CASE cause[Top(a).node] # None
  BY <1>1, <1>2, <1>3, ContinueMoves DEF Mark, lockVars, timerVars, clientVars
<1>4. CASE cause[Top(a).node] = None
  BY <1>1, <1>2, <1>4, ContinueMoves DEF Mark, lockVars, timerVars, clientVars
<1> QED
  BY <1>3, <1>4

\* What firing a binding does: count it, and walk the children of that moment.
LEMMA WhatFire ==
    ASSUME Types, NEW a \in Actors, Fire(a)
    PROVE  /\ Head1(a, {"fire"}) /\ Top(a).node \in Nodes /\ Top(a).arg \in Causes
           /\ children[Top(a).node] \subseteq Nodes
           /\ Moves(a, <<Kids(Top(a).node, Top(a).arg, children[Top(a).node])>>)
           /\ Kids(Top(a).node, Top(a).arg, children[Top(a).node]) \in Frame
           /\ fired' = [fired EXCEPT ![Top(a).node] = IF binding[Top(a).node] THEN @ + 1 ELSE @]
           /\ UNCHANGED <<state, parent, children, uses, shares, cause, binding, reg, now, tlocal>>
<1>1. /\ Head1(a, {"fire"}) /\ Top(a).node \in Nodes /\ Top(a).arg \in Causes
  BY HeadAt DEF Fire
<1>2. code[a] # <<>>
  BY <1>1 DEF Head1
<1>3. children[Top(a).node] \subseteq Nodes
  BY <1>1 DEF Types, Parents
<1>4. Kids(Top(a).node, Top(a).arg, children[Top(a).node]) \in Frame
  BY <1>1, <1>3 DEF Kids, Frame
<1> QED
  BY <1>1, <1>2, <1>3, <1>4, ContinueMoves DEF Fire, lockVars, timerVars, clientVars

\* What the walk over the children does: end, or go down into one of them.
LEMMA WhatNextKid ==
    ASSUME Types, NEW a \in Actors, NextKid(a)
    PROVE  /\ Head1(a, {"kids"}) /\ Top(a).node \in Nodes /\ Top(a).arg \in Causes
           /\ Top(a).todo \subseteq Nodes
           /\ \/ Top(a).todo = {} /\ Moves(a, <<>>)
              \/ \E m \in Top(a).todo :
                    /\ Moves(a, Propagate(m, Top(a).arg)
                                \o <<Kids(Top(a).node, Top(a).arg, Top(a).todo \ {m})>>)
                    /\ Kids(Top(a).node, Top(a).arg, Top(a).todo \ {m}) \in Frame
           /\ UNCHANGED <<state, parent, children, uses, shares, cause, binding, fired, reg,
                          now, tlocal>>
<1>1. /\ Head1(a, {"kids"}) /\ Top(a).node \in Nodes /\ Top(a).arg \in Causes
      /\ Top(a).todo \subseteq Nodes
  BY HeadAt DEF NextKid
<1>2. code[a] # <<>>
  BY <1>1 DEF Head1
<1>3. UNCHANGED <<state, parent, children, uses, shares, cause, binding, fired, reg, now, tlocal>>
  BY DEF NextKid, nodeVars, lockVars, timerVars, clientVars
<1>4. CASE Top(a).todo = {} /\ Continue(a, <<>>)
  BY <1>1, <1>2, <1>3, <1>4, ContinueMoves
<1>5. ASSUME NEW m \in Top(a).todo,
             Continue(a, Propagate(m, Top(a).arg)
                         \o <<Kids(Top(a).node, Top(a).arg, Top(a).todo \ {m})>>)
      PROVE  /\ Moves(a, Propagate(m, Top(a).arg)
                         \o <<Kids(Top(a).node, Top(a).arg, Top(a).todo \ {m})>>)
             /\ Kids(Top(a).node, Top(a).arg, Top(a).todo \ {m}) \in Frame
  <2>1. Kids(Top(a).node, Top(a).arg, Top(a).todo \ {m}) \in Frame
    BY <1>1 DEF Kids, Frame
  <2> QED
    BY <1>2, <1>5, <2>1, ContinueMoves
<1> QED
  BY <1>1, <1>3, <1>4, <1>5 DEF NextKid

\* The steps of a walk and of a lookup that only end a frame.
LEMMA WhatPop ==
    ASSUME Types, NEW a \in Actors,
           Broadcast(a) \/ Stop(a) \/ Return(a) \/ WaitTimeout(a) \/ Join(a)
    PROVE  /\ Head1(a, {"broadcast", "stop", "return", "waitT", "join"})
           /\ Top(a).node \in Nodes
           /\ Join(a) => Top(a).op = "join" /\ code[Top(a).node] = <<>>
           /\ Top(a).op = "join" => code[Top(a).node] = <<>>
           /\ Moves(a, <<>>)
           /\ UNCHANGED <<state, parent, children, uses, shares, cause, binding, fired, reg,
                          now, tlocal>>
<1>1. \E op \in {"broadcast", "stop", "return", "waitT", "join"} :
          /\ Head1(a, {op}) /\ Top(a).op = op /\ Top(a).node \in Nodes
          /\ op = "join" => code[Top(a).node] = <<>>
          /\ Join(a) => op = "join"
  <2>1. CASE Broadcast(a)
    BY <2>1, HeadAt DEF Broadcast, Join, At, Head1
  <2>2. CASE Stop(a)
    BY <2>2, HeadAt DEF Stop, Join, At, Head1
  <2>3. CASE Return(a)
    BY <2>3, HeadAt DEF Return, Join, At, Head1
  <2>4. CASE WaitTimeout(a)
    BY <2>4, HeadAt DEF WaitTimeout, Join, At, Sleeping, Head1
  <2>5. CASE Join(a)
    BY <2>5, HeadAt DEF Join, At, Head1
  <2> QED
    BY <2>1, <2>2, <2>3, <2>4, <2>5
<1>2. Continue(a, <<>>) /\ code[a] # <<>>
  BY DEF Broadcast, Stop, Return, WaitTimeout, Join, At, Sleeping
<1>3. Moves(a, <<>>)
  BY <1>2, ContinueMoves
<1>4. UNCHANGED <<state, parent, children, uses, shares, cause, binding, fired, reg, now, tlocal>>
  BY DEF Broadcast, Stop, Return, WaitTimeout, Join, nodeVars, lockVars, timerVars, clientVars
<1> QED
  BY <1>1, <1>3, <1>4 DEF Head1

\* What a waiter's step does.
LEMMA WhatWait ==
    ASSUME Types, NEW a \in Actors, Wait(a)
    PROVE  /\ \/ Head1(a, {"wait", "waitT"}) /\ Moves(a, <<>>)
              \/ code' = code
           /\ UNCHANGED <<state, parent, children, uses, shares, cause, binding, fired, reg,
                          now, tlocal>>
<1>1. PICK op \in {"wait", "waitT"} : At(a, op)
  BY DEF Wait
<1>2. Head1(a, {"wait", "waitT"}) /\ code[a] # <<>>
  BY <1>1, HeadAt DEF Head1
<1> QED
  BY <1>2, ContinueMoves DEF Wait, nodeVars, lockVars, timerVars, clientVars

\* What err() does at a node: answer, or look at the next one up.
LEMMA WhatErr ==
    ASSUME Types, NEW a \in Actors, Err(a)
    PROVE  /\ Head1(a, {"err"}) /\ Top(a).node \in Parents
           /\ \/ /\ Top(a).node = Root
                 /\ reg' = [reg EXCEPT ![a] = None] /\ Moves(a, <<>>)
              \/ /\ Top(a).node \in Nodes /\ KindOf[Top(a).node] # "value"
                 /\ KindOf[Top(a).node] = "cancel" =>
                        cause[Top(a).node] # None \/ parent[Top(a).node] = None
                 /\ reg' = [reg EXCEPT ![a] = cause[Top(a).node]] /\ Moves(a, <<>>)
              \/ /\ Top(a).node \in Nodes /\ KindOf[Top(a).node] = "value"
                 /\ reg' = [reg EXCEPT ![a] = ErrNoLock(Top(a).node)] /\ Moves(a, <<>>)
              \/ /\ Top(a).node \in Nodes /\ KindOf[Top(a).node] = "cancel"
                 /\ cause[Top(a).node] = None
                 /\ parent[Top(a).node] \in Parents /\ reg' = reg
                 /\ Moves(a, <<F("err", parent[Top(a).node]), F("inherit", Top(a).node)>>)
                 /\ F("err", parent[Top(a).node]) \in Frame
                 /\ F("inherit", Top(a).node) \in Frame
              \/ /\ Top(a).node \in Nodes /\ KindOf[Top(a).node] = "deadline"
                 /\ cause[Top(a).node] = None /\ Expired(Top(a).node)
                 /\ reg' = [reg EXCEPT ![a] = DeadlineExceeded]
                 /\ Moves(a, MarkCanceled(Top(a).node, DeadlineExceeded))
           /\ UNCHANGED <<state, parent, children, uses, shares, cause, binding, fired, now, tlocal>>
<1>1. Head1(a, {"err"}) /\ Top(a).node \in Parents /\ code[a] # <<>>
  BY HeadAt DEF Err, Head1
<1>2. UNCHANGED <<state, parent, children, uses, shares, cause, binding, fired, now, tlocal>>
  BY DEF Err, nodeVars, lockVars, timerVars, clientVars
<1>3. ASSUME NEW n \in Nodes, n = Top(a).node, parent[n] # None
      PROVE  parent[n] \in Parents /\ F("err", parent[n]) \in Frame /\ F("inherit", n) \in Frame
  <2>1. parent[n] \in Parents
    BY <1>3 DEF Types
  <2>2. F("err", parent[n]) \in Frame
    BY <2>1 DEF F, Frame
  <2>3. F("inherit", n) \in Frame
    BY PlainFrame DEF PlainOps, FrameOps, ExclusiveOps, TimerOps
  <2> QED
    BY <2>1, <2>2, <2>3
<1> DEFINE n == Top(a).node
<1>4. CASE n = Root /\ reg' = [reg EXCEPT ![a] = None] /\ Continue(a, <<>>)
  BY <1>1, <1>2, <1>4, ContinueMoves
<1>5. CASE /\ n \in Nodes /\ KindOf[n] = "cancel"
           /\ IF cause[n] # None \/ parent[n] = None
              THEN reg' = [reg EXCEPT ![a] = cause[n]] /\ Continue(a, <<>>)
              ELSE /\ Continue(a, <<F("err", parent[n]), F("inherit", n)>>)
                   /\ UNCHANGED reg
  <2>1. CASE cause[n] # None \/ parent[n] = None
    <3>1. Moves(a, <<>>)
      BY <1>1, <1>5, <2>1, ContinueMoves
    <3> QED
      BY <1>1, <1>2, <1>5, <2>1, <3>1
  <2>2. CASE cause[n] = None /\ parent[n] # None
    <3>1. Moves(a, <<F("err", parent[n]), F("inherit", n)>>)
      BY <1>1, <1>5, <2>2, ContinueMoves
    <3> QED
      BY <1>1, <1>2, <1>3, <1>5, <2>2, <3>1
  <2> QED
    BY <2>1, <2>2
<1>6. CASE /\ n \in Nodes /\ KindOf[n] = "value"
           /\ reg' = [reg EXCEPT ![a] = ErrNoLock(n)] /\ Continue(a, <<>>)
  BY <1>1, <1>2, <1>6, ContinueMoves
<1>7. CASE /\ n \in Nodes /\ KindOf[n] = "deadline"
           /\ IF cause[n] = None /\ Expired(n)
              THEN /\ reg' = [reg EXCEPT ![a] = DeadlineExceeded]
                   /\ Continue(a, MarkCanceled(n, DeadlineExceeded))
              ELSE reg' = [reg EXCEPT ![a] = cause[n]] /\ Continue(a, <<>>)
  <2>1. CASE cause[n] = None /\ Expired(n)
    <3>1. Moves(a, MarkCanceled(n, DeadlineExceeded))
      BY <1>1, <1>7, <2>1, ContinueMoves
    <3> QED
      BY <1>1, <1>2, <1>7, <2>1, <3>1
  <2>2. CASE ~(cause[n] = None /\ Expired(n))
    <3>1. Moves(a, <<>>)
      BY <1>1, <1>7, <2>2, ContinueMoves
    <3> QED
      BY <1>1, <1>2, <1>7, <2>2, <3>1
  <2> QED
    BY <2>1, <2>2
<1> QED
  BY <1>4, <1>5, <1>6, <1>7 DEF Err

\* What taking over the parent's cause does.
LEMMA WhatInherit ==
    ASSUME Types, NEW a \in Actors, Inherit(a)
    PROVE  /\ Head1(a, {"inherit"}) /\ Top(a).node \in Nodes
           /\ \/ reg[a] = None /\ Moves(a, <<>>)
              \/ reg[a] \in Causes /\ Moves(a, MarkCanceled(Top(a).node, reg[a]))
           /\ UNCHANGED <<state, parent, children, uses, shares, cause, binding, fired, reg,
                          now, tlocal>>
<1>1. Head1(a, {"inherit"}) /\ Top(a).node \in Nodes /\ code[a] # <<>>
  BY HeadAt DEF Inherit, Head1
<1>2. reg[a] = None \/ (reg[a] \in Causes /\ reg[a] # None)
  <2>1. reg[a] \in Causes \cup {None}
    BY DEF Types
  <2>2. None \notin Causes
    BY ContextAssumption
  <2> QED
    BY <2>1, <2>2
<1> QED
  BY <1>1, <1>2, ContinueMoves DEF Inherit, nodeVars, lockVars, timerVars, clientVars

\* What linking a node under its parent does.
LEMMA WhatAttach ==
    ASSUME Types, NEW a \in Actors, Attach(a)
    PROVE  /\ Head1(a, {"attach"}) /\ Top(a).node \in Nodes /\ Top(a).arg \in Parents
           /\ CanExclude
           /\ Moves(a, <<F("err", Top(a).arg), F("adopt", Top(a).node)>>)
           /\ F("err", Top(a).arg) \in Frame /\ F("adopt", Top(a).node) \in Frame
           /\ parent' = [parent EXCEPT ![Top(a).node] = Top(a).arg]
           /\ children' = [children EXCEPT ![Top(a).arg] = @ \cup {Top(a).node}]
           /\ UNCHANGED <<state, uses, shares, cause, binding, fired, reg, now, tlocal>>
<1>1. /\ Head1(a, {"attach"}) /\ Top(a).node \in Nodes /\ Top(a).arg \in Parents
      /\ code[a] # <<>>
  BY HeadAt DEF Attach, Exclusive, Head1
<1>2. F("err", Top(a).arg) \in Frame
  BY <1>1 DEF F, Frame
<1>3. F("adopt", Top(a).node) \in Frame
  BY <1>1, PlainFrame DEF PlainOps, FrameOps, ExclusiveOps, TimerOps
<1> QED
  BY <1>1, <1>2, <1>3, ContinueMoves DEF Attach, Exclusive, lockVars, timerVars, clientVars

\* The frames that settle a new node are frames.
LEMMA SettleFrames ==
    ASSUME NEW n \in Nodes, NEW c \in Causes \cup {None}
    PROVE  /\ F("ready", n) \in Frame /\ F("arm", n) \in Frame
           /\ Settle(n, c) \in Seq(Frame)
           /\ Settle(n, c) \o <<F("ready", n)>> \in Seq(Frame)
           /\ \/ c \in Causes /\ c # None /\ Settle(n, c) = MarkCanceled(n, c)
              \/ c = None /\ KindOf[n] # "deadline" /\ Settle(n, c) = <<>>
              \/ c = None /\ KindOf[n] = "deadline" /\ Settle(n, c) = <<F("arm", n)>>
<1>1. F("ready", n) \in Frame /\ F("arm", n) \in Frame
  BY PlainFrame DEF PlainOps, FrameOps, ExclusiveOps, TimerOps
<1>2. \/ c \in Causes /\ c # None /\ Settle(n, c) = MarkCanceled(n, c)
      \/ c = None /\ KindOf[n] # "deadline" /\ Settle(n, c) = <<>>
      \/ c = None /\ KindOf[n] = "deadline" /\ Settle(n, c) = <<F("arm", n)>>
  BY DEF Settle
<1>3. Settle(n, c) \in Seq(Frame)
  <2>1. <<F("arm", n)>> \in Seq(Frame)
    BY <1>1
  <2>2. c \in Causes => MarkCanceled(n, c) \in Seq(Frame)
    BY WalkFrames
  <2> HIDE DEF Settle
  <2> QED
    BY <1>2, <2>1, <2>2, EmptyTyped
<1> HIDE DEF Settle
<1>4. Settle(n, c) \o <<F("ready", n)>> \in Seq(Frame)
  <2>1. <<F("ready", n)>> \in Seq(Frame)
    BY <1>1
  <2> QED
    BY <1>3, <2>1
<1> QED
  BY <1>1, <1>2, <1>3, <1>4

\* What settling a new node does.
LEMMA WhatAdopt ==
    ASSUME Types, NEW a \in Actors, Adopt(a)
    PROVE  /\ Head1(a, {"adopt"}) /\ Top(a).node \in Nodes
           /\ Moves(a, Settle(Top(a).node, reg[a]) \o <<F("ready", Top(a).node)>>)
           /\ reg[a] \in Causes \cup {None}
           /\ UNCHANGED <<state, parent, children, uses, shares, cause, binding, fired, reg,
                          now, tlocal>>
<1>1. Head1(a, {"adopt"}) /\ Top(a).node \in Nodes /\ code[a] # <<>>
  BY HeadAt DEF Adopt, Head1
<1>2. reg[a] \in Causes \cup {None}
  BY DEF Types
<1> QED
  BY <1>1, <1>2, ContinueMoves DEF Adopt, nodeVars, lockVars, timerVars, clientVars

\* What arming a timer does: cancel at once, leave it, fail to spawn, or start
\* the task.
LEMMA WhatArm ==
    ASSUME Types, NEW a \in Actors, Arm(a)
    PROVE  /\ Head1(a, {"arm"}) /\ Top(a).node \in Nodes
           /\ \/ Expired(Top(a).node) /\ Moves(a, MarkCanceled(Top(a).node, DeadlineExceeded))
              \/ cause[Top(a).node] # None /\ Moves(a, <<>>)
              \/ Moves(a, MarkCanceled(Top(a).node, SpawnError))
              \/ code' = [code EXCEPT ![a] = Tail(code[a]),
                                      ![Top(a).node] = <<F("tTop", Top(a).node)>>]
           /\ UNCHANGED <<state, parent, children, uses, shares, cause, binding, fired, reg,
                          now, tlocal>>
<1>1. Head1(a, {"arm"}) /\ Top(a).node \in Nodes /\ code[a] # <<>>
  BY HeadAt DEF Arm, Head1
<1> QED
  BY <1>1, ContinueMoves DEF Arm, Rest, nodeVars, lockVars, timerVars, clientVars

\* What the last step of a creation and of a deinit do.
LEMMA WhatReady ==
    ASSUME Types, NEW a \in Actors, Ready(a) \/ Free(a)
    PROVE  /\ Head1(a, {"ready", "free"}) /\ Top(a).node \in Nodes
           /\ Moves(a, <<>>)
           /\ state' = [state EXCEPT ![Top(a).node] =
                            IF Top(a).op = "ready" THEN "live" ELSE "freed"]
           /\ UNCHANGED <<parent, children, uses, shares, cause, binding, fired, reg, now, tlocal>>
<1>1. CASE Ready(a)
  <2>1. Head1(a, {"ready"}) /\ Top(a).node \in Nodes /\ code[a] # <<>> /\ Top(a).op = "ready"
    BY <1>1, HeadAt DEF Ready, Head1
  <2> QED
    BY <1>1, <2>1, ContinueMoves DEF Ready, Head1, lockVars, timerVars, clientVars
<1>2. CASE Free(a)
  <2>1. Head1(a, {"free"}) /\ Top(a).node \in Nodes /\ code[a] # <<>> /\ Top(a).op = "free"
    BY <1>2, HeadAt DEF Free, Head1
  <2> QED
    BY <1>2, <2>1, ContinueMoves DEF Free, Head1, lockVars, timerVars, clientVars
<1> QED
  BY <1>1, <1>2

\* What binding and unbinding do.
LEMMA WhatBind ==
    ASSUME Types, NEW a \in Actors, Bind(a) \/ Unbind(a)
    PROVE  /\ Head1(a, {"bind", "unbind"}) /\ Top(a).node \in Nodes
           /\ Moves(a, <<>>)
           /\ UNCHANGED <<state, parent, children, uses, shares, cause, reg, now, tlocal>>
<1>1. CASE Bind(a)
  <2>1. Head1(a, {"bind"}) /\ Top(a).node \in Nodes /\ code[a] # <<>>
    BY <1>1, HeadAt DEF Bind, Exclusive, Head1
  <2> QED
    BY <1>1, <2>1, ContinueMoves DEF Bind, Exclusive, Head1, timerVars, clientVars
<1>2. CASE Unbind(a)
  <2>1. Head1(a, {"unbind"}) /\ Top(a).node \in Nodes /\ code[a] # <<>>
    BY <1>2, HeadAt DEF Unbind, Exclusive, Head1
  <2> QED
    BY <1>2, <2>1, ContinueMoves DEF Unbind, Exclusive, Head1, timerVars, clientVars
<1> QED
  BY <1>1, <1>2

\* What taking a node out of the tree does.
LEMMA WhatDetach ==
    ASSUME Types, NEW a \in Actors, Detach(a)
    PROVE  /\ Head1(a, {"detach"}) /\ Top(a).node \in Nodes
           /\ CanExclude
           /\ Moves(a, <<F("free", Top(a).node)>>)
           /\ F("free", Top(a).node) \in Frame
           /\ state' = [state EXCEPT ![Top(a).node] = "detached"]
           /\ UNCHANGED <<uses, shares, cause, binding, fired, reg, now, tlocal>>
<1>1. Head1(a, {"detach"}) /\ Top(a).node \in Nodes /\ code[a] # <<>>
  BY HeadAt DEF Detach, Exclusive, Head1
<1>2. F("free", Top(a).node) \in Frame
  BY <1>1, PlainFrame DEF PlainOps, FrameOps, ExclusiveOps, TimerOps
<1> QED
  BY <1>1, <1>2, ContinueMoves DEF Detach, Exclusive, lockVars, clientVars

\* The steps of a timer task; its stack is one frame while it loops.
LEMMA WhatTimer ==
    ASSUME Types, StacksFit, NEW n \in Nodes, Timer(n)
    PROVE  /\ n \in Actors /\ Head1(n, TimerOps)
           /\ Top(n).node = n
           /\ \/ TimerTimeout(n) /\ code' = code
              \/ /\ Top(n).op \in {"tTop", "tCheck", "tWait", "tExpire"} /\ Moves(n, <<>>)
              \/ /\ Top(n).op \in {"tCheck", "tWait"} /\ Moves(n, <<F("tTop", n)>>)
              \/ /\ Top(n).op = "tTop" /\ Moves(n, <<F("tEffective", n)>>)
              \/ /\ Top(n).op = "tEffective" /\ Moves(n, <<F("tCheck", n)>>)
              \/ /\ Top(n).op = "tCheck" /\ Moves(n, <<F("tWait", n)>>)
              \/ /\ Top(n).op = "tCheck" /\ tlocal[n].at = {} /\ Moves(n, <<F("tExpire", n)>>)
              \/ /\ Top(n).op = "tExpire" /\ Moves(n, MarkCanceled(n, DeadlineExceeded))
           /\ Top(n).op = "tEffective" =>
                  tlocal' = [tlocal EXCEPT ![n].at = IF Expired(n) THEN {} ELSE Deadlines(n)]
           /\ Top(n).op \notin {"tTop", "tEffective"} => tlocal' = tlocal
           /\ \A m \in Nodes : m # n => tlocal'[m] = tlocal[m]
           /\ \A op \in TimerOps : F(op, n) \in Frame /\ <<F(op, n)>> \in Seq(Frame)
           /\ UNCHANGED <<state, parent, children, uses, shares, cause, binding, fired, reg, now>>
<1>1. n \in Actors
  BY DEF Actors
<1>2. PICK op \in TimerOps : At(n, op) \/ Sleeping(n, op)
  BY DEF Timer, TimerTop, TimerEffective, TimerCheck, TimerTimeout, TimerWake, TimerExpire,
         TimerOps
<1>3. Head1(n, {op}) /\ Top(n).op = op /\ code[n] # <<>>
  BY <1>1, <1>2, HeadAt DEF Head1
<1>4. Head1(n, TimerOps)
  BY <1>3 DEF Head1
<1>5. Top(n).node = n
  BY <1>1, <1>4 DEF Head1, StacksFit, StackFits, FrameFits
<1>6. \A o \in TimerOps : F(o, n) \in Frame /\ <<F(o, n)>> \in Seq(Frame)
  BY PlainFrame DEF PlainOps, FrameOps, ExclusiveOps, TimerOps
<1>7. MarkCanceled(n, DeadlineExceeded) \in Seq(Frame)
  BY WalkFrames DEF Causes
<1>8. UNCHANGED <<state, parent, children, uses, shares, cause, binding, fired, reg, now>>
  BY DEF Timer, TimerTop, TimerEffective, TimerCheck, TimerTimeout, TimerWake, TimerExpire,
         nodeVars, lockVars, timerVars, clientVars
<1>9. \A fs \in Seq(Frame) : Become(n, fs) => Moves(n, fs)
  BY <1>3, BecomeMoves
<1>10. \A o : At(n, o) => Top(n).op = o
  BY DEF At, Top
<1>11. CASE TimerTop(n)
  <2>1. Top(n).op = "tTop" /\ \A m \in Nodes : m # n => tlocal'[m] = tlocal[m]
    BY <1>10, <1>11 DEF TimerTop, Types
  <2>2. Moves(n, <<>>) \/ Moves(n, <<F("tEffective", n)>>)
    BY <1>6, <1>9, <1>11, EmptyTyped DEF TimerTop, TimerOps
  <2> QED
    BY <1>1, <1>4, <1>5, <1>6, <1>8, <2>1, <2>2
<1>12. CASE TimerEffective(n)
  <2>1. /\ Top(n).op = "tEffective" /\ \A m \in Nodes : m # n => tlocal'[m] = tlocal[m]
        /\ tlocal' = [tlocal EXCEPT ![n].at = IF Expired(n) THEN {} ELSE Deadlines(n)]
    BY <1>10, <1>12 DEF TimerEffective, Types
  <2>2. Moves(n, <<F("tCheck", n)>>)
    BY <1>6, <1>9, <1>12 DEF TimerEffective, TimerOps
  <2> QED
    BY <1>1, <1>4, <1>5, <1>6, <1>8, <2>1, <2>2
<1>13. CASE TimerCheck(n)
  <2>1. Top(n).op = "tCheck" /\ tlocal' = tlocal
    BY <1>10, <1>13 DEF TimerCheck, timerVars
  <2>2. \/ Moves(n, <<>>) \/ Moves(n, <<F("tTop", n)>>) \/ Moves(n, <<F("tWait", n)>>)
        \/ tlocal[n].at = {} /\ Moves(n, <<F("tExpire", n)>>)
    BY <1>6, <1>9, <1>13, EmptyTyped DEF TimerCheck, TimerOps
  <2> QED
    BY <1>1, <1>4, <1>5, <1>6, <1>8, <2>1, <2>2
<1>14. CASE TimerTimeout(n)
  BY <1>1, <1>4, <1>5, <1>6, <1>8, <1>14 DEF TimerTimeout, Sleeping, Top, timerVars
<1>15. CASE TimerWake(n)
  <2>1. Top(n).op = "tWait" /\ tlocal' = tlocal
    BY <1>10, <1>15 DEF TimerWake, timerVars
  <2>2. Moves(n, <<>>) \/ Moves(n, <<F("tTop", n)>>)
    BY <1>6, <1>9, <1>15, EmptyTyped DEF TimerWake, TimerOps
  <2> QED
    BY <1>1, <1>4, <1>5, <1>6, <1>8, <2>1, <2>2
<1>16. CASE TimerExpire(n)
  <2>1. Top(n).op = "tExpire" /\ tlocal' = tlocal
    BY <1>10, <1>16 DEF TimerExpire, timerVars
  <2>2. Moves(n, <<>>) \/ Moves(n, MarkCanceled(n, DeadlineExceeded))
    BY <1>7, <1>9, <1>16, EmptyTyped DEF TimerExpire
  <2> QED
    BY <1>1, <1>4, <1>5, <1>6, <1>8, <2>1, <2>2
<1> QED
  BY <1>11, <1>12, <1>13, <1>14, <1>15, <1>16 DEF Timer

-----------------------------------------------------------------------------
(***************************************************************************)
(* The stacks keep their shape.                                            *)
(***************************************************************************)
\* A user's frame at the head is a thread's.
LEMMA HeadFits ==
    ASSUME Types, StacksFit, NEW a \in Actors, NEW ops, Head1(a, ops)
    PROVE  FrameFits(a, code[a], 1) /\ Top(a) = code[a][1]
  BY DEF Head1, StacksFit, StackFits

\* A client's step runs on a client's thread.
LEMMA UserHead ==
    ASSUME Types, StacksFit, NEW a \in Actors, NEW ops, Head1(a, ops), ops \subseteq UserOps
    PROVE  a \in Threads /\ a \notin Nodes
<1>1. a \in Threads
  BY HeadFits DEF FrameFits, Head1
<1>2. Threads \cap Nodes = {}
  BY ContextAssumption
<1> QED
  BY <1>1, <1>2

\* One actor's stack is replaced by one of the right shape.
LEMMA FitOne ==
    ASSUME StacksFit, NEW a \in Actors,
           \A b \in Actors : b # a => code'[b] = code[b], StackFits(a, code'[a])
    PROVE  StacksFit'
<1>1. \A b \in Actors : StackFits(b, code'[b])
  BY DEF StacksFit
<1> QED
  BY <1>1 DEF StacksFit, StackFits, FrameFits

\* A walk keeps every stack fitting its actor.
LEMMA WalkFits ==
    ASSUME Types, StacksFit, NEW a \in Actors, Walk(a)
    PROVE  StacksFit'
<1>1. Unmarked(a, <<>>)
  BY DEF Unmarked
<1>2. CASE Mark(a)
  BY <1>1, <1>2, WhatMark, EmptyTyped, WalkFrames, WalkUnmarked, FitMove
<1>3. CASE Broadcast(a) \/ Stop(a)
  BY <1>1, <1>3, WhatPop, EmptyTyped, FitMove
<1>4. CASE Fire(a)
  <2> DEFINE k == Kids(Top(a).node, Top(a).arg, children[Top(a).node])
  <2>1. Moves(a, <<k>>) /\ k \in Frame /\ k.op = "kids"
    BY <1>4, WhatFire DEF Kids
  <2> HIDE DEF k
  <2>2. <<k>> \in Seq(Frame)
    BY <2>1
  <2>3. Unmarked(a, <<k>>)
    BY <2>1 DEF Unmarked, FreeOps
  <2> QED
    BY <2>1, <2>2, <2>3, FitMove
<1>5. CASE NextKid(a)
  <2>1. CASE Moves(a, <<>>)
    BY <1>1, <2>1, EmptyTyped, FitMove
  <2>2. ASSUME NEW m \in Top(a).todo, NEW k \in Frame,
               k = Kids(Top(a).node, Top(a).arg, Top(a).todo \ {m}),
               Moves(a, Propagate(m, Top(a).arg) \o <<k>>)
        PROVE  StacksFit'
    <3> DEFINE p == Propagate(m, Top(a).arg)
    <3>1. p \in Seq(Frame) /\ Unmarked(a, p)
      BY <1>5, WhatNextKid, WalkFrames, WalkUnmarked
    <3>2. k.op = "kids"
      BY <2>2 DEF Kids
    <3>3. <<k>> \in Seq(Frame)
      OBVIOUS
    <3>4. Unmarked(a, <<k>>) /\ \A i \in 1..Len(<<k>>) : <<k>>[i].op # "err"
      BY <3>2 DEF Unmarked, FreeOps
    <3> HIDE DEF p
    <3>5. p \o <<k>> \in Seq(Frame)
      BY <3>1, <3>3
    <3>6. Unmarked(a, p \o <<k>>)
      BY <3>1, <3>3, <3>4, UnmarkedConcat
    <3> QED
      BY <2>2, <3>5, <3>6, FitMove DEF p
  <2> QED
    BY <1>5, <2>1, <2>2, WhatNextKid
<1> QED
  BY <1>2, <1>3, <1>4, <1>5 DEF Walk

\* So does a query.
LEMMA AsksFit ==
    ASSUME Types, StacksFit, NEW a \in Actors, Asks(a)
    PROVE  StacksFit'
<1>1. Unmarked(a, <<>>)
  BY DEF Unmarked
<1>2. \A fs \in Seq(Frame) : Moves(a, fs) /\ Unmarked(a, fs) => StacksFit'
  BY FitMove
<1>3. \A n \in Nodes : /\ MarkCanceled(n, DeadlineExceeded) \in Seq(Frame)
                       /\ Unmarked(a, MarkCanceled(n, DeadlineExceeded))
  BY WalkFrames, WalkUnmarked DEF Causes
<1>4. CASE Err(a)
  <2>1. a \in Threads
    BY <1>4, WhatErr, UserHead DEF UserOps
  <2>2. CASE Moves(a, <<>>)
    BY <1>1, <1>2, <2>2, EmptyTyped
  <2>3. CASE /\ F("err", parent[Top(a).node]) \in Frame /\ F("inherit", Top(a).node) \in Frame
             /\ Moves(a, <<F("err", parent[Top(a).node]), F("inherit", Top(a).node)>>)
    <3> DEFINE fs == <<F("err", parent[Top(a).node]), F("inherit", Top(a).node)>>
    <3>1. fs \in Seq(Frame)
      BY <2>3
    <3>2. Unmarked(a, fs)
      BY <2>1 DEF Unmarked, F
    <3> QED
      BY <1>2, <2>3, <3>1, <3>2
  <2>4. CASE Top(a).node \in Nodes /\ Moves(a, MarkCanceled(Top(a).node, DeadlineExceeded))
    BY <1>2, <1>3, <2>4
  <2> QED
    BY <1>4, <2>2, <2>3, <2>4, WhatErr
<1>5. CASE Inherit(a)
  BY <1>1, <1>2, <1>5, WhatInherit, EmptyTyped, WalkFrames, WalkUnmarked
<1>6. CASE Return(a)
  BY <1>1, <1>2, <1>6, WhatPop, EmptyTyped
<1> QED
  BY <1>4, <1>5, <1>6 DEF Asks

\* Two frames pushed onto an empty rest.
LEMMA TwoFrames ==
    ASSUME NEW x \in Frame, NEW y \in Frame
    PROVE  (<<x>> \o <<y>>) \o <<>> = <<x, y>>
<1>1. <<x>> \in Seq(Frame) /\ <<y>> \in Seq(Frame) /\ <<>> \in Seq(Frame)
  OBVIOUS
<1>2. <<x>> \o <<y>> \in Seq(Frame)
  BY <1>1, ConcatProperties
<1>3. (<<x>> \o <<y>>) \o <<>> = <<x>> \o <<y>>
  BY <1>2, ConcatEmptySeq
<1>4. Len(<<x>> \o <<y>>) = 2 /\ (<<x>> \o <<y>>)[1] = x /\ (<<x>> \o <<y>>)[2] = y
  OBVIOUS
<1>5. <<x, y>> \in Seq(Frame) /\ Len(<<x, y>>) = 2 /\ <<x, y>>[1] = x /\ <<x, y>>[2] = y
  OBVIOUS
<1>6. \A i \in 1..2 : (<<x>> \o <<y>>)[i] = <<x, y>>[i]
  <2>1. \A i \in 1..2 : i = 1 \/ i = 2
    OBVIOUS
  <2> QED
    BY <1>4, <1>5, <2>1
<1> QED
  BY <1>2, <1>3, <1>4, <1>5, <1>6, SeqEqual

\* So does settling a new node.
LEMMA AdoptFits ==
    ASSUME Types, Lifecycle, StacksFit, NEW a \in Actors, Adopt(a)
    PROVE  StacksFit'
<1> DEFINE n == Top(a).node
           fs == Settle(n, reg[a])
           r == F("ready", n)
<1>1. /\ Head1(a, {"adopt"}) /\ n \in Nodes /\ Moves(a, fs \o <<r>>)
      /\ reg[a] \in Causes \cup {None}
  BY WhatAdopt
<1>2. a \in Threads
  BY <1>1, UserHead DEF UserOps
<1>3. /\ r \in Frame /\ F("arm", n) \in Frame /\ fs \in Seq(Frame) /\ fs \o <<r>> \in Seq(Frame)
      /\ \/ reg[a] \in Causes /\ fs = MarkCanceled(n, reg[a])
         \/ fs = <<>>
         \/ KindOf[n] = "deadline" /\ fs = <<F("arm", n)>>
  BY <1>1, SettleFrames
<1>4. r.op = "ready" /\ r.node = n
  BY DEF F
<1> HIDE DEF fs
<1>5. CASE (reg[a] \in Causes /\ fs = MarkCanceled(n, reg[a])) \/ fs = <<>>
  <2>1. Unmarked(a, fs)
    BY <1>1, <1>5, WalkUnmarked DEF Unmarked
  <2>2. <<r>> \in Seq(Frame)
    BY <1>3
  <2>3. Unmarked(a, <<r>>) /\ \A i \in 1..Len(<<r>>) : <<r>>[i].op # "err"
    BY <1>2, <1>4 DEF Unmarked
  <2> HIDE DEF r
  <2>4. Unmarked(a, fs \o <<r>>)
    BY <1>3, <2>1, <2>2, <2>3, UnmarkedConcat
  <2> QED
    BY <1>1, <1>3, <2>4, FitMove
<1>6. CASE KindOf[n] = "deadline" /\ fs = <<F("arm", n)>>
  <2>1. Tail(code[a]) = <<>>
    <3>1. code[a] \in Seq(Frame) /\ code[a] # <<>> /\ OnlyBottom(code[a])
      BY <1>1 DEF Head1, Lifecycle
    <3>2. Head(code[a]).op \in LifeOps
      BY <1>1 DEF Head1, Top, LifeOps
    <3> QED
      BY <3>1, <3>2, LifeHead
  <2>2. code'[a] = (<<F("arm", n)>> \o <<r>>) \o <<>>
    <3>1. code'[a] = (fs \o <<r>>) \o Tail(code[a])
      BY <1>1, <1>3, MovesWhat
    <3> QED
      BY <1>6, <2>1, <3>1
  <2>3. code'[a] = <<F("arm", n), F("ready", n)>>
    BY <1>3, <2>2, TwoFrames
  <2>4. StackFits(a, <<F("arm", n), F("ready", n)>>)
    BY <1>2, <1>6 DEF StackFits, FrameFits, F, UserOps, TimerOps
  <2>5. \A b \in Actors : b # a => code'[b] = code[b]
    BY <1>1, <1>3, MovesWhat
  <2> QED
    BY <2>3, <2>4, <2>5, FitOne
<1> QED
  BY <1>3, <1>5, <1>6

\* So does arming a timer.
LEMMA ArmFits ==
    ASSUME Types, StacksFit, NEW a \in Actors, Arm(a)
    PROVE  StacksFit'
<1> DEFINE n == Top(a).node
<1>1. Head1(a, {"arm"}) /\ n \in Nodes
  BY WhatArm
<1>2. a \in Threads /\ a \notin Nodes
  BY <1>1, UserHead DEF UserOps
<1>3. Unmarked(a, <<>>)
  BY DEF Unmarked
<1>4. CASE Moves(a, <<>>) \/ Moves(a, MarkCanceled(n, DeadlineExceeded))
            \/ Moves(a, MarkCanceled(n, SpawnError))
  BY <1>1, <1>3, <1>4, EmptyTyped, WalkFrames, WalkUnmarked, FitMove DEF Causes
<1>5. CASE code' = [code EXCEPT ![a] = Tail(code[a]), ![n] = <<F("tTop", n)>>]
  <2>1. /\ code'[a] = Tail(code[a]) /\ code'[n] = <<F("tTop", n)>>
        /\ \A b \in Actors : b # a /\ b # n => code'[b] = code[b]
    BY <1>1, <1>2, <1>5 DEF Types, Actors
  <2>2. StackFits(n, <<F("tTop", n)>>)
    BY <1>1 DEF StackFits, FrameFits, F, UserOps, TimerOps
  <2>3. StackFits(a, Tail(code[a]))
    <3>1. StackFits(a, <<>> \o Tail(code[a])) /\ Tail(code[a]) \in Seq(Frame)
      <4>1. code[a] \in Seq(Frame) /\ code[a] # <<>> /\ StackFits(a, code[a])
        BY <1>1 DEF Head1, StacksFit
      <4>2. Tail(code[a]) \in Seq(Frame)
        BY <4>1
      <4> QED
        BY <1>3, <4>1, <4>2, EmptyTyped, FitReplaced
    <3>2. <<>> \o Tail(code[a]) = Tail(code[a])
      BY <3>1
    <3> QED
      BY <3>1, <3>2
  <2>4. \A b \in Actors : StackFits(b, code'[b])
    BY <2>1, <2>2, <2>3 DEF StacksFit
  <2> QED
    BY <2>4 DEF StacksFit, StackFits, FrameFits
<1> QED
  BY <1>4, <1>5, WhatArm

\* So does a timer task.
LEMMA TimerFits ==
    ASSUME Types, StacksFit, NEW n \in Nodes, Timer(n)
    PROVE  StacksFit'
<1>1. /\ n \in Actors /\ Head1(n, TimerOps) /\ Top(n).node = n
      /\ \A op \in TimerOps : F(op, n) \in Frame /\ <<F(op, n)>> \in Seq(Frame)
  BY WhatTimer
<1>2. Len(code[n]) = 1
  BY <1>1, HeadFits DEF FrameFits, Head1
<1>3. CASE code' = code
  BY <1>3 DEF StacksFit, StackFits, FrameFits
<1>4. CASE Moves(n, <<>>) \/ Moves(n, MarkCanceled(n, DeadlineExceeded))
  BY <1>1, <1>4, EmptyTyped, WalkFrames, WalkUnmarked, FitMove DEF Causes
<1>5. ASSUME NEW op \in TimerOps, Moves(n, <<F(op, n)>>)
      PROVE  StacksFit'
  <2> DEFINE new == <<F(op, n)>> \o Tail(code[n])
  <2>1. /\ code'[n] = new
        /\ \A b \in Actors : b # n => code'[b] = code[b]
    BY <1>1, <1>5, MovesWhat
  <2>2. Len(new) = 1 /\ new[1] = F(op, n)
    <3>1. <<F(op, n)>> \in Seq(Frame) /\ code[n] \in Seq(Frame) /\ code[n] # <<>>
      BY <1>1 DEF Head1
    <3>2. Len(<<F(op, n)>>) = 1 /\ <<F(op, n)>>[1] = F(op, n)
      OBVIOUS
    <3> QED
      BY <1>2, <3>1, <3>2, Replaced
  <2> HIDE DEF new
  <2>3. FrameFits(n, new, 1)
    BY <2>2 DEF FrameFits, F, TimerOps, UserOps
  <2>4. StackFits(n, new)
    BY <2>2, <2>3 DEF StackFits
  <2> QED
    BY <1>1, <2>1, <2>4, FitOne
<1> QED
  BY <1>3, <1>4, <1>5, WhatTimer DEF TimerOps

\* So does every step of an actor.
LEMMA StepFits ==
    ASSUME Types, Lifecycle, StacksFit, NEW a \in Actors, Step(a)
    PROVE  StacksFit'
<1>1. Unmarked(a, <<>>)
  BY DEF Unmarked
<1>2. Moves(a, <<>>) => StacksFit'
  BY <1>1, EmptyTyped, FitMove
<1>3. code' = code => StacksFit'
  BY DEF StacksFit, StackFits, FrameFits
<1>4. CASE Locking(a)
  BY <1>2, <1>3, <1>4, WhatLocking
<1>5. CASE Walk(a) \/ Asks(a)
  BY <1>5, WalkFits, AsksFit
<1>6. CASE Creating(a)
  <2>1. CASE Attach(a)
    <3> DEFINE fs == <<F("err", Top(a).arg), F("adopt", Top(a).node)>>
    <3>1. /\ Moves(a, fs) /\ F("err", Top(a).arg) \in Frame /\ F("adopt", Top(a).node) \in Frame
          /\ a \in Threads
      BY <2>1, WhatAttach, UserHead DEF UserOps
    <3>2. fs \in Seq(Frame)
      BY <3>1
    <3>3. Unmarked(a, fs)
      BY <3>1 DEF Unmarked, F
    <3> QED
      BY <3>1, <3>2, <3>3, FitMove
  <2> QED
    BY <1>2, <1>6, <2>1, AdoptFits, ArmFits, WhatReady DEF Creating
<1>7. CASE Links(a)
  <2>1. CASE Detach(a)
    <3> DEFINE fs == <<F("free", Top(a).node)>>
    <3>1. Moves(a, fs) /\ F("free", Top(a).node) \in Frame /\ a \in Threads
      BY <2>1, WhatDetach, UserHead DEF UserOps
    <3>2. fs \in Seq(Frame)
      BY <3>1
    <3>3. Unmarked(a, fs)
      BY <3>1 DEF Unmarked, F
    <3> QED
      BY <3>1, <3>2, <3>3, FitMove
  <2> QED
    BY <1>2, <1>7, <2>1, WhatBind, WhatPop, WhatReady DEF Links
<1>8. CASE Wait(a) \/ WaitTimeout(a)
  BY <1>2, <1>3, <1>8, WhatWait, WhatPop
<1>9. CASE a \in Nodes /\ Timer(a)
  BY <1>9, TimerFits
<1> QED
  BY <1>4, <1>5, <1>6, <1>7, <1>8, <1>9 DEF Step

-----------------------------------------------------------------------------
(***************************************************************************)
(* What the calls push.                                                    *)
(***************************************************************************)
\* A stack for which no shared hold is taken, and whose walking frames stand
\* right after the frame that takes one.
Balanced(fs)  == Paired(fs) /\ Paid(fs) = {}
Sheltered(fs) ==
    \A i \in 1..Len(fs) : Walking(fs[i]) => \E k \in 1..Len(fs) : k + 1 = i /\ fs[k].op = "share"

\* a stack of one call on node n: a walk's and a waiter's frames on n
OnNode(fs, n, ops) == \A i \in 1..Len(fs) : fs[i].node = n /\ fs[i].op \in ops

\* Code without lock steps is balanced.
LEMMA PlainBalanced ==
    ASSUME NEW fs \in Seq(Frame), \A i \in 1..Len(fs) : fs[i].op \notin {"share", "unshare"}
    PROVE  Balanced(fs)
  BY DEF Balanced, Paired, Paid

\* The code of a cancellation takes the lock, marks under it and gives it back.
LEMMA HeldBalanced ==
    ASSUME NEW n \in Nodes, NEW c \in Causes
    PROVE  /\ Balanced(MarkCanceled(n, c)) /\ Sheltered(MarkCanceled(n, c))
           /\ OnNode(MarkCanceled(n, c), n, {"share", "mark", "unshare"})
           /\ \A i \in 1..Len(MarkCanceled(n, c)) :
                  MarkCanceled(n, c)[i].op = "mark" => MarkCanceled(n, c)[i].arg = c
           /\ \E i \in 1..Len(MarkCanceled(n, c)) : MarkCanceled(n, c)[i].op = "mark"
<1>1. CASE KindOf[n] = "value"
  <2> DEFINE fs == <<FA("mark", n, c)>>
  <2>1. Len(fs) = 1 /\ fs[1] = FA("mark", n, c)
    OBVIOUS
  <2>2. MarkCanceled(n, c) = fs
    BY <1>1 DEF MarkCanceled
  <2> HIDE DEF fs
  <2>3. \A i \in 1..Len(fs) : /\ fs[i].op = "mark" /\ fs[i].node = n /\ fs[i].arg = c
                              /\ ~Walking(fs[i])
    BY <1>1, <2>1 DEF FA, Walking
  <2>4. Balanced(fs) /\ Sheltered(fs)
    <3>1. Paired(fs)
      BY <2>3 DEF Paired
    <3>2. Paid(fs) = {}
      BY <2>3 DEF Paid
    <3>3. Sheltered(fs)
      BY <2>3 DEF Sheltered
    <3> QED
      BY <3>1, <3>2, <3>3 DEF Balanced
  <2>5. OnNode(fs, n, {"share", "mark", "unshare"})
    BY <2>3 DEF OnNode
  <2>6. /\ \A i \in 1..Len(fs) : fs[i].op = "mark" => fs[i].arg = c
        /\ \E i \in 1..Len(fs) : fs[i].op = "mark"
    BY <2>1, <2>3
  <2> QED
    BY <2>2, <2>4, <2>5, <2>6
<1>2. CASE KindOf[n] # "value"
  <2> DEFINE fs == <<F("share", n), FA("mark", n, c), F("unshare", n)>>
  <2>1. Len(fs) = 3 /\ fs[1] = F("share", n) /\ fs[2] = FA("mark", n, c) /\ fs[3] = F("unshare", n)
    OBVIOUS
  <2>2. MarkCanceled(n, c) = fs
    BY <1>2 DEF MarkCanceled
  <2> HIDE DEF fs
  <2>3. /\ fs[1].op = "share" /\ fs[2].op = "mark" /\ fs[3].op = "unshare" /\ fs[2].arg = c
        /\ fs[1].node = n /\ fs[2].node = n /\ fs[3].node = n
    BY <2>1 DEF F, FA
  <2>4. \A i \in 1..3 : i = 1 \/ i = 2 \/ i = 3
    OBVIOUS
  <2>5. Paired(fs)
    BY <2>1, <2>3, <2>4 DEF Paired
  <2>6. Paid(fs) = {}
    BY <2>1, <2>3, <2>4 DEF Paid
  <2>7. Sheltered(fs)
    BY <2>1, <2>3, <2>4 DEF Sheltered, Walking
  <2>8. OnNode(fs, n, {"share", "mark", "unshare"})
    BY <2>1, <2>3, <2>4 DEF OnNode
  <2>9. /\ \A i \in 1..Len(fs) : fs[i].op = "mark" => fs[i].arg = c
        /\ \E i \in 1..Len(fs) : fs[i].op = "mark"
    BY <2>1, <2>3, <2>4
  <2> QED
    BY <2>2, <2>5, <2>6, <2>7, <2>8, <2>9 DEF Balanced
<1> QED
  BY <1>1, <1>2

\* Frames above a balanced stack that neither take nor give back the lock.
LEMMA BalancedAbove ==
    ASSUME NEW x \in Frame, x.op \notin {"share", "unshare"}, ~Walking(x),
           NEW fs \in Seq(Frame), Balanced(fs)
    PROVE  /\ Balanced(<<x>> \o fs)
           /\ Sheltered(fs) => Sheltered(<<x>> \o fs)
<1> DEFINE new == <<x>> \o fs
<1>1. /\ Len(fs) \in Nat /\ Len(new) = Len(fs) + 1 /\ new[1] = x
      /\ \A i \in 1..Len(fs) : new[i + 1] = fs[i]
      /\ \A i \in 2..Len(new) : i - 1 \in 1..Len(fs) /\ new[i] = fs[i - 1]
  OBVIOUS
<1> HIDE DEF new
<1>2. \A i \in 1..Len(new) : i = 1 \/ i \in 2..Len(new)
  BY <1>1
<1>3. Paired(new)
  <2> SUFFICES ASSUME NEW i \in 1..Len(new), new[i].op = "share"
               PROVE  /\ i + 2 <= Len(new) /\ new[i + 1].op \in {"mark", "fire"}
                      /\ new[i + 2].op = "unshare"
    BY DEF Paired
  <2>1. i - 1 \in 1..Len(fs) /\ fs[i - 1].op = "share"
    BY <1>1, <1>2
  <2>2. /\ (i - 1) + 2 <= Len(fs) /\ fs[(i - 1) + 1].op \in {"mark", "fire"}
        /\ fs[(i - 1) + 2].op = "unshare"
    BY <2>1 DEF Balanced, Paired
  <2>3. new[((i - 1) + 1) + 1] = fs[(i - 1) + 1] /\ new[((i - 1) + 2) + 1] = fs[(i - 1) + 2]
    BY <1>1, <2>1, <2>2
  <2>4. ((i - 1) + 1) + 1 = i + 1 /\ ((i - 1) + 2) + 1 = i + 2 /\ i + 2 <= Len(new)
    BY <1>1, <2>1, <2>2
  <2> QED
    BY <2>2, <2>3, <2>4
<1>4. ASSUME NEW j \in Paid(new) PROVE FALSE
  <2>1. j \in 1..Len(new) /\ new[j].op = "unshare"
        /\ ~ \E i \in 1..Len(new) : j = i + 2 /\ new[i].op = "share"
    BY DEF Paid
  <2>2. j - 1 \in 1..Len(fs) /\ fs[j - 1].op = "unshare"
    BY <1>1, <1>2, <2>1
  <2>3. PICK i \in 1..Len(fs) : j - 1 = i + 2 /\ fs[i].op = "share"
    BY <2>2 DEF Balanced, Paid
  <2>4. i + 1 \in 1..Len(new) /\ new[i + 1].op = "share" /\ j = (i + 1) + 2
    BY <1>1, <2>1, <2>3
  <2> QED
    BY <2>1, <2>4
<1>5. Sheltered(fs) => Sheltered(new)
  <2> SUFFICES ASSUME Sheltered(fs), NEW i \in 1..Len(new), Walking(new[i])
               PROVE  \E k \in 1..Len(new) : k + 1 = i /\ new[k].op = "share"
    BY DEF Sheltered
  <2>1. i - 1 \in 1..Len(fs) /\ Walking(fs[i - 1])
    BY <1>1, <1>2
  <2>2. PICK k \in 1..Len(fs) : k + 1 = i - 1 /\ fs[k].op = "share"
    BY <2>1 DEF Sheltered
  <2>3. k + 1 \in 1..Len(new) /\ (k + 1) + 1 = i /\ new[k + 1].op = "share"
    BY <1>1, <2>1, <2>2
  <2> QED
    BY <2>3
<1> QED
  BY <1>3, <1>4, <1>5 DEF Balanced, new

\* One frame below a balanced stack.
LEMMA BalancedBelow ==
    ASSUME NEW x \in Frame, x.op \notin {"share", "unshare"},
           NEW fs \in Seq(Frame), Balanced(fs)
    PROVE  /\ Balanced(fs \o <<x>>)
           /\ Sheltered(fs) /\ ~Walking(x) => Sheltered(fs \o <<x>>)
<1> DEFINE new == fs \o <<x>>
<1>1. /\ Len(fs) \in Nat /\ Len(new) = Len(fs) + 1 /\ new[Len(new)] = x
      /\ \A i \in 1..Len(fs) : new[i] = fs[i]
  OBVIOUS
<1> HIDE DEF new
<1>2. \A i \in 1..Len(new) : i = Len(new) \/ i \in 1..Len(fs)
  BY <1>1
<1>3. Paired(new)
  <2> SUFFICES ASSUME NEW i \in 1..Len(new), new[i].op = "share"
               PROVE  /\ i + 2 <= Len(new) /\ new[i + 1].op \in {"mark", "fire"}
                      /\ new[i + 2].op = "unshare"
    BY DEF Paired
  <2>1. i \in 1..Len(fs) /\ fs[i].op = "share"
    BY <1>1, <1>2
  <2>2. /\ i + 2 <= Len(fs) /\ fs[i + 1].op \in {"mark", "fire"}
        /\ fs[i + 2].op = "unshare"
    BY <2>1 DEF Balanced, Paired
  <2>3. new[i + 1] = fs[i + 1] /\ new[i + 2] = fs[i + 2] /\ i + 2 <= Len(new)
    BY <1>1, <2>1, <2>2
  <2> QED
    BY <2>2, <2>3
<1>4. ASSUME NEW j \in Paid(new) PROVE FALSE
  <2>1. j \in 1..Len(new) /\ new[j].op = "unshare"
        /\ ~ \E i \in 1..Len(new) : j = i + 2 /\ new[i].op = "share"
    BY DEF Paid
  <2>2. j \in 1..Len(fs) /\ fs[j].op = "unshare"
    BY <1>1, <1>2, <2>1
  <2>3. PICK i \in 1..Len(fs) : j = i + 2 /\ fs[i].op = "share"
    BY <2>2 DEF Balanced, Paid
  <2>4. i \in 1..Len(new) /\ new[i].op = "share"
    BY <1>1, <2>3
  <2> QED
    BY <2>1, <2>3, <2>4
<1>5. Sheltered(fs) /\ ~Walking(x) => Sheltered(new)
  <2> SUFFICES ASSUME Sheltered(fs), ~Walking(x), NEW i \in 1..Len(new), Walking(new[i])
               PROVE  \E k \in 1..Len(new) : k + 1 = i /\ new[k].op = "share"
    BY DEF Sheltered
  <2>1. i \in 1..Len(fs) /\ Walking(fs[i])
    BY <1>1, <1>2
  <2>2. PICK k \in 1..Len(fs) : k + 1 = i /\ fs[k].op = "share"
    BY <2>1 DEF Sheltered
  <2>3. k \in 1..Len(new) /\ new[k].op = "share"
    BY <1>1, <2>1, <2>2
  <2> QED
    BY <2>2, <2>3
<1> QED
  BY <1>3, <1>4, <1>5 DEF Balanced, new

-----------------------------------------------------------------------------
(***************************************************************************)
(* What a step of actor a puts in place of its head frame.                 *)
(***************************************************************************)
\* where the cause a walk carries comes from
CauseFrom(a, c) ==
    \/ Top(a).op \in {"mark", "fire", "kids"} /\ c = Top(a).arg
    \/ Top(a).op \in {"err", "arm"} /\ c = DeadlineExceeded /\ Expired(Top(a).node)
    \/ Top(a).op = "arm" /\ c = SpawnError
    \/ Top(a).op \in {"inherit", "adopt"} /\ c = reg[a]
    \/ Top(a).op = "tExpire" /\ c = DeadlineExceeded

QuietOps == {"share", "unshare", "broadcast", "stop"}
PushOps  == FreeOps \cup TimerOps \cup {"err", "inherit", "adopt", "arm", "ready", "free"}

\* a new frame f at place i: the node is the head's but for the next child of
\* a walk and the parent that err() asks
NewFrame(a, f, i) ==
    /\ f.op \in PushOps
    /\ f.op # "err" => \/ f.node = Top(a).node
                       \/ Top(a).op = "kids" /\ f.node \in Top(a).todo /\ f.op \in FreeOps
    /\ f.op = "err" => /\ i = 1
                       /\ \/ /\ Top(a).op = "err" /\ Top(a).node \in Nodes
                             /\ f.node = parent[Top(a).node] /\ f.node \in Parents
                          \/ Top(a).op = "attach" /\ f.node = Top(a).arg
    /\ f.op = "inherit" => Top(a).op = "err"
    /\ f.op = "adopt" => Top(a).op = "attach"
    /\ f.op \in {"arm", "ready"} => Top(a).op = "adopt"
    /\ f.op = "free" => Top(a).op = "detach"
    /\ f.op \in TimerOps => Top(a).op \in TimerOps
    /\ f.op = "tCheck" => Top(a).op = "tEffective"
    /\ f.op = "tExpire" => Top(a).op = "tCheck" /\ tlocal[a].at = {}
    /\ f.op = "fire" => Top(a).op = "mark" /\ cause[Top(a).node] = None
    /\ f.op = "kids" => /\ f.node = Top(a).node /\ Top(a).op \in {"fire", "kids"}
                        /\ f.todo \subseteq (IF Top(a).op = "fire" THEN children[f.node]
                                             ELSE Top(a).todo)
    /\ f.op \in {"mark", "fire", "kids"} => CauseFrom(a, f.arg)

Pushes(a, fs) ==
    /\ Moves(a, fs) /\ shares' = shares
    /\ Top(a) = code[a][1] /\ Top(a).op \notin {"share", "unshare"}
    /\ Balanced(fs) /\ (Sheltered(fs) \/ Walking(Top(a)))
    /\ \A i \in 1..Len(fs) : NewFrame(a, fs[i], i)
    /\ \A i, j \in 1..Len(fs) : fs[i].op = "fire" /\ fs[j].op = "fire" => i = j

\* Kinds of new frames.
LEMMA NewQuiet ==
    ASSUME NEW a, NEW f, NEW i, f.op \in QuietOps,
           \/ f.node = Top(a).node
           \/ Top(a).op = "kids" /\ f.node \in Top(a).todo
    PROVE  NewFrame(a, f, i)
  BY DEF NewFrame, QuietOps, PushOps, FreeOps, TimerOps

\* A pushed mark has its cause from the frame that pushed it.
LEMMA NewMark ==
    ASSUME NEW a, NEW f, NEW i, f.op = "mark", CauseFrom(a, f.arg),
           \/ f.node = Top(a).node
           \/ Top(a).op = "kids" /\ f.node \in Top(a).todo
    PROVE  NewFrame(a, f, i)
  BY DEF NewFrame, PushOps, FreeOps, TimerOps

\* A frame that only ends pushes nothing.
LEMMA PopPushes ==
    ASSUME Types, NEW a \in Actors, NEW ops, Head1(a, ops), Moves(a, <<>>), shares' = shares,
           Top(a).op \notin {"share", "unshare"}
    PROVE  Pushes(a, <<>>)
<1>1. Balanced(<<>>) /\ Sheltered(<<>>)
  BY DEF Balanced, Sheltered, Paired, Paid
<1> QED
  BY <1>1 DEF Pushes, Head1

\* A frame that gives way to one other pushes that one.
LEMMA OnePushes ==
    ASSUME Types, NEW a \in Actors, NEW ops, Head1(a, ops), shares' = shares,
           Top(a).op \notin {"share", "unshare"},
           NEW f \in Frame, f.op \notin {"share", "unshare"}, Moves(a, <<f>>),
           NewFrame(a, f, 1), ~Walking(f) \/ Walking(Top(a))
    PROVE  Pushes(a, <<f>>) /\ <<f>> \in Seq(Frame)
<1> DEFINE fs == <<f>>
<1>1. fs \in Seq(Frame) /\ Len(fs) = 1 /\ fs[1] = f
  OBVIOUS
<1> HIDE DEF fs
<1>2. Balanced(fs)
  BY <1>1, PlainBalanced
<1>3. Sheltered(fs) \/ Walking(Top(a))
  BY <1>1 DEF Sheltered
<1>4. /\ \A i \in 1..Len(fs) : NewFrame(a, fs[i], i)
      /\ \A i, j \in 1..Len(fs) : i = j
  BY <1>1
<1> QED
  BY <1>1, <1>2, <1>3, <1>4 DEF Pushes, Head1, fs

\* A step that starts a cancellation pushes its code.
LEMMA CancelPushes ==
    ASSUME Types, NEW a \in Actors, NEW ops, Head1(a, ops), shares' = shares,
           Top(a).op \notin {"share", "unshare"}, Top(a).node \in Nodes,
           NEW c \in Causes, CauseFrom(a, c), Moves(a, MarkCanceled(Top(a).node, c))
    PROVE  Pushes(a, MarkCanceled(Top(a).node, c))
           /\ MarkCanceled(Top(a).node, c) \in Seq(Frame)
<1> DEFINE fs == MarkCanceled(Top(a).node, c)
<1>1. /\ Balanced(fs) /\ Sheltered(fs) /\ OnNode(fs, Top(a).node, {"share", "mark", "unshare"})
      /\ \A i \in 1..Len(fs) : fs[i].op = "mark" => fs[i].arg = c
      /\ fs \in Seq(Frame)
  BY HeldBalanced, WalkFrames
<1> HIDE DEF fs
<1>2. \A i \in 1..Len(fs) : NewFrame(a, fs[i], i)
  <2> SUFFICES ASSUME NEW i \in 1..Len(fs) PROVE NewFrame(a, fs[i], i)
    OBVIOUS
  <2>1. fs[i].node = Top(a).node /\ fs[i].op \in {"share", "mark", "unshare"}
    BY <1>1 DEF OnNode
  <2>2. CASE fs[i].op = "mark"
    BY <1>1, <2>1, <2>2, NewMark
  <2>3. CASE fs[i].op # "mark"
    BY <2>1, <2>3, NewQuiet DEF QuietOps
  <2> QED
    BY <2>2, <2>3
<1>3. \A i \in 1..Len(fs) : fs[i].op # "fire"
  BY <1>1 DEF OnNode
<1> QED
  BY <1>1, <1>2, <1>3 DEF Pushes, Head1, fs

\* Setting a cause pushes the rest of the walk.
LEMMA MarkPushes ==
    ASSUME Types, NEW a \in Actors, Mark(a)
    PROVE  \E fs \in Seq(Frame) : Pushes(a, fs)
<1> DEFINE n == Top(a).node
           c == Top(a).arg
<1>1. /\ Head1(a, {"mark"}) /\ n \in Nodes /\ c \in Causes /\ shares' = shares
      /\ \/ Moves(a, <<>>)
         \/ cause[n] = None /\ Moves(a, AfterMark(n, c))
  BY WhatMark
<1>2. Top(a).op = "mark" /\ Top(a) = code[a][1]
  BY <1>1 DEF Head1
<1>3. CASE Moves(a, <<>>)
  BY <1>1, <1>2, <1>3, PopPushes, EmptyTyped
<1>4. CASE cause[n] = None /\ Moves(a, AfterMark(n, c))
  <2> DEFINE b == F("broadcast", n)
             f == FA("fire", n, c)
  <2>1. b \in Frame /\ f \in Frame /\ F("share", n) \in Frame /\ F("unshare", n) \in Frame
    BY <1>1, PlainFrame, CauseFrame DEF PlainOps, FrameOps, ExclusiveOps, TimerOps
  <2>2. NewFrame(a, b, 1) /\ b.op = "broadcast"
    BY NewQuiet DEF F, QuietOps
  <2>3. \A i \in {2, 3} : NewFrame(a, f, i)
    <3>1. f.op = "fire" /\ f.node = n /\ f.arg = c
      BY DEF FA
    <3>2. CauseFrom(a, f.arg)
      BY <1>2, <3>1 DEF CauseFrom
    <3> QED
      BY <1>2, <1>4, <3>1, <3>2 DEF NewFrame, PushOps, FreeOps, TimerOps
  <2>4. f.op = "fire"
    BY DEF FA
  <2>5. CASE KindOf[n] = "value"
    <3> DEFINE fs == <<b, F("share", n), f, F("unshare", n)>>
    <3>1. /\ Len(fs) = 4 /\ fs[1] = b /\ fs[2] = F("share", n)
          /\ fs[3] = f /\ fs[4] = F("unshare", n)
      OBVIOUS
    <3>2. fs \in Seq(Frame)
      BY <2>1
    <3>3. Moves(a, fs)
      BY <1>4, <2>5 DEF AfterMark
    <3> HIDE DEF fs, f, b
    <3>4. /\ fs[1].op = "broadcast" /\ fs[2].op = "share" /\ fs[3].op = "fire" /\ fs[4].op = "unshare"
          /\ fs[2].node = n /\ fs[4].node = n
      BY <2>2, <2>4, <3>1 DEF F
    <3>5. \A i \in 1..4 : i = 1 \/ i = 2 \/ i = 3 \/ i = 4
      OBVIOUS
    <3>6. Paired(fs)
      BY <3>1, <3>4, <3>5 DEF Paired
    <3>7. Paid(fs) = {}
      BY <3>1, <3>4, <3>5 DEF Paid
    <3>8. Sheltered(fs)
      BY <3>1, <3>4, <3>5 DEF Sheltered, Walking
    <3>9. NewFrame(a, fs[2], 2) /\ NewFrame(a, fs[4], 4)
      BY <3>4, NewQuiet DEF QuietOps
    <3>10. \A i \in 1..Len(fs) : NewFrame(a, fs[i], i)
      BY <2>2, <2>3, <3>1, <3>5, <3>9
    <3>11. \A i, j \in 1..Len(fs) : fs[i].op = "fire" /\ fs[j].op = "fire" => i = j
      BY <3>1, <3>4, <3>5
    <3>12. Pushes(a, fs)
      BY <1>1, <1>2, <3>3, <3>6, <3>7, <3>8, <3>10, <3>11 DEF Pushes, Balanced
    <3> QED
      BY <3>2, <3>12
  <2>6. CASE KindOf[n] # "value"
    <3> DEFINE fs == <<b, f>>
    <3>1. Len(fs) = 2 /\ fs[1] = b /\ fs[2] = f
      OBVIOUS
    <3>2. fs \in Seq(Frame)
      BY <2>1
    <3>3. Moves(a, fs)
      BY <1>4, <2>6 DEF AfterMark
    <3> HIDE DEF fs, f, b
    <3>4. \A i \in 1..2 : i = 1 \/ i = 2
      OBVIOUS
    <3>5. Balanced(fs)
      BY <2>2, <2>4, <3>1, <3>2, <3>4, PlainBalanced
    <3>6. Walking(Top(a))
      BY <1>2, <2>6 DEF Walking
    <3>7. \A i \in 1..Len(fs) : NewFrame(a, fs[i], i)
      BY <2>2, <2>3, <3>1, <3>4
    <3>8. \A i, j \in 1..Len(fs) : fs[i].op = "fire" /\ fs[j].op = "fire" => i = j
      BY <2>2, <3>1, <3>4
    <3>9. Pushes(a, fs)
      BY <1>1, <1>2, <3>3, <3>5, <3>6, <3>7, <3>8 DEF Pushes
    <3> QED
      BY <3>2, <3>9
  <2> QED
    BY <2>5, <2>6
<1> QED
  BY <1>1, <1>3, <1>4

\* The code that goes down into a child is balanced and stays at that child.
LEMMA PropagateBalanced ==
    ASSUME NEW m \in Nodes, NEW c \in Causes
    PROVE  /\ Balanced(Propagate(m, c))
           /\ OnNode(Propagate(m, c), m, {"stop", "share", "mark", "unshare"})
           /\ \A i \in 1..Len(Propagate(m, c)) :
                  Propagate(m, c)[i].op = "mark" => Propagate(m, c)[i].arg = c
           /\ \E i \in 1..Len(Propagate(m, c)) : Propagate(m, c)[i].op = "mark"
<1>1. /\ F("share", m) \in Frame /\ F("unshare", m) \in Frame /\ F("stop", m) \in Frame
      /\ FA("mark", m, c) \in Frame
  BY PlainFrame, CauseFrame DEF PlainOps, FrameOps, ExclusiveOps, TimerOps
<1>2. CASE KindOf[m] = "cancel"
  <2> DEFINE fs == <<FA("mark", m, c)>>
  <2>1. Len(fs) = 1 /\ fs[1] = FA("mark", m, c) /\ Propagate(m, c) = fs
    BY <1>2 DEF Propagate
  <2>2. fs \in Seq(Frame)
    BY <1>1
  <2> HIDE DEF fs
  <2>3. \A i \in 1..Len(fs) : fs[i].op = "mark" /\ fs[i].node = m /\ fs[i].arg = c
    BY <2>1 DEF FA
  <2>4. Balanced(fs)
    BY <2>2, <2>3, PlainBalanced
  <2>5. OnNode(fs, m, {"stop", "share", "mark", "unshare"})
    BY <2>3 DEF OnNode
  <2>6. \E i \in 1..Len(fs) : fs[i].op = "mark"
    BY <2>1, <2>3
  <2> QED
    BY <2>1, <2>3, <2>4, <2>5, <2>6
<1>3. CASE KindOf[m] = "deadline"
  <2> DEFINE fs == <<F("stop", m), FA("mark", m, c)>>
  <2>1. /\ Len(fs) = 2 /\ fs[1] = F("stop", m) /\ fs[2] = FA("mark", m, c)
        /\ Propagate(m, c) = fs
    BY <1>3 DEF Propagate
  <2>2. fs \in Seq(Frame)
    BY <1>1
  <2> HIDE DEF fs
  <2>3. /\ fs[1].op = "stop" /\ fs[2].op = "mark"
        /\ fs[1].node = m /\ fs[2].node = m /\ fs[2].arg = c
    BY <2>1 DEF F, FA
  <2>4. \A i \in 1..2 : i = 1 \/ i = 2
    OBVIOUS
  <2>5. Balanced(fs)
    BY <2>1, <2>2, <2>3, <2>4, PlainBalanced
  <2>6. OnNode(fs, m, {"stop", "share", "mark", "unshare"})
    BY <2>1, <2>3, <2>4 DEF OnNode
  <2>7. /\ \A i \in 1..Len(fs) : fs[i].op = "mark" => fs[i].arg = c
        /\ \E i \in 1..Len(fs) : fs[i].op = "mark"
    BY <2>1, <2>3, <2>4
  <2> QED
    BY <2>1, <2>5, <2>6, <2>7
<1>4. CASE KindOf[m] = "value"
  <2> DEFINE fs == <<F("share", m), FA("mark", m, c), F("unshare", m)>>
  <2>1. /\ Len(fs) = 3 /\ fs[1] = F("share", m) /\ fs[2] = FA("mark", m, c)
        /\ fs[3] = F("unshare", m) /\ Propagate(m, c) = fs
    BY <1>4 DEF Propagate
  <2> HIDE DEF fs
  <2>2. /\ fs[1].op = "share" /\ fs[2].op = "mark" /\ fs[3].op = "unshare" /\ fs[2].arg = c
        /\ fs[1].node = m /\ fs[2].node = m /\ fs[3].node = m
    BY <2>1 DEF F, FA
  <2>3. \A i \in 1..3 : i = 1 \/ i = 2 \/ i = 3
    OBVIOUS
  <2>4. Paired(fs)
    BY <2>1, <2>2, <2>3 DEF Paired
  <2>5. Paid(fs) = {}
    BY <2>1, <2>2, <2>3 DEF Paid
  <2>6. OnNode(fs, m, {"stop", "share", "mark", "unshare"})
    BY <2>1, <2>2, <2>3 DEF OnNode
  <2>7. /\ \A i \in 1..Len(fs) : fs[i].op = "mark" => fs[i].arg = c
        /\ \E i \in 1..Len(fs) : fs[i].op = "mark"
    BY <2>1, <2>2, <2>3
  <2> QED
    BY <2>1, <2>4, <2>5, <2>6, <2>7 DEF Balanced
<1>5. KindOf[m] \in {"cancel", "deadline", "value"}
  BY ContextAssumption
<1> QED
  BY <1>2, <1>3, <1>4, <1>5

\* The walk over the children pushes the code of one child.
LEMMA KidPushes ==
    ASSUME Types, NEW a \in Actors, NextKid(a)
    PROVE  \E fs \in Seq(Frame) : Pushes(a, fs)
<1>1. /\ Head1(a, {"kids"}) /\ Top(a).node \in Nodes /\ Top(a).arg \in Causes
      /\ Top(a).todo \subseteq Nodes /\ shares' = shares
      /\ \/ Moves(a, <<>>)
         \/ \E m \in Top(a).todo :
               /\ Moves(a, Propagate(m, Top(a).arg)
                           \o <<Kids(Top(a).node, Top(a).arg, Top(a).todo \ {m})>>)
               /\ Kids(Top(a).node, Top(a).arg, Top(a).todo \ {m}) \in Frame
  BY WhatNextKid
<1>2. Top(a).op = "kids" /\ Top(a) = code[a][1] /\ Walking(Top(a))
  BY <1>1 DEF Head1, Walking
<1>3. CASE Moves(a, <<>>)
  BY <1>1, <1>2, <1>3, PopPushes, EmptyTyped
<1>4. ASSUME NEW m \in Top(a).todo, NEW k \in Frame,
             k = Kids(Top(a).node, Top(a).arg, Top(a).todo \ {m}),
             Moves(a, Propagate(m, Top(a).arg) \o <<k>>)
      PROVE  \E fs \in Seq(Frame) : Pushes(a, fs)
  <2> DEFINE p == Propagate(m, Top(a).arg)
             fs == p \o <<k>>
  <2>1. /\ p \in Seq(Frame) /\ Balanced(p)
        /\ OnNode(p, m, {"stop", "share", "mark", "unshare"})
        /\ \A i \in 1..Len(p) : p[i].op = "mark" => p[i].arg = Top(a).arg
    BY <1>1, PropagateBalanced, WalkFrames
  <2>2. /\ k.op = "kids" /\ k.node = Top(a).node /\ k.arg = Top(a).arg
        /\ k.todo \subseteq Top(a).todo
    BY <1>4 DEF Kids
  <2> HIDE DEF p
  <2>3. fs \in Seq(Frame)
    BY <2>1
  <2>4. Balanced(fs)
    BY <2>1, <2>2, BalancedBelow
  <2>5. \A i \in 1..Len(fs) : (i \in 1..Len(p) /\ fs[i] = p[i]) \/ (i = Len(p) + 1 /\ fs[i] = k)
    BY <2>1
  <2>6. Moves(a, fs)
    BY <1>4 DEF p
  <2> HIDE DEF fs
  <2>7. \A i \in 1..Len(p) : NewFrame(a, p[i], i)
    <3> SUFFICES ASSUME NEW i \in 1..Len(p) PROVE NewFrame(a, p[i], i)
      OBVIOUS
    <3>1. p[i].node = m /\ p[i].op \in {"stop", "share", "mark", "unshare"}
      BY <2>1 DEF OnNode
    <3>2. CASE p[i].op = "mark"
      <4>1. CauseFrom(a, p[i].arg)
        BY <1>2, <2>1, <3>2 DEF CauseFrom
      <4> QED
        BY <1>2, <3>1, <3>2, <4>1, NewMark
    <3>3. CASE p[i].op # "mark"
      BY <1>2, <3>1, <3>3, NewQuiet DEF QuietOps
    <3> QED
      BY <3>2, <3>3
  <2>8. \A i : NewFrame(a, k, i)
    <3>1. CauseFrom(a, k.arg)
      BY <1>2, <2>2 DEF CauseFrom
    <3> QED
      BY <1>2, <2>2, <3>1 DEF NewFrame, PushOps, FreeOps, TimerOps
  <2>9. \A i \in 1..Len(fs) : NewFrame(a, fs[i], i)
    BY <2>5, <2>7, <2>8
  <2>10. \A i \in 1..Len(fs) : fs[i].op # "fire"
    BY <2>1, <2>2, <2>5 DEF OnNode
  <2>11. Pushes(a, fs)
    BY <1>1, <1>2, <2>4, <2>6, <2>9, <2>10 DEF Pushes
  <2> QED
    BY <2>3, <2>11
<1> QED
  BY <1>1, <1>3, <1>4

\* Firing pushes the walk over the children.
LEMMA FirePushes ==
    ASSUME Types, NEW a \in Actors, Fire(a)
    PROVE  \E fs \in Seq(Frame) : Pushes(a, fs)
<1> DEFINE k == Kids(Top(a).node, Top(a).arg, children[Top(a).node])
<1>1. /\ Head1(a, {"fire"}) /\ Moves(a, <<k>>) /\ k \in Frame /\ shares' = shares
      /\ Top(a).op = "fire"
  BY WhatFire DEF Head1
<1>2. /\ k.op = "kids" /\ k.node = Top(a).node /\ k.arg = Top(a).arg
      /\ k.todo = children[Top(a).node]
  BY DEF Kids
<1> HIDE DEF k
<1>3. CauseFrom(a, k.arg)
  BY <1>1, <1>2 DEF CauseFrom
<1>4. NewFrame(a, k, 1)
  BY <1>1, <1>2, <1>3 DEF NewFrame, PushOps, FreeOps, TimerOps
<1>5. Walking(Top(a))
  BY <1>1 DEF Walking
<1> QED
  BY <1>1, <1>2, <1>4, <1>5, OnePushes

-----------------------------------------------------------------------------
\* A query pushes what is left of it.
LEMMA AsksPushes ==
    ASSUME Types, StacksFit, NEW a \in Actors, Asks(a)
    PROVE  \E fs \in Seq(Frame) : Pushes(a, fs)
<1>1. CASE Err(a)
  <2> DEFINE n == Top(a).node
  <2>1. /\ Head1(a, {"err"}) /\ n \in Parents /\ shares' = shares
    BY <1>1, WhatErr
  <2>2. Top(a).op = "err" /\ Top(a) = code[a][1]
    BY <2>1 DEF Head1
  <2>3. CASE Moves(a, <<>>)
    BY <2>1, <2>2, <2>3, PopPushes, EmptyTyped
  <2>4. CASE n \in Nodes /\ Expired(n) /\ Moves(a, MarkCanceled(n, DeadlineExceeded))
    <3>1. DeadlineExceeded \in Causes /\ CauseFrom(a, DeadlineExceeded)
      BY <2>2, <2>4 DEF Causes, CauseFrom
    <3> QED
      BY <2>1, <2>2, <2>4, <3>1, CancelPushes
  <2>5. CASE /\ n \in Nodes /\ parent[n] \in Parents
             /\ Moves(a, <<F("err", parent[n]), F("inherit", n)>>)
             /\ F("err", parent[n]) \in Frame /\ F("inherit", n) \in Frame
    <3> DEFINE e == F("err", parent[n])
               h == F("inherit", n)
               fs == <<e, h>>
    <3>1. Len(fs) = 2 /\ fs[1] = e /\ fs[2] = h /\ Moves(a, fs)
      BY <2>5
    <3>2. fs \in Seq(Frame)
      BY <2>5
    <3>3. /\ e.op = "err" /\ e.node = parent[n]
          /\ h.op = "inherit" /\ h.node = n
      BY DEF F
    <3> HIDE DEF fs, e, h
    <3>4. \A i \in 1..2 : i = 1 \/ i = 2
      OBVIOUS
    <3>5. Balanced(fs)
      BY <3>1, <3>2, <3>3, <3>4, PlainBalanced
    <3>6. Sheltered(fs)
      BY <3>1, <3>3, <3>4 DEF Sheltered, Walking
    <3>7. NewFrame(a, e, 1)
      BY <2>2, <2>5, <3>3 DEF NewFrame, PushOps, FreeOps, TimerOps
    <3>8. NewFrame(a, h, 2)
      BY <2>2, <3>3 DEF NewFrame, PushOps, FreeOps, TimerOps
    <3>9. \A i \in 1..Len(fs) : NewFrame(a, fs[i], i)
      BY <3>1, <3>4, <3>7, <3>8
    <3>10. \A i \in 1..Len(fs) : fs[i].op # "fire"
      BY <3>1, <3>3, <3>4
    <3>11. Pushes(a, fs)
      BY <2>1, <2>2, <3>1, <3>5, <3>6, <3>9, <3>10 DEF Pushes
    <3> QED
      BY <3>2, <3>11
  <2> QED
    BY <1>1, <2>3, <2>4, <2>5, WhatErr
<1>2. CASE Inherit(a)
  <2>1. /\ Head1(a, {"inherit"}) /\ Top(a).node \in Nodes /\ shares' = shares
        /\ Top(a).op = "inherit"
        /\ \/ Moves(a, <<>>)
           \/ reg[a] \in Causes /\ Moves(a, MarkCanceled(Top(a).node, reg[a]))
    BY <1>2, WhatInherit DEF Head1
  <2>2. CauseFrom(a, reg[a])
    BY <2>1 DEF CauseFrom
  <2>3. CASE Moves(a, <<>>)
    BY <2>1, <2>3, PopPushes, EmptyTyped
  <2>4. CASE reg[a] \in Causes /\ Moves(a, MarkCanceled(Top(a).node, reg[a]))
    BY <2>1, <2>2, <2>4, CancelPushes
  <2> QED
    BY <2>1, <2>3, <2>4
<1>3. CASE Return(a)
  <2>1. /\ Head1(a, {"broadcast", "stop", "return", "waitT", "join"})
        /\ Moves(a, <<>>) /\ shares' = shares
    BY <1>3, WhatPop
  <2>2. Top(a).op \notin {"share", "unshare"}
    BY <2>1 DEF Head1
  <2> QED
    BY <2>1, <2>2, PopPushes, EmptyTyped
<1> QED
  BY <1>1, <1>2, <1>3 DEF Asks

\* Linking pushes the question to the parent and the settling.
LEMMA AttachPushes ==
    ASSUME Types, StacksFit, NEW a \in Actors, Attach(a)
    PROVE  \E fs \in Seq(Frame) : Pushes(a, fs)
<1> DEFINE e == F("err", Top(a).arg)
           h == F("adopt", Top(a).node)
           fs == <<e, h>>
<1>1. /\ Head1(a, {"attach"}) /\ Moves(a, fs) /\ e \in Frame /\ h \in Frame /\ shares' = shares
  BY WhatAttach
<1>2. Top(a).op = "attach" /\ Top(a) = code[a][1]
  BY <1>1 DEF Head1
<1>3. Len(fs) = 2 /\ fs[1] = e /\ fs[2] = h
  OBVIOUS
<1>4. fs \in Seq(Frame)
  BY <1>1
<1>5. /\ e.op = "err" /\ e.node = Top(a).arg
      /\ h.op = "adopt" /\ h.node = Top(a).node
  BY DEF F
<1> HIDE DEF fs, e, h
<1>6. \A i \in 1..2 : i = 1 \/ i = 2
  OBVIOUS
<1>7. Balanced(fs)
  BY <1>3, <1>4, <1>5, <1>6, PlainBalanced
<1>8. Sheltered(fs)
  BY <1>3, <1>5, <1>6 DEF Sheltered, Walking
<1>9. NewFrame(a, e, 1)
  BY <1>2, <1>5 DEF NewFrame, PushOps, FreeOps, TimerOps
<1>10. NewFrame(a, h, 2)
  BY <1>2, <1>5 DEF NewFrame, PushOps, FreeOps, TimerOps
<1>11. \A i \in 1..Len(fs) : NewFrame(a, fs[i], i)
  BY <1>3, <1>6, <1>9, <1>10
<1>12. \A i \in 1..Len(fs) : fs[i].op # "fire"
  BY <1>3, <1>5, <1>6
<1>13. Pushes(a, fs)
  BY <1>1, <1>2, <1>7, <1>8, <1>11, <1>12 DEF Pushes
<1> QED
  BY <1>4, <1>13

\* Settling pushes the cancellation, or the timer's start.
LEMMA AdoptPushes ==
    ASSUME Types, StacksFit, NEW a \in Actors, Adopt(a)
    PROVE  \E fs \in Seq(Frame) : Pushes(a, fs)
<1> DEFINE n == Top(a).node
           s == Settle(n, reg[a])
           r == F("ready", n)
           fs == s \o <<r>>
<1>1. /\ Head1(a, {"adopt"}) /\ n \in Nodes /\ Moves(a, fs) /\ shares' = shares
      /\ reg[a] \in Causes \cup {None}
  BY WhatAdopt
<1>2. Top(a).op = "adopt" /\ Top(a) = code[a][1]
  BY <1>1 DEF Head1
<1>3. /\ r \in Frame /\ F("arm", n) \in Frame /\ s \in Seq(Frame) /\ fs \in Seq(Frame)
      /\ \/ reg[a] \in Causes /\ s = MarkCanceled(n, reg[a])
         \/ s = <<>>
         \/ s = <<F("arm", n)>>
  BY <1>1, SettleFrames
<1>4. r.op = "ready" /\ r.node = n
  BY DEF F
<1> HIDE DEF s, r
<1>5. /\ Balanced(s) /\ Sheltered(s)
      /\ \A i \in 1..Len(s) : NewFrame(a, s[i], i) /\ s[i].op # "fire"
  <2>1. CASE reg[a] \in Causes /\ s = MarkCanceled(n, reg[a])
    <3>1. /\ Balanced(s) /\ Sheltered(s)
          /\ OnNode(s, n, {"share", "mark", "unshare"})
          /\ \A i \in 1..Len(s) : s[i].op = "mark" => s[i].arg = reg[a]
      BY <1>1, <2>1, HeldBalanced
    <3>2. CauseFrom(a, reg[a])
      BY <1>2 DEF CauseFrom
    <3>3. ASSUME NEW i \in 1..Len(s) PROVE NewFrame(a, s[i], i) /\ s[i].op # "fire"
      <4>1. s[i].node = n /\ s[i].op \in {"share", "mark", "unshare"}
        BY <3>1 DEF OnNode
      <4>2. CASE s[i].op = "mark"
        BY <3>1, <3>2, <4>1, <4>2, NewMark
      <4>3. CASE s[i].op # "mark"
        BY <4>1, <4>3, NewQuiet DEF QuietOps
      <4> QED
        BY <4>1, <4>2, <4>3
    <3> QED
      BY <3>1, <3>3
  <2>2. CASE s = <<>>
    <3>1. \A i \in 1..Len(s) : FALSE
      BY <2>2
    <3>2. Balanced(s)
      BY <1>3, <3>1, PlainBalanced
    <3>3. Sheltered(s)
      BY <3>1 DEF Sheltered
    <3> QED
      BY <3>1, <3>2, <3>3
  <2>3. CASE s = <<F("arm", n)>>
    <3>1. /\ Len(s) = 1 /\ s[1].op = "arm" /\ s[1].node = n
      BY <2>3 DEF F
    <3>2. Balanced(s)
      BY <1>3, <3>1, PlainBalanced
    <3>3. Sheltered(s)
      BY <3>1 DEF Sheltered, Walking
    <3>4. NewFrame(a, s[1], 1)
      BY <1>2, <3>1 DEF NewFrame, PushOps, FreeOps, TimerOps
    <3>5. \A i \in 1..Len(s) : i = 1
      BY <3>1
    <3> QED
      BY <3>1, <3>2, <3>3, <3>4, <3>5
  <2> QED
    BY <1>3, <2>1, <2>2, <2>3
<1>6. \A i \in 1..Len(fs) : (i \in 1..Len(s) /\ fs[i] = s[i]) \/ (i = Len(s) + 1 /\ fs[i] = r)
  BY <1>3
<1>7. Balanced(fs) /\ Sheltered(fs)
  <2>1. ~Walking(r) /\ r.op \notin {"share", "unshare"}
    BY <1>4 DEF Walking
  <2> QED
    BY <1>3, <1>5, <2>1, BalancedBelow
<1> HIDE DEF fs
<1>8. \A i : NewFrame(a, r, i)
  BY <1>2, <1>4 DEF NewFrame, PushOps, FreeOps, TimerOps
<1>9. \A i \in 1..Len(fs) : NewFrame(a, fs[i], i) /\ fs[i].op # "fire"
  BY <1>4, <1>5, <1>6, <1>8
<1>10. Pushes(a, fs)
  BY <1>1, <1>2, <1>7, <1>9 DEF Pushes
<1> QED
  BY <1>3, <1>10

\* ensureTimer starts the timer task of the node being initialised.
ArmStarts(a) ==
    /\ Head1(a, {"arm"}) /\ Top(a).node \in Nodes /\ shares' = shares
    /\ code' = [code EXCEPT ![a] = Tail(code[a]), ![Top(a).node] = <<F("tTop", Top(a).node)>>]

\* Arming starts a task or pushes a cancellation.
LEMMA ArmPushes ==
    ASSUME Types, StacksFit, NEW a \in Actors, Arm(a)
    PROVE  ArmStarts(a) \/ \E fs \in Seq(Frame) : Pushes(a, fs)
<1>1. Head1(a, {"arm"}) /\ Top(a).node \in Nodes /\ shares' = shares /\ Top(a).op = "arm"
  BY WhatArm DEF Head1
<1>2. CASE Moves(a, <<>>)
  BY <1>1, <1>2, PopPushes, EmptyTyped
<1>3. CASE Expired(Top(a).node) /\ Moves(a, MarkCanceled(Top(a).node, DeadlineExceeded))
  <2>1. DeadlineExceeded \in Causes /\ CauseFrom(a, DeadlineExceeded)
    BY <1>1, <1>3 DEF Causes, CauseFrom
  <2> QED
    BY <1>1, <1>3, <2>1, CancelPushes
<1>4. CASE Moves(a, MarkCanceled(Top(a).node, SpawnError))
  <2>1. SpawnError \in Causes /\ CauseFrom(a, SpawnError)
    BY <1>1 DEF Causes, CauseFrom
  <2> QED
    BY <1>1, <1>4, <2>1, CancelPushes
<1> QED
  BY <1>1, <1>2, <1>3, <1>4, WhatArm DEF ArmStarts

\* A timer task sleeps on, or takes up a cancellation.
LEMMA TimerPushes ==
    ASSUME Types, StacksFit, NEW n \in Nodes, Timer(n)
    PROVE  (code' = code /\ shares' = shares) \/ \E fs \in Seq(Frame) : Pushes(n, fs)
<1>1. /\ n \in Actors /\ Head1(n, TimerOps) /\ Top(n).node = n /\ shares' = shares
      /\ \A op \in TimerOps : F(op, n) \in Frame
  BY WhatTimer
<1>2. Top(n).op \in TimerOps /\ Top(n).op \notin {"share", "unshare"}
  BY <1>1 DEF Head1, TimerOps
<1>3. CASE Moves(n, <<>>)
  BY <1>1, <1>2, <1>3, PopPushes, EmptyTyped
<1>4. ASSUME NEW op \in TimerOps, Moves(n, <<F(op, n)>>),
             op = "tCheck" => Top(n).op = "tEffective",
             op = "tExpire" => Top(n).op = "tCheck" /\ tlocal[n].at = {}
      PROVE  \E fs \in Seq(Frame) : Pushes(n, fs)
  <2> DEFINE f == F(op, n)
  <2>1. f \in Frame /\ f.op = op /\ f.node = n
    BY <1>1 DEF F
  <2>2. Moves(n, <<f>>)
    BY <1>4
  <2> HIDE DEF f
  <2>3. NewFrame(n, f, 1)
    BY <1>1, <1>2, <1>4, <2>1 DEF NewFrame, PushOps, FreeOps, TimerOps
  <2>4. f.op \notin {"share", "unshare"} /\ ~Walking(f)
    BY <2>1 DEF Walking, TimerOps
  <2> QED
    BY <1>1, <1>2, <2>1, <2>2, <2>3, <2>4, OnePushes
<1>5. CASE Top(n).op = "tExpire" /\ Moves(n, MarkCanceled(n, DeadlineExceeded))
  <2>1. DeadlineExceeded \in Causes /\ CauseFrom(n, DeadlineExceeded)
    BY <1>5 DEF Causes, CauseFrom
  <2> QED
    BY <1>1, <1>2, <1>5, <2>1, CancelPushes
<1>6. \/ code' = code \/ Moves(n, <<>>) \/ Moves(n, <<F("tTop", n)>>)
      \/ Moves(n, <<F("tEffective", n)>>)
      \/ (Top(n).op = "tEffective" /\ Moves(n, <<F("tCheck", n)>>))
      \/ Moves(n, <<F("tWait", n)>>)
      \/ (Top(n).op = "tCheck" /\ tlocal[n].at = {} /\ Moves(n, <<F("tExpire", n)>>))
      \/ (Top(n).op = "tExpire" /\ Moves(n, MarkCanceled(n, DeadlineExceeded)))
  BY WhatTimer
<1> QED
  BY <1>1, <1>3, <1>4, <1>5, <1>6 DEF TimerOps

\* taking and giving back the shared lock
Takes(a) == Head1(a, {"share"}) /\ Moves(a, <<>>) /\ shares' = [shares EXCEPT ![a] = @ + 1]
Gives(a) == Head1(a, {"unshare"}) /\ Moves(a, <<>>) /\ shares' = [shares EXCEPT ![a] = @ - 1]

\* Every step leaves the stacks alone, takes or gives back the lock, starts a
\* timer task or replaces the head of one stack.
LEMMA StepStack ==
    ASSUME Types, Lifecycle, StacksFit, NEW a \in Actors, Step(a)
    PROVE  \/ code' = code /\ shares' = shares
           \/ Takes(a) \/ Gives(a) \/ ArmStarts(a)
           \/ \E fs \in Seq(Frame) : Pushes(a, fs)
<1>1. ASSUME NEW ops, Head1(a, ops), Moves(a, <<>>), shares' = shares,
             ops \cap {"share", "unshare"} = {}
      PROVE  \E fs \in Seq(Frame) : Pushes(a, fs)
  <2>1. Top(a).op \notin {"share", "unshare"}
    BY <1>1 DEF Head1
  <2> QED
    BY <1>1, <2>1, PopPushes, EmptyTyped
<1>2. CASE Locking(a)
  BY <1>2, WhatLocking DEF Takes, Gives
<1>3. CASE Walk(a)
  <2>1. CASE Broadcast(a) \/ Stop(a)
    BY <1>1, <2>1, WhatPop
  <2> QED
    BY <1>3, <2>1, MarkPushes, FirePushes, KidPushes DEF Walk
<1>4. CASE Asks(a)
  BY <1>4, AsksPushes
<1>5. CASE Creating(a)
  <2>1. CASE Ready(a)
    BY <1>1, <2>1, WhatReady
  <2> QED
    BY <1>5, <2>1, AttachPushes, AdoptPushes, ArmPushes DEF Creating
<1>6. CASE Links(a)
  <2>1. CASE Free(a)
    BY <1>1, <2>1, WhatReady
  <2>2. CASE Bind(a) \/ Unbind(a)
    BY <1>1, <2>2, WhatBind
  <2>3. CASE Join(a)
    BY <1>1, <2>3, WhatPop
  <2>4. CASE Detach(a)
    <3> DEFINE f == F("free", Top(a).node)
    <3>1. /\ Head1(a, {"detach"}) /\ Moves(a, <<f>>) /\ f \in Frame /\ shares' = shares
          /\ Top(a).op = "detach"
      BY <2>4, WhatDetach DEF Head1
    <3>2. f.op = "free" /\ f.node = Top(a).node
      BY DEF F
    <3> HIDE DEF f
    <3>3. NewFrame(a, f, 1)
      BY <3>1, <3>2 DEF NewFrame, PushOps, FreeOps, TimerOps
    <3>4. ~Walking(f)
      BY <3>2 DEF Walking
    <3> QED
      BY <3>1, <3>2, <3>3, <3>4, OnePushes
  <2> QED
    BY <1>6, <2>1, <2>2, <2>3, <2>4 DEF Links
<1>7. CASE Wait(a)
  BY <1>1, <1>7, WhatWait
<1>8. CASE WaitTimeout(a)
  BY <1>1, <1>8, WhatPop
<1>9. CASE a \in Nodes /\ Timer(a)
  BY <1>9, TimerPushes
<1> QED
  BY <1>2, <1>3, <1>4, <1>5, <1>6, <1>7, <1>8, <1>9 DEF Step

-----------------------------------------------------------------------------
(***************************************************************************)
(* What a call starts with: a stack about one node n.                      *)
(***************************************************************************)
Makes(t, n, fs) ==
    /\ state[n] = "fresh" /\ state' = [state EXCEPT ![n] = "init"]
    /\ \E p \in Parents : /\ p \in Nodes => state[p] = "live"
                          /\ MayAsk(p) /\ fs = <<FA("attach", n, p)>>
                          /\ uses' = [uses EXCEPT ![t] = {n, p} \cap Nodes]
Borrows(t, n, fs) ==
    /\ state[n] = "live" /\ state' = state /\ uses' = [uses EXCEPT ![t] = {n}]
    /\ \A i \in 1..Len(fs) : fs[i].op \notin AskOps \cup LifeOps \cup {"return", "join"}
Queries(t, n, fs) ==
    /\ state[n] = "live" /\ state' = state /\ uses' = [uses EXCEPT ![t] = {n}]
    /\ MayAsk(n) /\ fs = <<F("err", n), F("return", n)>>
Destroys(t, n, fs) ==
    /\ state[n] = "live" /\ state' = [state EXCEPT ![n] = "closing"]
    /\ uses' = [uses EXCEPT ![t] = {n}]
    /\ \A u \in Threads : n \notin UsedBy(u)
    /\ MayDestroy(n)
    /\ LifeIn(fs) = {F("detach", n)}
    /\ \A i \in 1..Len(fs) : fs[i].op \notin AskOps \cup {"return"}
    /\ KindOf[n] = "deadline" => \E i \in 1..Len(fs) : fs[i].op = "join"

CallOps == {"attach", "stop", "share", "mark", "unshare", "err", "return", "wait", "waitT",
            "bind", "unbind", "join", "detach"}
Starts(t, n, fs) ==
    /\ code[t] = <<>> /\ code' = [code EXCEPT ![t] = fs] /\ fs # <<>>
    /\ StackFits(t, fs) /\ Balanced(fs) /\ Sheltered(fs)
    /\ OnNode(fs, n, CallOps)
    /\ \A i \in 1..Len(fs) : fs[i].op = "mark" => fs[i].arg \in UserCauses \cup {Canceled}
    /\ \/ Makes(t, n, fs) \/ Borrows(t, n, fs) \/ Queries(t, n, fs) \/ Destroys(t, n, fs)

\* Creating a node starts code at that node.
LEMMA NewStarts ==
    ASSUME Types, NEW t \in Threads, New(t)
    PROVE  \E n \in Nodes, fs \in Seq(Frame) : Starts(t, n, fs)
<1>1. PICK n \in Nodes, p \in {Root} \cup {m \in Nodes : state[m] = "live"} :
          /\ state[n] = "fresh" /\ MayAsk(p)
          /\ Begin(t, "new", {n, p} \cap Nodes, <<FA("attach", n, p)>>)
          /\ state' = [state EXCEPT ![n] = "init"]
  BY DEF New
<1> DEFINE f == FA("attach", n, p)
           fs == <<f>>
<1>2. p \in Parents /\ (p \in Nodes => state[p] = "live")
  BY ContextAssumption DEF Parents
<1>3. f \in Frame /\ f.op = "attach" /\ f.node = n
  BY <1>2 DEF FA, Frame
<1>4. Makes(t, n, fs)
  BY <1>1, <1>2 DEF Makes, Begin
<1>5. code[t] = <<>> /\ code' = [code EXCEPT ![t] = fs]
  BY <1>1 DEF Begin, Idle
<1> HIDE DEF f
<1>6. fs \in Seq(Frame) /\ Len(fs) = 1 /\ fs[1] = f /\ fs # <<>>
  BY <1>3
<1> HIDE DEF fs
<1>7. \A i \in 1..Len(fs) : fs[i] = f /\ i = 1
  BY <1>6
<1>8. StackFits(t, fs)
  BY <1>3, <1>6, <1>7 DEF StackFits, FrameFits, UserOps, TimerOps
<1>9. Balanced(fs)
  BY <1>3, <1>6, <1>7, PlainBalanced
<1>10. Sheltered(fs) /\ OnNode(fs, n, CallOps)
  BY <1>3, <1>7 DEF Sheltered, Walking, OnNode, CallOps
<1>11. \A i \in 1..Len(fs) : fs[i].op # "mark"
  BY <1>3, <1>7
<1>12. Starts(t, n, fs)
  BY <1>4, <1>5, <1>6, <1>8, <1>9, <1>10, <1>11 DEF Starts
<1> QED
  BY <1>6, <1>12

\* A query starts code at a node.
LEMMA QueryStarts ==
    ASSUME Types, NEW t \in Threads, Query(t)
    PROVE  \E n \in Nodes, fs \in Seq(Frame) : Starts(t, n, fs)
<1>1. PICK n \in Nodes :
          /\ state[n] = "live" /\ MayAsk(n) /\ UNCHANGED state
          /\ Begin(t, "err", {n}, <<F("err", n), F("return", n)>>)
  BY DEF Query
<1> DEFINE e == F("err", n)
           r == F("return", n)
           fs == <<e, r>>
<1>2. /\ e \in Frame /\ e.op = "err" /\ e.node = n
      /\ r \in Frame /\ r.op = "return" /\ r.node = n
  BY PlainFrame DEF F, Frame, PlainOps, FrameOps, ExclusiveOps, TimerOps, Parents
<1>3. Queries(t, n, fs)
  BY <1>1 DEF Queries, Begin
<1>4. code[t] = <<>> /\ code' = [code EXCEPT ![t] = fs]
  BY <1>1 DEF Begin, Idle
<1> HIDE DEF e, r
<1>5. Len(fs) = 2 /\ fs[1] = e /\ fs[2] = r /\ fs # <<>>
  OBVIOUS
<1>6. fs \in Seq(Frame)
  BY <1>2
<1> HIDE DEF fs
<1>7. \A i \in 1..Len(fs) : (i = 1 /\ fs[i] = e) \/ (i = 2 /\ fs[i] = r)
  BY <1>5
<1>8. StackFits(t, fs)
  BY <1>2, <1>5, <1>7 DEF StackFits, FrameFits, UserOps, TimerOps
<1>9. Balanced(fs)
  BY <1>2, <1>6, <1>7, PlainBalanced
<1>10. Sheltered(fs) /\ OnNode(fs, n, CallOps)
  BY <1>2, <1>7 DEF Sheltered, Walking, OnNode, CallOps
<1>11. \A i \in 1..Len(fs) : fs[i].op # "mark"
  BY <1>2, <1>7
<1>12. Starts(t, n, fs)
  BY <1>3, <1>4, <1>5, <1>8, <1>9, <1>10, <1>11 DEF Starts
<1> QED
  BY <1>6, <1>12

\* Waiting and binding start one frame at a node.
LEMMA OneStarts ==
    ASSUME Types, NEW t \in Threads, Await(t) \/ BindLink(t)
    PROVE  \E n \in Nodes, fs \in Seq(Frame) : Starts(t, n, fs)
<1>1. PICK n \in Nodes, op \in {"wait", "waitT", "bind", "unbind"} :
          /\ state[n] = "live" /\ UNCHANGED state
          /\ Begin(t, op, {n}, <<F(op, n)>>)
  BY DEF Await, BindLink
<1> DEFINE f == F(op, n)
           fs == <<f>>
<1>2. f \in Frame /\ f.op = op /\ f.node = n
  BY PlainFrame DEF F, PlainOps, FrameOps, ExclusiveOps, TimerOps
<1>3. /\ code[t] = <<>> /\ code' = [code EXCEPT ![t] = fs]
      /\ uses' = [uses EXCEPT ![t] = {n}]
  BY <1>1 DEF Begin, Idle
<1> HIDE DEF f
<1>4. fs \in Seq(Frame) /\ Len(fs) = 1 /\ fs[1] = f /\ fs # <<>>
  BY <1>2
<1> HIDE DEF fs
<1>5. \A i \in 1..Len(fs) : fs[i] = f /\ i = 1
  BY <1>4
<1>6. Borrows(t, n, fs)
  BY <1>1, <1>2, <1>3, <1>5 DEF Borrows, AskOps, LifeOps
<1>7. StackFits(t, fs)
  BY <1>2, <1>4, <1>5 DEF StackFits, FrameFits, UserOps, TimerOps
<1>8. Balanced(fs)
  BY <1>2, <1>4, <1>5, PlainBalanced
<1>9. Sheltered(fs) /\ OnNode(fs, n, CallOps)
  BY <1>2, <1>5 DEF Sheltered, Walking, OnNode, CallOps
<1>10. \A i \in 1..Len(fs) : fs[i].op # "mark"
  BY <1>2, <1>5
<1>11. Starts(t, n, fs)
  BY <1>3, <1>4, <1>6, <1>7, <1>8, <1>9, <1>10 DEF Starts
<1> QED
  BY <1>4, <1>11

\* A cancellation starts code at a node.
LEMMA CancelStarts ==
    ASSUME Types, NEW t \in Threads, Cancel(t)
    PROVE  \E n \in Nodes, fs \in Seq(Frame) : Starts(t, n, fs)
<1>1. PICK n \in Nodes, c \in UserCauses \cup {Canceled} :
          /\ state[n] = "live" /\ UNCHANGED state
          /\ Begin(t, "cancel", {n},
                   (IF KindOf[n] = "deadline" THEN <<F("stop", n)>> ELSE <<>>)
                       \o MarkCanceled(n, c))
  BY DEF Cancel
<1> DEFINE x == F("stop", n)
           y == MarkCanceled(n, c)
           fs == (IF KindOf[n] = "deadline" THEN <<x>> ELSE <<>>) \o y
<1>2. /\ Balanced(y) /\ Sheltered(y) /\ OnNode(y, n, {"share", "mark", "unshare"})
      /\ \A i \in 1..Len(y) : y[i].op = "mark" => y[i].arg = c
      /\ \E i \in 1..Len(y) : y[i].op = "mark"
      /\ y \in Seq(Frame)
  BY HeldBalanced, WalkFrames DEF Causes
<1>3. x \in Frame /\ x.op = "stop" /\ x.node = n
  BY PlainFrame DEF F, PlainOps, FrameOps, ExclusiveOps, TimerOps
<1>4. /\ code[t] = <<>> /\ code' = [code EXCEPT ![t] = fs]
      /\ uses' = [uses EXCEPT ![t] = {n}]
  BY <1>1 DEF Begin, Idle
<1> HIDE DEF x, y
<1>5. /\ Balanced(fs) /\ Sheltered(fs) /\ fs \in Seq(Frame)
      /\ \A i \in 1..Len(fs) : fs[i] = x \/ \E k \in 1..Len(y) : fs[i] = y[k]
      /\ Len(y) \in Nat \ {0} /\ Len(fs) >= Len(y)
  <2>1. Len(y) \in Nat \ {0}
    BY <1>2
  <2>2. CASE KindOf[n] = "deadline"
    <3> DEFINE z == <<x>> \o y
    <3>1. fs = z
      BY <2>2
    <3>2. /\ z \in Seq(Frame) /\ Len(z) = Len(y) + 1
          /\ \A i \in 1..Len(z) : (i = 1 /\ z[i] = x) \/ (i - 1 \in 1..Len(y) /\ z[i] = y[i - 1])
      BY <1>2, <1>3
    <3>3. Balanced(z) /\ Sheltered(z)
      <4>1. x.op \notin {"share", "unshare"} /\ ~Walking(x)
        BY <1>3 DEF Walking
      <4> QED
        BY <1>2, <1>3, <4>1, BalancedAbove
    <3> HIDE DEF z
    <3>4. \A i \in 1..Len(z) : z[i] = x \/ \E k \in 1..Len(y) : z[i] = y[k]
      BY <3>2
    <3>5. Len(z) >= Len(y)
      BY <2>1, <3>2
    <3> QED
      BY <2>1, <3>1, <3>2, <3>3, <3>4, <3>5
  <2>3. CASE KindOf[n] # "deadline"
    <3>1. fs = y
      BY <1>2, <2>3
    <3>2. \A i \in 1..Len(y) : \E k \in 1..Len(y) : y[i] = y[k]
      OBVIOUS
    <3>3. Len(y) >= Len(y)
      BY <2>1
    <3> HIDE DEF fs
    <3> QED
      BY <1>2, <2>1, <3>1, <3>2, <3>3
  <2> QED
    BY <2>2, <2>3
<1> HIDE DEF fs
<1>6. \A i \in 1..Len(fs) : /\ fs[i].node = n
                            /\ fs[i].op \in {"stop", "share", "mark", "unshare"}
                            /\ fs[i].op = "mark" => fs[i].arg = c
  BY <1>2, <1>3, <1>5 DEF OnNode
<1>7. OnNode(fs, n, CallOps) /\ fs # <<>>
  BY <1>5, <1>6 DEF OnNode, CallOps
<1>8. StackFits(t, fs)
  BY <1>6 DEF StackFits, FrameFits, UserOps, TimerOps
<1>9. Borrows(t, n, fs)
  BY <1>1, <1>4, <1>6 DEF Borrows, AskOps, LifeOps
<1>10. Starts(t, n, fs)
  BY <1>4, <1>5, <1>6, <1>7, <1>8, <1>9 DEF Starts
<1> QED
  BY <1>5, <1>10

\* A frame above a stack.
LEMMA FrameAbove ==
    ASSUME NEW x \in Frame, NEW z \in Seq(Frame)
    PROVE  /\ <<x>> \o z \in Seq(Frame) /\ Len(<<x>> \o z) = Len(z) + 1
           /\ (<<x>> \o z)[1] = x
           /\ \A i \in 1..Len(z) : (<<x>> \o z)[i + 1] = z[i]
<1> DEFINE y == <<x>>
<1>1. y \in Seq(Frame) /\ Len(y) = 1 /\ y[1] = x /\ Len(z) \in Nat
  OBVIOUS
<1> HIDE DEF y
<1>2. /\ y \o z \in Seq(Frame) /\ Len(y \o z) = 1 + Len(z)
      /\ \A i \in 1..1 + Len(z) : (y \o z)[i] = IF i <= 1 THEN y[i] ELSE z[i - 1]
  <2>1. /\ y \o z \in Seq(Frame) /\ Len(y \o z) = Len(y) + Len(z)
        /\ \A i \in 1..Len(y) + Len(z) :
               (y \o z)[i] = IF i <= Len(y) THEN y[i] ELSE z[i - Len(y)]
    <3>1. y \in Seq(Frame)
      BY <1>1
    <3> QED
      BY <3>1, ConcatProperties, Zenon
  <2>2. Len(y) = 1
    BY <1>1
  <2> QED
    BY <2>1, <2>2
<1>3. (y \o z)[1] = x
  BY <1>1, <1>2
<1>4. \A i \in 1..Len(z) : (y \o z)[i + 1] = z[i]
  <2> TAKE i \in 1..Len(z)
  <2>1. i + 1 \in 1..1 + Len(z) /\ ~(i + 1 <= 1) /\ (i + 1) - 1 = i
    BY <1>1
  <2> QED
    BY <1>2, <2>1
<1> QED
  BY <1>1, <1>2, <1>3, <1>4 DEF y

\* A deinit starts code at a node.
LEMMA DeinitStarts ==
    ASSUME Types, NEW t \in Threads, Deinit(t)
    PROVE  \E n \in Nodes, fs \in Seq(Frame) : Starts(t, n, fs)
<1> DEFINE timed(n) == IF KindOf[n] = "deadline" THEN <<F("stop", n), F("join", n)>> ELSE <<>>
<1>1. PICK n \in Nodes :
          /\ state[n] = "live" /\ MayDestroy(n) /\ \A u \in Threads : n \notin UsedBy(u)
          /\ Begin(t, "deinit", {n}, (<<F("unbind", n)>> \o timed(n)) \o <<F("detach", n)>>)
          /\ state' = [state EXCEPT ![n] = "closing"]
  BY DEF Deinit
<1> DEFINE u == F("unbind", n)
           s == F("stop", n)
           j == F("join", n)
           d == F("detach", n)
           q == <<u>> \o timed(n)
           fs == q \o <<d>>
<1>2. /\ u \in Frame /\ u.op = "unbind" /\ u.node = n
      /\ s \in Frame /\ s.op = "stop" /\ s.node = n
      /\ j \in Frame /\ j.op = "join" /\ j.node = n
      /\ d \in Frame /\ d.op = "detach" /\ d.node = n
  BY PlainFrame DEF F, PlainOps, FrameOps, ExclusiveOps, TimerOps
<1>3. /\ code[t] = <<>> /\ code' = [code EXCEPT ![t] = fs]
      /\ uses' = [uses EXCEPT ![t] = {n}]
  BY <1>1 DEF Begin, Idle
<1>4. /\ q \in Seq(Frame)
      /\ \A i \in 1..Len(q) : q[i] \in {u, s, j}
      /\ KindOf[n] = "deadline" => \E i \in 1..Len(q) : q[i] = j
  <2>1. CASE KindOf[n] = "deadline"
    <3> DEFINE z == <<s, j>>
    <3>1. z \in Seq(Frame) /\ Len(z) = 2 /\ z[1] = s /\ z[2] = j
      BY <1>2
    <3>2. q = <<u>> \o z
      BY <2>1
    <3> HIDE DEF z, u, s, j, q
    <3>4. q \in Seq(Frame) /\ Len(q) = 3 /\ q[1] = u /\ q[2] = s /\ q[3] = j
      <4>1. u \in Frame
        BY <1>2
      <4>2. /\ q \in Seq(Frame) /\ Len(q) = Len(z) + 1 /\ q[1] = u
            /\ \A i \in 1..Len(z) : q[i + 1] = z[i]
        BY <3>1, <3>2, <4>1, FrameAbove
      <4>3. 1 \in 1..Len(z) /\ 2 \in 1..Len(z) /\ 1 + 1 = 2 /\ 2 + 1 = 3
        BY <3>1
      <4> QED
        BY <3>1, <4>2, <4>3
    <3>5. \A i \in 1..3 : i = 1 \/ i = 2 \/ i = 3
      OBVIOUS
    <3>6. 3 \in 1..3
      OBVIOUS
    <3> QED
      BY <3>4, <3>5, <3>6
  <2>2. CASE KindOf[n] # "deadline"
    <3>1. q = <<u>> \o <<>>
      BY <2>2
    <3> HIDE DEF u, s, j, q
    <3>2. <<u>> \in Seq(Frame)
      BY <1>2
    <3>3. q = <<u>>
      BY <3>1, <3>2
    <3> QED
      BY <2>2, <3>2, <3>3
  <2> QED
    BY <2>1, <2>2
<1> HIDE DEF q
<1>5. /\ fs \in Seq(Frame) /\ fs # <<>> /\ Len(fs) = Len(q) + 1 /\ Len(q) \in Nat
      /\ \A i \in 1..Len(fs) : (i \in 1..Len(q) /\ fs[i] = q[i]) \/ (i = Len(fs) /\ fs[i] = d)
      /\ fs[Len(fs)] = d /\ \A i \in 1..Len(q) : fs[i] = q[i] /\ i \in 1..Len(fs)
  <2> HIDE DEF d
  <2>1. fs \in Seq(Frame) /\ Len(fs) = Len(q) + 1 /\ Len(q) \in Nat /\ fs # <<>>
    BY <1>2, <1>4
  <2>2. /\ \A i \in 1..Len(q) : fs[i] = q[i]
        /\ fs[Len(q) + 1] = d
    BY <1>2, <1>4
  <2> HIDE DEF fs
  <2> QED
    BY <2>1, <2>2
<1> HIDE DEF fs, u, s, j
<1>6. LifeIn(fs) = {d}
  BY <1>2, <1>5 DEF LifeIn, LifeOps
<1>7. \A i \in 1..Len(fs) : fs[i] \in {u, s, j, d}
  BY <1>4, <1>5
<1>8. \A i \in 1..Len(fs) : fs[i].node = n /\ fs[i].op \in {"unbind", "stop", "join", "detach"}
  BY <1>2, <1>7
<1>9. OnNode(fs, n, CallOps) /\ Sheltered(fs)
  BY <1>8 DEF OnNode, CallOps, Sheltered, Walking
<1>10. Balanced(fs)
  BY <1>5, <1>8, PlainBalanced
<1>11. StackFits(t, fs)
  BY <1>2, <1>6, <1>8 DEF StackFits, FrameFits, UserOps, TimerOps
<1>12. KindOf[n] = "deadline" => \E i \in 1..Len(fs) : fs[i].op = "join"
  BY <1>2, <1>4, <1>5
<1>13. Destroys(t, n, fs)
  BY <1>1, <1>3, <1>6, <1>8, <1>12 DEF Destroys, AskOps
<1>14. Starts(t, n, fs)
  BY <1>3, <1>5, <1>8, <1>9, <1>10, <1>11, <1>13 DEF Starts
<1> QED
  BY <1>5, <1>14

\* Every call starts code at a node and changes nothing else of the tree.
LEMMA CallStarts ==
    ASSUME Types, NEW t \in Threads, Call(t)
    PROVE  /\ t \in Actors
           /\ \E n \in Nodes, fs \in Seq(Frame) : Starts(t, n, fs)
           /\ UNCHANGED <<parent, children, cause, binding, fired, reg, shares, now, tlocal>>
<1>1. t \in Actors
  BY DEF Actors
<1>2. UNCHANGED <<parent, children, cause, binding, fired, reg, shares, now, tlocal>>
  BY DEF Call, New, Cancel, Query, Await, BindLink, Deinit, Begin, lockVars, timerVars
<1> QED
  BY <1>1, <1>2, NewStarts, QueryStarts, OneStarts, CancelStarts, DeinitStarts DEF Call

\* Every step keeps every stack fitting its actor.
LEMMA NextFits ==
    ASSUME Types, Lifecycle, StacksFit, [Next]_vars
    PROVE  StacksFit'
<1>1. CASE UNCHANGED code
  BY <1>1 DEF StacksFit, StackFits, FrameFits
<1>2. ASSUME NEW a \in Actors, Step(a) PROVE StacksFit'
  BY <1>2, StepFits
<1>3. ASSUME NEW t \in Threads, Call(t) PROVE StacksFit'
  <2>1. PICK n \in Nodes, fs \in Seq(Frame) : Starts(t, n, fs)
    BY <1>3, CallStarts
  <2>2. /\ t \in Actors /\ code'[t] = fs /\ \A b \in Actors : b # t => code'[b] = code[b]
    BY <2>1 DEF Starts, Types, Actors
  <2> QED
    BY <2>1, <2>2, FitOne DEF Starts
<1> QED
  BY <1>1, <1>2, <1>3 DEF Next, Tick, Resting, vars

\* No code fits every actor.
LEMMA InitFits == Init => StacksFit
<1> SUFFICES ASSUME Init, NEW a \in Actors PROVE StackFits(a, code[a])
  BY DEF StacksFit
<1>1. code[a] = <<>> \/ (a \in Nodes /\ code[a] = <<F("tTop", a)>>)
  BY DEF Init
<1>2. StackFits(a, <<>>)
  BY DEF StackFits
<1>3. a \in Nodes => StackFits(a, <<F("tTop", a)>>)
  BY DEF StackFits, FrameFits, F, UserOps, TimerOps
<1> QED
  BY <1>1, <1>2, <1>3

-----------------------------------------------------------------------------
(***************************************************************************)
(* Walks run under the shared lock, and the lock counts them.              *)
(***************************************************************************)
\* Where the frames of every stack are after one head has been replaced.
LEMMA MovedFrames ==
    ASSUME Types, NEW a \in Actors, NEW fs \in Seq(Frame), Moves(a, fs)
    PROVE  /\ Len(code[a]) \in Nat \ {0} /\ Len(fs) \in Nat
           /\ Len(code'[a]) = Len(fs) + Len(code[a]) - 1
           /\ \A i \in 1..Len(fs) : i \in 1..Len(code'[a]) /\ code'[a][i] = fs[i]
           /\ \A k \in 2..Len(code[a]) : /\ k - 1 + Len(fs) \in 1..Len(code'[a])
                                         /\ code'[a][k - 1 + Len(fs)] = code[a][k]
           /\ \A i \in 1..Len(code'[a]) :
                  \/ i \in 1..Len(fs) /\ code'[a][i] = fs[i]
                  \/ \E k \in 2..Len(code[a]) : /\ i = k - 1 + Len(fs)
                                                /\ code'[a][i] = code[a][k]
<1> DEFINE st == code[a]
           new == fs \o Tail(st)
<1>1. st \in Seq(Frame) /\ st # <<>> /\ code'[a] = new
  BY MovesWhat
<1> HIDE DEF st
<1>2. /\ Len(st) \in Nat \ {0} /\ Len(fs) \in Nat
      /\ Len(new) = Len(fs) + Len(st) - 1
      /\ \A i \in 1..Len(fs) : new[i] = fs[i]
      /\ \A k \in 2..Len(st) : new[k - 1 + Len(fs)] = st[k]
      /\ \A i \in Len(fs) + 1..Len(new) : /\ i - Len(fs) + 1 \in 2..Len(st)
                                          /\ new[i] = st[i - Len(fs) + 1]
  BY <1>1, Replaced
<1> HIDE DEF new
<1>3. \A i \in 1..Len(new) : \/ i \in 1..Len(fs) /\ new[i] = fs[i]
                             \/ \E k \in 2..Len(st) : i = k - 1 + Len(fs) /\ new[i] = st[k]
  <2> TAKE i \in 1..Len(new)
  <2>1. CASE i <= Len(fs)
    BY <1>2, <2>1
  <2>2. CASE i > Len(fs)
    <3> DEFINE k == i - Len(fs) + 1
    <3>1. k \in 2..Len(st) /\ new[i] = st[k] /\ i = k - 1 + Len(fs)
      BY <1>2, <2>2
    <3> QED
      BY <3>1
  <2> QED
    BY <1>2, <2>1, <2>2
<1>4. \A i \in 1..Len(fs) : i \in 1..Len(new)
  BY <1>2
<1>5. \A k \in 2..Len(st) : k - 1 + Len(fs) \in 1..Len(new)
  BY <1>2
<1>6. code[a] = st
  BY DEF st
<1> HIDE DEF st
<1> QED
  BY <1>1, <1>2, <1>3, <1>4, <1>5, <1>6

\* A walk that goes on keeps running under the lock.
LEMMA GuardedReplaced ==
    ASSUME NEW st \in Seq(Frame), st # <<>>, NEW fs \in Seq(Frame),
           Paired(st), Guarded(st), Balanced(fs), Head(st).op \notin {"share", "unshare"},
           Sheltered(fs) \/ Walking(Head(st))
    PROVE  Guarded(fs \o Tail(st))
<1> DEFINE new == fs \o Tail(st)
           d == Len(fs) - 1
<1>1. /\ Len(st) \in Nat \ {0} /\ Len(fs) \in Nat
      /\ Len(new) = Len(fs) + Len(st) - 1
      /\ \A i \in 1..Len(fs) : new[i] = fs[i]
      /\ \A k \in 2..Len(st) : new[k - 1 + Len(fs)] = st[k]
      /\ \A i \in Len(fs) + 1..Len(new) : /\ i - Len(fs) + 1 \in 2..Len(st)
                                          /\ new[i] = st[i - Len(fs) + 1]
      /\ Head(st) = st[1]
  BY Replaced
<1>2. /\ Paid(new) = {k + d : k \in Paid(st)}
      /\ \A k \in Paid(st) : k > 1
  BY PaidReplaced DEF Balanced
<1>3. \A k \in Paid(st) : k \in 1..Len(st) /\ k + d \in Paid(new)
  BY <1>2 DEF Paid
<1> SUFFICES ASSUME NEW i \in 1..Len(new), Walking(new[i])
             PROVE  Covered(new, i) \/ \E k \in 1..Len(new) : k + 1 = i /\ new[k].op = "share"
  BY DEF Guarded, new
<1> HIDE DEF new
<1>7. /\ Len(st) \in Nat \ {0} /\ Len(fs) \in Nat
      /\ Len(new) = Len(fs) + Len(st) - 1
  BY <1>1
<1>4. CASE i <= Len(fs) /\ Sheltered(fs)
  <2>1. i \in 1..Len(fs) /\ Walking(fs[i])
    BY <1>1, <1>4
  <2>2. PICK k \in 1..Len(fs) : k + 1 = i /\ fs[k].op = "share"
    BY <1>4, <2>1 DEF Sheltered
  <2>3. k \in 1..Len(new) /\ new[k].op = "share"
    BY <1>1, <2>2
  <2> QED
    BY <2>2, <2>3
<1>5. CASE i <= Len(fs) /\ Walking(st[1])
  <2>1. 1 \in 1..Len(st) /\ \A k \in 1..Len(st) : k + 1 # 1
    BY <1>1
  <2>2. PICK j \in Paid(st) : j > 1
    BY <1>5, <2>1 DEF Guarded, Covered
  <2>3. j + d \in Paid(new) /\ j + d > i
    BY <1>1, <1>3, <1>5, <2>2
  <2> QED
    BY <2>3 DEF Covered
<1>6. CASE i > Len(fs)
  <2> DEFINE m == i - Len(fs) + 1
  <2>1. m \in 2..Len(st) /\ new[i] = st[m] /\ i = m + d /\ m \in 1..Len(st)
    BY <1>1, <1>6
  <2> HIDE DEF m
  <2>2. CASE Covered(st, m)
    <3>1. PICK j \in Paid(st) : j > m
      BY <2>2 DEF Covered
    <3>2. j + d \in Paid(new) /\ j + d > i
      BY <1>1, <1>3, <2>1, <3>1
    <3> QED
      BY <3>2 DEF Covered
  <2>3. CASE \E k \in 1..Len(st) : k + 1 = m /\ st[k].op = "share"
    <3>1. PICK k \in 1..Len(st) : k + 1 = m /\ st[k].op = "share"
      BY <2>3
    <3>2. k # 1
      BY <1>1, <3>1
    <3>3. k \in 2..Len(st)
      BY <1>1, <3>2
    <3>4. new[k + d].op = "share" /\ k + d \in 1..Len(new) /\ (k + d) + 1 = i
      <4>1. new[k - 1 + Len(fs)].op = "share"
        BY <1>1, <3>1, <3>3
      <4>2. k - 1 + Len(fs) = k + d
        BY <1>7, <3>3
      <4>3. k + d \in 1..Len(new)
        BY <1>7, <3>3
      <4>4. (k + d) + 1 = i
        BY <1>7, <2>1, <3>1
      <4> QED
        BY <4>1, <4>2, <4>3, <4>4
    <3> QED
      BY <3>4
  <2> QED
    BY <2>1, <2>2, <2>3 DEF Guarded
<1> QED
  BY <1>1, <1>4, <1>5, <1>6

\* A step that takes the lock leaves the code behind it guarded.
LEMMA GuardedShare ==
    ASSUME NEW st \in Seq(Frame), st # <<>>, Paired(st), Guarded(st), Head(st).op = "share"
    PROVE  Guarded(Tail(st))
<1> DEFINE new == Tail(st)
<1>1. /\ Len(st) \in Nat \ {0} /\ Len(new) = Len(st) - 1
      /\ \A i \in 1..Len(new) : new[i] = st[i + 1] /\ i + 1 \in 1..Len(st)
  OBVIOUS
<1>2. Paid(new) = {k + -1 : k \in Paid(st) \cup {3}} /\ Paid(st) \subseteq 1..Len(st)
  BY PaidShare DEF Paid
<1>3. \A k \in Paid(st) \cup {3} : k \in Nat /\ k + -1 \in Paid(new)
  BY <1>1, <1>2
<1> HIDE DEF new
<1> SUFFICES ASSUME NEW i \in 1..Len(new), Walking(new[i])
             PROVE  Covered(new, i) \/ \E k \in 1..Len(new) : k + 1 = i /\ new[k].op = "share"
  BY DEF Guarded, new
<1>4. Covered(st, i + 1) \/ \E k \in 1..Len(st) : k + 1 = i + 1 /\ st[k].op = "share"
  BY <1>1 DEF Guarded
<1>5. CASE Covered(st, i + 1)
  <2>1. PICK j \in Paid(st) : j > i + 1
    BY <1>5 DEF Covered
  <2>2. j + -1 \in Paid(new) /\ j + -1 > i
    BY <1>3, <2>1
  <2> QED
    BY <2>2 DEF Covered
<1>6. CASE \E k \in 1..Len(st) : k + 1 = i + 1 /\ st[k].op = "share"
  <2>1. st[i].op = "share" /\ i \in 1..Len(st)
    BY <1>6
  <2>2. CASE i = 1
    <3>1. 3 + -1 \in Paid(new)
      BY <1>3
    <3>2. 3 + -1 > i
      BY <2>2
    <3> QED
      BY <3>1, <3>2 DEF Covered
  <2>3. CASE i # 1
    <3>1. i - 1 \in 1..Len(new) /\ (i - 1) + 1 = i
      BY <1>1, <2>3
    <3>2. new[i - 1].op = "share"
      BY <1>1, <2>1, <3>1
    <3> QED
      BY <3>1, <3>2
  <2> QED
    BY <2>2, <2>3
<1> QED
  BY <1>4, <1>5, <1>6

\* A step that gives the lock back leaves the code behind it guarded.
LEMMA GuardedUnshare ==
    ASSUME NEW st \in Seq(Frame), st # <<>>, Paired(st), Guarded(st), Head(st).op = "unshare"
    PROVE  Guarded(Tail(st))
<1> DEFINE new == Tail(st)
<1>1. /\ Len(st) \in Nat \ {0} /\ Len(new) = Len(st) - 1
      /\ \A i \in 1..Len(new) : new[i] = st[i + 1] /\ i + 1 \in 1..Len(st)
      /\ Head(st) = st[1]
  OBVIOUS
<1>2. Paid(new) = {k + -1 : k \in Paid(st) \ {1}} /\ Paid(st) \subseteq 1..Len(st)
  BY PaidUnshare DEF Paid
<1>3. \A k \in Paid(st) : k \in Nat /\ (k # 1 => k + -1 \in Paid(new))
  BY <1>1, <1>2
<1> HIDE DEF new
<1> SUFFICES ASSUME NEW i \in 1..Len(new), Walking(new[i])
             PROVE  Covered(new, i) \/ \E k \in 1..Len(new) : k + 1 = i /\ new[k].op = "share"
  BY DEF Guarded, new
<1>4. Covered(st, i + 1) \/ \E k \in 1..Len(st) : k + 1 = i + 1 /\ st[k].op = "share"
  BY <1>1 DEF Guarded
<1>5. CASE Covered(st, i + 1)
  <2>1. PICK j \in Paid(st) : j > i + 1
    BY <1>5 DEF Covered
  <2>2. j + -1 \in Paid(new) /\ j + -1 > i
    BY <1>3, <2>1
  <2> QED
    BY <2>2 DEF Covered
<1>6. CASE \E k \in 1..Len(st) : k + 1 = i + 1 /\ st[k].op = "share"
  <2>1. st[i].op = "share" /\ i \in 1..Len(st)
    BY <1>6
  <2>2. i # 1
    BY <1>1, <2>1
  <2>3. i - 1 \in 1..Len(new) /\ (i - 1) + 1 = i
    BY <1>1, <2>2
  <2>4. new[i - 1].op = "share"
    BY <1>1, <2>1, <2>3
  <2> QED
    BY <2>3, <2>4
<1> QED
  BY <1>4, <1>5, <1>6

\* One actor's stack and its holds of the lock change together.
LEMMA LocksOne ==
    ASSUME Types, LocksRight, NEW a \in Actors,
           \A b \in Actors : b # a => code'[b] = code[b] /\ shares'[b] = shares[b],
           Paired(code'[a]), Guarded(code'[a]), shares'[a] = Cardinality(Paid(code'[a]))
    PROVE  LocksRight'
<1> SUFFICES ASSUME NEW b \in Actors
             PROVE  /\ Paired(code'[b]) /\ Guarded(code'[b])
                    /\ shares'[b] = Cardinality(Paid(code'[b]))
  BY DEF LocksRight, Paired, Guarded, Paid, Covered, Walking
<1>1. CASE b = a
  BY <1>1
<1>2. CASE b # a
  BY <1>2 DEF LocksRight
<1> QED
  BY <1>1, <1>2

\* Pushed code keeps the locks right.
LEMMA PushLocks ==
    ASSUME Types, LocksRight, NEW a \in Actors, NEW fs \in Seq(Frame), Pushes(a, fs)
    PROVE  LocksRight'
<1> DEFINE st == code[a]
<1>1. /\ st \in Seq(Frame) /\ st # <<>> /\ code'[a] = fs \o Tail(st)
      /\ \A b \in Actors : b # a => code'[b] = code[b]
      /\ Top(a) = Head(st)
  BY MovesWhat DEF Pushes
<1>2. /\ shares' = shares /\ Head(st).op \notin {"share", "unshare"}
      /\ Paired(fs) /\ Paid(fs) = {} /\ (Sheltered(fs) \/ Walking(Head(st)))
  BY <1>1 DEF Pushes, Balanced
<1>3. Paired(st) /\ Guarded(st) /\ shares[a] = Cardinality(Paid(st))
  BY DEF LocksRight
<1> HIDE DEF st
<1>4. Paired(fs \o Tail(st)) /\ Paid(fs \o Tail(st)) = {k + (Len(fs) - 1) : k \in Paid(st)}
  BY <1>1, <1>2, <1>3, PaidReplaced
<1>5. Guarded(fs \o Tail(st))
  BY <1>1, <1>2, <1>3, GuardedReplaced DEF Balanced
<1>6. Cardinality({k + (Len(fs) - 1) : k \in Paid(st)}) = Cardinality(Paid(st))
  <2>1. Len(st) \in Nat /\ Len(fs) - 1 \in Int /\ Paid(st) \in SUBSET (1..Len(st))
    BY <1>1 DEF Paid
  <2> QED
    BY <2>1, ShiftedCount
<1>7. shares'[a] = Cardinality(Paid(code'[a]))
  BY <1>1, <1>2, <1>3, <1>4, <1>6
<1> QED
  BY <1>1, <1>2, <1>4, <1>5, <1>7, LocksOne

\* Taking and giving the lock keeps the locks right.
LEMMA TakeLocks ==
    ASSUME Types, LocksRight, NEW a \in Actors, Takes(a) \/ Gives(a)
    PROVE  LocksRight'
<1> DEFINE st == code[a]
<1>1. /\ st \in Seq(Frame) /\ st # <<>> /\ code'[a] = <<>> \o Tail(st)
      /\ \A b \in Actors : b # a => code'[b] = code[b]
      /\ Top(a) = Head(st)
  <2>1. Moves(a, <<>>)
    BY DEF Takes, Gives
  <2> QED
    BY <2>1, EmptyTyped, MovesWhat
<1>2. code'[a] = Tail(st)
  BY <1>1
<1>3. Paired(st) /\ Guarded(st) /\ shares[a] = Cardinality(Paid(st)) /\ shares[a] \in Int
  BY DEF LocksRight, Types
<1>4. \A b \in Actors : b # a => shares'[b] = shares[b]
  BY DEF Takes, Gives, Types
<1> HIDE DEF st
<1>5. Len(st) \in Nat /\ Paid(st) \in SUBSET (1..Len(st))
  BY <1>1 DEF Paid
<1>6. IsFiniteSet(Paid(st)) /\ Cardinality(Paid(st)) \in Nat
  <2>1. IsFiniteSet(1..Len(st))
    BY <1>5, FS_Interval
  <2>2. IsFiniteSet(Paid(st))
    BY <1>5, <2>1, FS_Subset
  <2> QED
    BY <2>2, FS_CardinalityType
<1>7. CASE Takes(a)
  <2>1. Head(st).op = "share" /\ shares'[a] = shares[a] + 1
    BY <1>1, <1>7 DEF Takes, Head1, Types
  <2>2. /\ Paired(Tail(st)) /\ Paid(Tail(st)) = {k + -1 : k \in Paid(st) \cup {3}}
        /\ 3 \notin Paid(st) /\ 3 <= Len(st)
    BY <1>1, <1>3, <2>1, PaidShare
  <2>3. Cardinality(Paid(st) \cup {3}) = Cardinality(Paid(st)) + 1
    BY <1>6, <2>2, FS_AddElement
  <2>4. Cardinality({k + -1 : k \in Paid(st) \cup {3}}) = Cardinality(Paid(st) \cup {3})
    <3>1. Paid(st) \cup {3} \in SUBSET (1..Len(st)) /\ -1 \in Int
      BY <1>5, <2>2
    <3> QED
      BY <1>5, <3>1, ShiftedCount
  <2>5. shares'[a] = Cardinality(Paid(code'[a]))
    BY <1>2, <1>3, <2>1, <2>2, <2>3, <2>4
  <2>6. Guarded(Tail(st))
    BY <1>1, <1>3, <2>1, GuardedShare
  <2> QED
    BY <1>1, <1>2, <1>4, <2>2, <2>5, <2>6, LocksOne
<1>8. CASE Gives(a)
  <2>1. Head(st).op = "unshare" /\ shares'[a] = shares[a] - 1
    BY <1>1, <1>8 DEF Gives, Head1, Types
  <2>2. /\ Paired(Tail(st)) /\ Paid(Tail(st)) = {k + -1 : k \in Paid(st) \ {1}}
        /\ 1 \in Paid(st)
    BY <1>1, <1>3, <2>1, PaidUnshare
  <2>3. Cardinality(Paid(st) \ {1}) = Cardinality(Paid(st)) - 1
    BY <1>6, <2>2, FS_RemoveElement
  <2>4. Cardinality({k + -1 : k \in Paid(st) \ {1}}) = Cardinality(Paid(st) \ {1})
    <3>1. Paid(st) \ {1} \in SUBSET (1..Len(st)) /\ -1 \in Int
      BY <1>5
    <3> QED
      BY <1>5, <3>1, ShiftedCount
  <2>5. shares'[a] = Cardinality(Paid(code'[a]))
    BY <1>2, <1>3, <2>1, <2>2, <2>3, <2>4
  <2>6. Guarded(Tail(st))
    BY <1>1, <1>3, <2>1, GuardedUnshare
  <2> QED
    BY <1>1, <1>2, <1>4, <2>2, <2>5, <2>6, LocksOne
<1> QED
  BY <1>7, <1>8

\* A call starts with no hold and a stack that takes its own.
LEMMA StartLocks ==
    ASSUME Types, LocksRight, NEW t \in Actors, NEW n \in Nodes, NEW fs \in Seq(Frame),
           Starts(t, n, fs), shares' = shares
    PROVE  LocksRight'
<1>1. /\ code[t] = <<>> /\ code'[t] = fs /\ \A b \in Actors : b # t => code'[b] = code[b]
  BY DEF Starts, Types
<1>2. Paired(fs) /\ Paid(fs) = {} /\ Guarded(fs)
  BY DEF Starts, Balanced, Sheltered, Guarded
<1>3. Paid(code[t]) = {}
  BY <1>1 DEF Paid
<1>4. shares[t] = Cardinality(Paid(code[t]))
  BY DEF LocksRight
<1>5. shares'[t] = Cardinality(Paid(code'[t]))
  BY <1>1, <1>2, <1>3, <1>4
<1> QED
  BY <1>1, <1>2, <1>5, LocksOne

-----------------------------------------------------------------------------
(***************************************************************************)
(* Where the frames of the next state come from.                           *)
(***************************************************************************)
OldFrame(b, f) == \E k \in 1..Len(code[b]) : code[b][k] = f
\* the timer task that ensureTimer starts
TaskFrame(a, b, f) == ArmStarts(a) /\ b = Top(a).node /\ f = F("tTop", b)

\* After a frame has ended, the frames are those that were below it.
LEMMA PopFrames ==
    ASSUME Types, NEW a \in Actors, code[a] # <<>>, code'[a] = Tail(code[a]),
           NEW i \in 1..Len(code'[a])
    PROVE  i + 1 \in 2..Len(code[a]) /\ code'[a][i] = code[a][i + 1]
<1> DEFINE st == code[a]
<1>1. st \in Seq(Frame) /\ st # <<>>
  BY DEF Types
<1>2. i \in 1..Len(Tail(st))
  OBVIOUS
<1> HIDE DEF st
<1>3. i + 1 \in 2..Len(st) /\ Tail(st)[i] = st[i + 1]
  BY <1>1, <1>2
<1> QED
  BY <1>3 DEF st

\* What a step that only ends its frame does to the stacks.
LEMMA PopWhat ==
    ASSUME Types, NEW a \in Actors, Moves(a, <<>>)
    PROVE  /\ code[a] # <<>> /\ code'[a] = Tail(code[a])
           /\ \A c \in Actors : c # a => code'[c] = code[c]
<1>1. code[a] \in Seq(Frame) /\ code[a] # <<>> /\ code \in [Actors -> Seq(Frame)]
  BY DEF Types, Moves
<1>2. code' = [code EXCEPT ![a] = <<>> \o Tail(code[a])]
  BY DEF Moves
<1>3. Tail(code[a]) \in Seq(Frame)
  BY <1>1
<1>4. <<>> \o Tail(code[a]) = Tail(code[a])
  BY <1>3
<1> QED
  BY <1>1, <1>2, <1>4

\* The stacks of a step that starts a timer task.
LEMMA ArmStacks ==
    ASSUME Types, StacksFit, NEW a \in Actors, ArmStarts(a)
    PROVE  /\ a \in Threads /\ Top(a).node \in Nodes /\ Top(a).node # a
           /\ Top(a).node \in Actors
           /\ code'[a] = Tail(code[a])
           /\ code'[Top(a).node] = <<F("tTop", Top(a).node)>>
           /\ \A b \in Actors : b # a /\ b # Top(a).node => code'[b] = code[b]
           /\ Top(a).op = "arm" /\ KindOf[Top(a).node] = "deadline"
           /\ Len(code[a]) = 2 /\ code[a][2] = F("ready", Top(a).node)
           /\ LifeIn(code[a]) = {F("ready", Top(a).node)}
<1>1. /\ Head1(a, {"arm"}) /\ Top(a).node \in Nodes /\ Top(a).op = "arm"
      /\ code' = [code EXCEPT ![a] = Tail(code[a]), ![Top(a).node] = <<F("tTop", Top(a).node)>>]
  BY DEF ArmStarts, Head1
<1>2. a \in Threads /\ a \notin Nodes
  BY <1>1, UserHead DEF UserOps
<1>3. FrameFits(a, code[a], 1) /\ Top(a) = code[a][1]
  BY <1>1, HeadFits
<1>4. /\ KindOf[Top(a).node] = "deadline"
      /\ Len(code[a]) = 2 /\ code[a][2] = F("ready", Top(a).node)
  BY <1>1, <1>3 DEF FrameFits
<1>5. LifeIn(code[a]) = {F("ready", Top(a).node)}
  BY <1>4 DEF LifeIn, LifeOps, F
<1> DEFINE n == Top(a).node
<1>6. n # a /\ n \in Actors
  BY <1>1, <1>2 DEF Actors
<1> HIDE DEF n
<1>7. /\ code'[a] = Tail(code[a]) /\ code'[n] = <<F("tTop", n)>>
      /\ \A b \in Actors : b # a /\ b # n => code'[b] = code[b]
  <2>1. code' = [code EXCEPT ![a] = Tail(code[a]), ![n] = <<F("tTop", n)>>]
    BY <1>1 DEF n
  <2>2. code \in [Actors -> Seq(Frame)]
    BY DEF Types
  <2> QED
    BY <1>6, <2>1, <2>2
<1> QED
  BY <1>1, <1>2, <1>4, <1>5, <1>6, <1>7 DEF n

\* Every frame after a step was there, was pushed by it, or starts a task.
LEMMA FrameFrom ==
    ASSUME Types, Lifecycle, StacksFit, NEW a \in Actors, Step(a),
           NEW b \in Actors, NEW i \in 1..Len(code'[b])
    PROVE  \/ OldFrame(b, code'[b][i])
           \/ b = a /\ NewFrame(a, code'[b][i], i)
           \/ TaskFrame(a, b, code'[b][i])
<1>1. CASE code'[b] = code[b]
  BY <1>1 DEF OldFrame
<1>2. CASE Takes(a) \/ Gives(a)
  <2>1. Moves(a, <<>>)
    BY <1>2 DEF Takes, Gives
  <2>2. /\ code[a] # <<>> /\ code'[a] = Tail(code[a])
        /\ \A c \in Actors : c # a => code'[c] = code[c]
    BY <2>1, PopWhat
  <2>4. CASE b = a
    <3>1. i + 1 \in 2..Len(code[a]) /\ code'[a][i] = code[a][i + 1]
      BY <2>2, <2>4, PopFrames
    <3>2. i + 1 \in 1..Len(code[a])
      BY <3>1
    <3> QED
      BY <2>4, <3>1, <3>2 DEF OldFrame
  <2> QED
    BY <1>1, <2>2, <2>4
<1>3. CASE ArmStarts(a)
  <2>1. CASE b = a
    <3>0. code'[a] = Tail(code[a]) /\ code[a] # <<>>
      BY <1>3, ArmStacks DEF ArmStarts, Head1
    <3>1. i + 1 \in 2..Len(code[a]) /\ code'[a][i] = code[a][i + 1]
      BY <3>0, <2>1, PopFrames
    <3>2. i + 1 \in 1..Len(code[a])
      BY <3>1
    <3> QED
      BY <2>1, <3>1, <3>2 DEF OldFrame
  <2>2. CASE b = Top(a).node
    <3>1. code'[b] = <<F("tTop", b)>>
      BY <1>3, <2>2, ArmStacks
    <3>2. i = 1
      BY <3>1
    <3> QED
      BY <1>3, <2>2, <3>1, <3>2 DEF TaskFrame
  <2> QED
    BY <1>1, <1>3, <2>1, <2>2, ArmStacks
<1>4. ASSUME NEW fs \in Seq(Frame), Pushes(a, fs)
      PROVE  \/ OldFrame(b, code'[b][i])
             \/ b = a /\ NewFrame(a, code'[b][i], i)
  <2>1. Moves(a, fs) /\ \A k \in 1..Len(fs) : NewFrame(a, fs[k], k)
    BY <1>4 DEF Pushes
  <2>2. \A c \in Actors : c # a => code'[c] = code[c]
    BY <2>1, MovesWhat
  <2>3. CASE b = a
    <3>1. CASE i \in 1..Len(fs) /\ code'[a][i] = fs[i]
      BY <2>1, <2>3, <3>1
    <3>2. CASE \E k \in 2..Len(code[a]) : i = k - 1 + Len(fs) /\ code'[a][i] = code[a][k]
      <4>1. PICK k \in 2..Len(code[a]) : code'[a][i] = code[a][k]
        BY <3>2
      <4>2. k \in 1..Len(code[a])
        BY <4>1
      <4> QED
        BY <2>3, <4>1, <4>2 DEF OldFrame
    <3>3. \/ i \in 1..Len(fs) /\ code'[a][i] = fs[i]
          \/ \E k \in 2..Len(code[a]) : i = k - 1 + Len(fs) /\ code'[a][i] = code[a][k]
      <4>1. i \in 1..Len(code'[a])
        BY <2>3
      <4> QED
        BY <2>1, <4>1, MovedFrames
    <3> QED
      BY <3>1, <3>2, <3>3
  <2>4. CASE b # a
    BY <2>2, <2>4 DEF OldFrame
  <2> QED
    BY <2>3, <2>4
<1> QED
  BY <1>1, <1>2, <1>3, <1>4, StepStack

\* Frames that are not the head stay where they are for.
LEMMA FrameStays ==
    ASSUME Types, Lifecycle, StacksFit, NEW a \in Actors, Step(a),
           NEW b \in Actors, NEW k \in 1..Len(code[b]), b # a \/ k # 1,
           b # Top(a).node \/ ~ArmStarts(a)
    PROVE  \E i \in 1..Len(code'[b]) : code'[b][i] = code[b][k] /\ (b # a => i = k)
<1>1. CASE code'[b] = code[b]
  BY <1>1
<1>2. ASSUME b = a, code[a] # <<>>, code'[a] = Tail(code[a])
      PROVE  \E i \in 1..Len(code'[b]) : code'[b][i] = code[b][k]
  <2>1. k - 1 \in 1..Len(code'[a])
    <3> DEFINE st == code[a]
    <3>1. st \in Seq(Frame) /\ st # <<>>
      BY <1>2 DEF Types
    <3>2. k \in 1..Len(st) /\ k # 1 /\ code'[a] = Tail(st)
      BY <1>2
    <3> HIDE DEF st
    <3>3. Len(Tail(st)) = Len(st) - 1 /\ Len(st) \in Nat
      BY <3>1
    <3> QED
      BY <3>2, <3>3
  <2>2. code'[a][k - 1] = code[a][(k - 1) + 1] /\ (k - 1) + 1 = k
    BY <1>2, <2>1, PopFrames
  <2> QED
    BY <1>2, <2>1, <2>2
<1>3. CASE Takes(a) \/ Gives(a)
  <2>1. Moves(a, <<>>)
    BY <1>3 DEF Takes, Gives
  <2>2. /\ code[a] # <<>> /\ code'[a] = Tail(code[a])
        /\ \A c \in Actors : c # a => code'[c] = code[c]
    BY <2>1, PopWhat
  <2> QED
    BY <1>1, <1>2, <2>2
<1>4. CASE ArmStarts(a)
  <2>1. /\ code'[a] = Tail(code[a])
        /\ \A c \in Actors : c # a /\ c # Top(a).node => code'[c] = code[c]
    BY <1>4, ArmStacks
  <2>2. code[a] # <<>> /\ b # Top(a).node
    BY <1>4 DEF ArmStarts, Head1
  <2>3. CASE b = a
    BY <1>2, <2>1, <2>2, <2>3
  <2>4. CASE b # a
    BY <1>1, <2>1, <2>2, <2>4
  <2> QED
    BY <2>3, <2>4
<1>5. ASSUME NEW fs \in Seq(Frame), Pushes(a, fs)
      PROVE  \E i \in 1..Len(code'[b]) : code'[b][i] = code[b][k] /\ (b # a => i = k)
  <2>1. Moves(a, fs)
    BY <1>5 DEF Pushes
  <2>2. \A c \in Actors : c # a => code'[c] = code[c]
    BY <2>1, MovesWhat
  <2>3. CASE b = a
    <3>1. k \in 2..Len(code[a])
      BY <2>3
    <3>2. k - 1 + Len(fs) \in 1..Len(code'[a]) /\ code'[a][k - 1 + Len(fs)] = code[a][k]
      BY <2>1, <3>1, MovedFrames
    <3> QED
      BY <2>3, <3>2
  <2> QED
    BY <2>2, <2>3
<1> QED
  BY <1>1, <1>3, <1>4, <1>5, StepStack

-----------------------------------------------------------------------------
(***************************************************************************)
(* Timers are where the tree is.                                           *)
(***************************************************************************)
LEMMA StepTree ==
    ASSUME Types, StacksFit, NEW a \in Actors, Step(a)
    PROVE  \/ UNCHANGED <<state, parent, children, uses>>
           \/ Attach(a) \/ Detach(a) \/ Ready(a) \/ Free(a)
<1>1. CASE Locking(a)
  BY <1>1 DEF Locking, RequestExclusive, Share, Unshare, nodeVars, clientVars
<1>2. CASE Walk(a)
  BY <1>2 DEF Walk, Mark, Broadcast, Fire, NextKid, Stop, nodeVars, clientVars
<1>3. CASE Asks(a)
  BY <1>3 DEF Asks, Err, Inherit, Return, nodeVars, clientVars
<1>4. CASE Creating(a)
  BY <1>4 DEF Creating, Adopt, Arm, nodeVars, clientVars
<1>5. CASE Links(a)
  BY <1>5 DEF Links, Bind, Unbind, Join, nodeVars, clientVars
<1>6. CASE Wait(a) \/ WaitTimeout(a)
  BY <1>6 DEF Wait, WaitTimeout, nodeVars, clientVars
<1>7. CASE a \in Nodes /\ Timer(a)
  BY <1>7, WhatTimer
<1> QED
  BY <1>1, <1>2, <1>3, <1>4, <1>5, <1>6, <1>7 DEF Step

\* The head frame decides which step an actor can take.
LEMMA HeadOf ==
    ASSUME NEW a
    PROVE  /\ \A op : At(a, op) \/ Sleeping(a, op) => Top(a).op = op
           /\ RequestExclusive(a) => Top(a).op \in ExclusiveOps
           /\ Share(a) => Top(a).op = "share"
           /\ Unshare(a) => Top(a).op = "unshare"
           /\ Mark(a) => Top(a).op = "mark"
           /\ Broadcast(a) => Top(a).op = "broadcast"
           /\ Fire(a) => Top(a).op = "fire"
           /\ NextKid(a) => Top(a).op = "kids"
           /\ Stop(a) => Top(a).op = "stop"
           /\ Err(a) => Top(a).op = "err"
           /\ Inherit(a) => Top(a).op = "inherit"
           /\ Return(a) => Top(a).op = "return"
           /\ Attach(a) => Top(a).op = "attach"
           /\ Adopt(a) => Top(a).op = "adopt"
           /\ Arm(a) => Top(a).op = "arm"
           /\ Ready(a) => Top(a).op = "ready"
           /\ Bind(a) => Top(a).op = "bind"
           /\ Unbind(a) => Top(a).op = "unbind"
           /\ Join(a) => Top(a).op = "join"
           /\ Detach(a) => Top(a).op = "detach"
           /\ Free(a) => Top(a).op = "free"
           /\ Wait(a) \/ WaitTimeout(a) => Top(a).op \in {"wait", "waitT"}
           /\ Timer(a) => Top(a).op \in TimerOps
<1>1. \A op : At(a, op) \/ Sleeping(a, op) => Top(a).op = op
  BY DEF At, Sleeping, Top
<1>2. RequestExclusive(a) => Top(a).op \in ExclusiveOps
  BY <1>1 DEF RequestExclusive
<1>3. /\ Share(a) => Top(a).op = "share"
      /\ Unshare(a) => Top(a).op = "unshare"
      /\ Mark(a) => Top(a).op = "mark"
      /\ Broadcast(a) => Top(a).op = "broadcast"
      /\ Fire(a) => Top(a).op = "fire"
      /\ NextKid(a) => Top(a).op = "kids"
      /\ Stop(a) => Top(a).op = "stop"
      /\ Err(a) => Top(a).op = "err"
      /\ Inherit(a) => Top(a).op = "inherit"
      /\ Return(a) => Top(a).op = "return"
  BY <1>1 DEF Share, Unshare, Mark, Broadcast, Fire, NextKid, Stop, Err, Inherit, Return
<1>4. /\ Attach(a) => Top(a).op = "attach"
      /\ Bind(a) => Top(a).op = "bind"
      /\ Unbind(a) => Top(a).op = "unbind"
      /\ Detach(a) => Top(a).op = "detach"
  BY <1>1 DEF Attach, Bind, Unbind, Detach, Exclusive
<1>5. /\ Adopt(a) => Top(a).op = "adopt"
      /\ Arm(a) => Top(a).op = "arm"
      /\ Ready(a) => Top(a).op = "ready"
      /\ Join(a) => Top(a).op = "join"
      /\ Free(a) => Top(a).op = "free"
  BY <1>1 DEF Adopt, Arm, Ready, Join, Free
<1>6. Wait(a) \/ WaitTimeout(a) => Top(a).op \in {"wait", "waitT"}
  BY <1>1 DEF Wait, WaitTimeout
<1>7. Timer(a) => Top(a).op \in TimerOps
  BY <1>1 DEF Timer, TimerTop, TimerEffective, TimerCheck, TimerTimeout, TimerWake,
              TimerExpire, TimerOps
<1> QED
  BY <1>1, <1>2, <1>3, <1>4, <1>5, <1>6, <1>7

\* The frame on top decides which step an actor takes.
LEMMA HeadOnly ==
    ASSUME NEW a \in Actors, Step(a)
    PROVE  /\ Top(a).op = "mark" => Mark(a)
           /\ Top(a).op = "fire" => Fire(a)
           /\ Top(a).op = "kids" => NextKid(a)
           /\ Top(a).op = "err" => Err(a)
           /\ Top(a).op = "inherit" => Inherit(a)
           /\ Top(a).op = "return" => Return(a)
           /\ Top(a).op = "attach" => RequestExclusive(a) \/ Attach(a)
           /\ Top(a).op = "adopt" => Adopt(a)
           /\ Top(a).op = "arm" => Arm(a)
           /\ Top(a).op = "ready" => Ready(a)
           /\ Top(a).op = "join" => Join(a)
           /\ Top(a).op = "detach" => RequestExclusive(a) \/ Detach(a)
           /\ Top(a).op = "free" => Free(a)
           /\ Top(a).op \in TimerOps => a \in Nodes /\ Timer(a)
           /\ Top(a).op = "share" => Share(a)
           /\ Top(a).op = "unshare" => Unshare(a)
  BY HeadOf DEF Step, Locking, Walk, Asks, Creating, Links, ExclusiveOps, TimerOps

\* Only joinTimer ends a join frame, once the timer task is over.
LEMMA JoinOnly ==
    ASSUME NEW a \in Actors, Step(a), Top(a).op = "join"
    PROVE  code[Top(a).node] = <<>>
  BY HeadOnly DEF Join

\* A frame of a life's ends was there, or was pushed by a step of its own.
LEMMA LifeFrom ==
    ASSUME Types, Lifecycle, StacksFit, NEW a \in Actors, Step(a),
           NEW b \in Actors, NEW f \in LifeIn(code'[b]), code'[b] \in Seq(Frame)
    PROVE  \/ f \in LifeIn(code[b])
           \/ b = a /\ f.op \in LifeOps /\ \E i \in 1..Len(code'[b]) : NewFrame(a, f, i)
<1> DEFINE l == Len(code'[b])
<1>1. f.op \in LifeOps /\ f = code'[b][l] /\ code'[b] # <<>>
  BY DEF LifeIn
<1>2. l \in 1..Len(code'[b])
  BY <1>1
<1>3. CASE OldFrame(b, f)
  <2>1. PICK k \in 1..Len(code[b]) : code[b][k] = f
    BY <1>3 DEF OldFrame
  <2>2. OnlyBottom(code[b]) /\ code[b] \in Seq(Frame) /\ Len(code[b]) \in Nat
    BY DEF Lifecycle, Types
  <2>3. k = Len(code[b])
    BY <1>1, <2>1, <2>2 DEF OnlyBottom
  <2>4. code[b] # <<>>
    BY <2>1
  <2> QED
    BY <1>1, <2>1, <2>3, <2>4 DEF LifeIn
<1>4. CASE TaskFrame(a, b, f)
  BY <1>1, <1>4 DEF TaskFrame, F, LifeOps
<1>5. f = code'[b][l]
  BY <1>1
<1>6. \/ OldFrame(b, f) \/ (b = a /\ NewFrame(a, f, l)) \/ TaskFrame(a, b, f)
  BY <1>2, <1>5, FrameFrom
<1> HIDE DEF l
<1> QED
  BY <1>1, <1>2, <1>3, <1>4, <1>6

\* The head of a stack is a life frame only when it is the whole stack.
LEMMA LifeAlone ==
    ASSUME Types, Lifecycle, NEW a \in Actors, code[a] # <<>>, Top(a).op \in LifeOps
    PROVE  /\ Len(code[a]) = 1 /\ code[a][1] = Top(a) /\ LifeIn(code[a]) = {Top(a)}
           /\ LifeFrameOK(a, Top(a))
<1> DEFINE st == code[a]
<1>1. st \in Seq(Frame) /\ st # <<>> /\ OnlyBottom(st) /\ Head(st).op \in LifeOps /\ Top(a) = Head(st)
  BY DEF Types, Lifecycle, Top
<1>2. LifeFrameOK(a, Top(a))
  BY HeadLife
<1> HIDE DEF st
<1>3. Len(st) = 1 /\ LifeIn(st) = {Head(st)} /\ Head(st) = st[1]
  BY <1>1, LifeHead
<1> QED
  BY <1>1, <1>2, <1>3 DEF st

(***************************************************************************)
(* A live node is in the tree.                                             *)
(***************************************************************************)
Rooted ==
    /\ \A n \in Nodes : state[n] \in {"live", "closing"} => parent[n] # None
    /\ \A b \in Actors : \A f \in LifeIn(code[b]) :
           f.op \in {"adopt", "ready"} => parent[f.node] # None

\* Nobody is not a parent, and threads, nodes and the root differ.
LEMMA NoneIsNoParent == None \notin Parents /\ Threads \cap Nodes = {} /\ Root \notin Nodes
  BY ContextAssumption

\* What detachAndReparentChildren does to the parents.
LEMMA DetachParents ==
    ASSUME Types, Lifecycle, Rooted, NEW a \in Actors, Detach(a)
    PROVE  LET n == Top(a).node IN
           /\ n \in Nodes /\ state[n] = "closing" /\ parent[n] # None
           /\ \A m \in Nodes : parent'[m] = IF m \in children[n] THEN parent[n]
                                            ELSE IF m = n THEN None ELSE parent[m]
           /\ \A m \in Nodes : m # n /\ parent[m] # None => parent'[m] # None
           /\ \A m \in Nodes : m # n => state'[m] = state[m]
<1> DEFINE n == Top(a).node
<1>1. Head1(a, {"detach"}) /\ n \in Nodes /\ state' = [state EXCEPT ![n] = "detached"]
  BY WhatDetach
<1>2. LifeFrameOK(a, Top(a)) /\ Top(a).op = "detach"
  BY <1>1, LifeAlone DEF Head1, LifeOps
<1>3. state[n] = "closing" /\ parent[n] # None
  BY <1>1, <1>2 DEF LifeFrameOK, Rooted
<1>4. \A m \in Nodes : parent'[m] = IF m \in children[n] THEN parent[n]
                                    ELSE IF m = n THEN None ELSE parent[m]
  BY DEF Detach
<1>5. \A m \in Nodes : m # n => state'[m] = state[m]
  BY <1>1 DEF Types
<1> QED
  BY <1>1, <1>3, <1>4, <1>5

\* A node handed out, or on its way out, hangs in the tree after a step.
LEMMA RootedNode ==
    ASSUME Types, Lifecycle, StacksFit, Rooted, [Next]_vars,
           NEW n \in Nodes, state'[n] \in {"live", "closing"}
    PROVE  parent'[n] # None
<1>1. CASE state' = state /\ parent' = parent
  BY <1>1 DEF Rooted
<1>2. ASSUME NEW a \in Actors, Attach(a) PROVE parent'[n] # None
  <2>1. /\ parent' = [parent EXCEPT ![Top(a).node] = Top(a).arg] /\ state' = state
        /\ Top(a).arg \in Parents
    BY <1>2, WhatAttach
  <2> QED
    BY <2>1, NoneIsNoParent DEF Rooted, Types
<1>3. ASSUME NEW a \in Actors, Detach(a) PROVE parent'[n] # None
  <2>1. state'[Top(a).node] = "detached"
    BY <1>3, WhatDetach DEF Types
  <2> QED
    BY <1>3, <2>1, DetachParents DEF Rooted
<1>4. ASSUME NEW a \in Actors, Ready(a) \/ Free(a) PROVE parent'[n] # None
  <2>1. /\ Head1(a, {"ready", "free"}) /\ Top(a).node \in Nodes /\ parent' = parent
        /\ state' = [state EXCEPT ![Top(a).node] = IF Top(a).op = "ready" THEN "live" ELSE "freed"]
    BY <1>4, WhatReady
  <2>2. LifeIn(code[a]) = {Top(a)}
    BY <2>1, LifeAlone DEF Head1, LifeOps
  <2>3. Top(a).op = "ready" => parent[Top(a).node] # None
    BY <2>2 DEF Rooted
  <2> QED
    BY <2>1, <2>3 DEF Rooted, Types
<1>5. ASSUME NEW t \in Threads, Call(t) PROVE parent'[n] # None
  <2>1. PICK m \in Nodes, fs \in Seq(Frame) : Starts(t, m, fs)
    BY <1>5, CallStarts
  <2>2. parent' = parent
    BY <1>5, CallStarts
  <2>3. \/ state' = state
        \/ state[m] = "live" /\ state' = [state EXCEPT ![m] = "closing"]
        \/ state' = [state EXCEPT ![m] = "init"]
    BY <2>1 DEF Starts, Makes, Borrows, Queries, Destroys
  <2> QED
    BY <2>2, <2>3 DEF Rooted, Types
<1>6. ASSUME NEW a \in Actors, Step(a) PROVE parent'[n] # None
  BY <1>1, <1>2, <1>3, <1>4, <1>6, StepTree
<1>7. Tick \/ Resting \/ UNCHANGED vars => state' = state /\ parent' = parent
  BY DEF Tick, Resting, vars, nodeVars
<1> QED
  BY <1>1, <1>5, <1>6, <1>7 DEF Next

\* Only these steps change a stack.
LEMMA NextCases ==
    ASSUME [Next]_vars
    PROVE  \/ \E a \in Actors : Step(a)
           \/ \E t \in Threads : Call(t)
           \/ /\ UNCHANGED <<state, parent, children, cause, binding, fired, code, reg, uses,
                             shares, tlocal>>
              /\ now' = now \/ now' = now + 1
<1>1. Tick => /\ UNCHANGED <<state, parent, children, cause, binding, fired, code, reg, uses,
                             shares, tlocal>>
              /\ now' = now \/ now' = now + 1
  BY DEF Tick, nodeVars, lockVars, timerVars
<1>2. UNCHANGED vars => /\ UNCHANGED <<state, parent, children, cause, binding, fired, code, reg,
                                       uses, shares, tlocal>>
                        /\ now' = now \/ now' = now + 1
  BY DEF vars, nodeVars, lockVars, timerVars, clientVars
<1> QED
  BY <1>1, <1>2 DEF Next, Resting

\* The frames a call starts with, by kind of call.
LEMMA StartLife ==
    ASSUME Types, NEW t \in Threads, NEW n \in Nodes, NEW fs \in Seq(Frame), Starts(t, n, fs)
    PROVE  /\ t \in Actors /\ code'[t] = fs /\ code[t] = <<>>
           /\ \A b \in Actors : b # t => code'[b] = code[b]
           /\ \A i \in 1..Len(fs) : fs[i].op \notin {"adopt", "ready", "arm", "free"}
           /\ \A i \in 1..Len(fs) : fs[i].op = "attach" => Makes(t, n, fs)
           /\ \A i \in 1..Len(fs) : fs[i].node = n
<1>1. /\ code[t] = <<>> /\ code' = [code EXCEPT ![t] = fs]
      /\ OnNode(fs, n, CallOps)
      /\ Makes(t, n, fs) \/ Borrows(t, n, fs) \/ Queries(t, n, fs) \/ Destroys(t, n, fs)
  BY DEF Starts
<1>2. t \in Actors
  BY DEF Actors
<1>3. code'[t] = fs /\ \A b \in Actors : b # t => code'[b] = code[b]
  BY <1>1, <1>2 DEF Types
<1>4. \A i \in 1..Len(fs) : fs[i].op \in CallOps /\ fs[i].node = n
  BY <1>1 DEF OnNode
<1>5. \A i \in 1..Len(fs) : fs[i].op \notin {"adopt", "ready", "arm", "free"}
  BY <1>4 DEF CallOps
<1>6. Borrows(t, n, fs) \/ Destroys(t, n, fs) => \A i \in 1..Len(fs) : fs[i].op # "attach"
  BY DEF Borrows, Destroys, LifeOps, AskOps
<1>7. Queries(t, n, fs) => \A i \in 1..Len(fs) : fs[i].op # "attach"
  <2> SUFFICES ASSUME Queries(t, n, fs), NEW i \in 1..Len(fs) PROVE fs[i].op # "attach"
    OBVIOUS
  <2>1. fs = <<F("err", n), F("return", n)>>
    BY DEF Queries
  <2>2. i = 1 \/ i = 2
    BY <2>1
  <2> QED
    BY <2>1, <2>2 DEF F
<1> QED
  BY <1>1, <1>2, <1>3, <1>4, <1>5, <1>6, <1>7

\* Every step keeps such nodes in the tree.
LEMMA RootedStep ==
    ASSUME Types, Lifecycle, StacksFit, Rooted, [Next]_vars, Types'
    PROVE  Rooted'
<1>1. \A n \in Nodes : state'[n] \in {"live", "closing"} => parent'[n] # None
  BY RootedNode
<1> SUFFICES ASSUME NEW b \in Actors, NEW f \in LifeIn(code'[b]), f.op \in {"adopt", "ready"}
             PROVE  parent'[f.node] # None
  BY <1>1 DEF Rooted, LifeIn
<1>2. code'[b] \in Seq(Frame) /\ code[b] \in Seq(Frame)
  BY DEF Types
<1>3. ASSUME NEW a \in Actors, Step(a), f \in LifeIn(code[b]) PROVE parent'[f.node] # None
  <2>1. /\ f.node \in Nodes /\ state[f.node] = "init" /\ parent[f.node] # None
    BY <1>3, LifeNode DEF LifeFrameOK, Rooted
  <2>2. CASE Attach(a)
    <3>1. /\ parent' = [parent EXCEPT ![Top(a).node] = Top(a).arg]
          /\ Top(a).arg \in Parents
      BY <2>2, WhatAttach
    <3> QED
      BY <2>1, <3>1, NoneIsNoParent DEF Types
  <2>3. CASE Detach(a)
    BY <2>1, <2>3, DetachParents
  <2>4. CASE Ready(a) \/ Free(a)
    BY <2>1, <2>4, WhatReady
  <2> QED
    BY <1>3, <2>1, <2>2, <2>3, <2>4, StepTree
<1>4. ASSUME NEW a \in Actors, Step(a), NEW i \in 1..Len(code'[b]), NewFrame(a, f, i), b = a
      PROVE  parent'[f.node] # None
  <2>1. /\ f.node = Top(a).node
        /\ \/ f.op = "adopt" /\ Top(a).op = "attach"
           \/ f.op = "ready" /\ Top(a).op = "adopt"
    BY <1>4 DEF NewFrame, FreeOps
  <2>2. CASE RequestExclusive(a)
    <3>1. code' = code
      BY <2>2 DEF RequestExclusive
    <3> QED
      BY <1>3, <1>4, <3>1
  <2>3. CASE f.op = "adopt" /\ Attach(a)
    <3>1. /\ parent' = [parent EXCEPT ![Top(a).node] = Top(a).arg]
          /\ Top(a).arg \in Parents /\ Top(a).node \in Nodes
      BY <2>3, WhatAttach
    <3> QED
      BY <2>1, <3>1, NoneIsNoParent DEF Types
  <2>4. CASE f.op = "ready" /\ Adopt(a)
    <3>1. Head1(a, {"adopt"}) /\ parent' = parent
      BY <2>4, WhatAdopt
    <3>2. LifeIn(code[a]) = {Top(a)} /\ Top(a).op = "adopt"
      BY <3>1, LifeAlone DEF Head1, LifeOps
    <3> QED
      BY <2>1, <3>1, <3>2 DEF Rooted
  <2> QED
    BY <1>4, <2>1, <2>2, <2>3, <2>4, HeadOnly
<1>5. ASSUME NEW a \in Actors, Step(a) PROVE parent'[f.node] # None
  BY <1>2, <1>3, <1>4, <1>5, LifeFrom
<1>6. ASSUME NEW t \in Threads, Call(t) PROVE parent'[f.node] # None
  <2>1. PICK n \in Nodes, fs \in Seq(Frame) : Starts(t, n, fs)
    BY <1>6, CallStarts
  <2>2. parent' = parent
    BY <1>6, CallStarts
  <2>3. CASE b = t
    <3>1. code'[b] = fs /\ Len(code'[b]) \in 1..Len(code'[b]) /\ f = code'[b][Len(code'[b])]
      BY <2>1, <2>3, StartLife DEF LifeIn
    <3> QED
      BY <2>1, <3>1, StartLife
  <2>4. CASE b # t
    BY <2>1, <2>2, <2>4, StartLife DEF Rooted
  <2> QED
    BY <2>3, <2>4
<1>7. CASE UNCHANGED <<parent, code>>
  BY <1>7 DEF Rooted
<1> QED
  BY <1>5, <1>6, <1>7, NextCases

-----------------------------------------------------------------------------
(***************************************************************************)
(* The timer task of a node runs from ensureTimer to joinTimer.            *)
(***************************************************************************)
NotArmed ==
    \A b \in Actors : \A i \in 1..Len(code[b]) :
        code[b][i].op \in {"attach", "adopt", "arm"} => code[code[b][i].node] = <<>>
Joining(n) == \E t \in Threads : \E i \in 1..Len(code[t]) :
                  code[t][i].op = "join" /\ code[t][i].node = n
TimerHome ==
    \A n \in Nodes : code[n] # <<>> =>
        /\ KindOf[n] = "deadline" /\ parent[n] # None
        /\ state[n] \in {"init", "live", "closing"}
        /\ state[n] = "closing" => Joining(n)

\* A frame of a life's ends is at the bottom and the only one of its stack.
LEMMA LastLife ==
    ASSUME NEW st \in Seq(Frame), OnlyBottom(st), NEW i \in 1..Len(st), st[i].op \in LifeOps
    PROVE  i = Len(st) /\ LifeIn(st) = {st[i]}
<1>1. Len(st) \in Nat /\ st # <<>>
  OBVIOUS
<1>2. i = Len(st)
  BY <1>1 DEF OnlyBottom
<1> QED
  BY <1>1, <1>2 DEF LifeIn

\* The node of a frame that creates is the node of the stack's life frame.
LEMMA CreatingLife ==
    ASSUME Types, Lifecycle, StacksFit, NEW b \in Actors, NEW i \in 1..Len(code[b]),
           code[b][i].op \in {"attach", "adopt", "arm"}
    PROVE  \E g \in LifeIn(code[b]) : g.node = code[b][i].node /\ state[g.node] = "init"
<1> DEFINE st == code[b]
           f == st[i]
<1>1. st \in Seq(Frame) /\ OnlyBottom(st) /\ FrameFits(b, st, i) /\ st # <<>>
  BY DEF Types, Lifecycle, StacksFit, StackFits
<1>2. CASE f.op \in {"attach", "adopt"}
  <2>1. LifeIn(st) = {f}
    BY <1>1, <1>2, LastLife DEF LifeOps
  <2>2. LifeFrameOK(b, f)
    BY <2>1 DEF Lifecycle
  <2> QED
    BY <1>2, <2>1, <2>2 DEF LifeFrameOK
<1>3. CASE f.op = "arm"
  <2> DEFINE g == F("ready", f.node)
  <2>1. Len(st) = 2 /\ st[2] = g
    BY <1>1, <1>3 DEF FrameFits
  <2>2. g \in LifeIn(st) /\ g.node = f.node /\ g.op = "ready"
    BY <1>1, <2>1 DEF LifeIn, LifeOps, F
  <2>3. LifeFrameOK(b, g)
    BY <2>2 DEF Lifecycle
  <2> QED
    BY <2>2, <2>3 DEF LifeFrameOK
<1> QED
  BY <1>2, <1>3

\* Every frame but err() is at a node.
LEMMA FramesNode ==
    ASSUME Types, NEW b \in Actors, NEW i \in 1..Len(code[b])
    PROVE  /\ code[b][i] \in Frame
           /\ code[b][i].op # "err" => code[b][i].node \in Nodes
<1>1. code[b][i] \in Frame
  BY DEF Types
<1> QED
  BY <1>1, FrameFields

\* A stack that is empty is filled by a call or by ensureTimer only.
LEMMA EmptyFilled ==
    ASSUME Types, Lifecycle, StacksFit, NEW a \in Actors, Step(a),
           NEW n \in Actors, code[n] = <<>>, code'[n] # <<>>
    PROVE  ArmStarts(a) /\ n = Top(a).node
<1>1. ASSUME NEW fs \in Seq(Frame), Moves(a, fs) PROVE FALSE
  <2>1. code[a] # <<>> /\ \A b \in Actors : b # a => code'[b] = code[b]
    BY <1>1, MovesWhat DEF Moves
  <2> QED
    BY <2>1
<1>2. ~Takes(a) /\ ~Gives(a)
  <2>1. <<>> \in Seq(Frame)
    OBVIOUS
  <2> QED
    BY <1>1, <2>1 DEF Takes, Gives
<1>3. \A fs \in Seq(Frame) : ~Pushes(a, fs)
  BY <1>1 DEF Pushes
<1>4. ArmStarts(a)
  BY <1>2, <1>3, StepStack
<1>5. code[a] # <<>>
  BY <1>4 DEF ArmStarts, Head1
<1> QED
  BY <1>4, <1>5, ArmStacks

\* A step keeps the task of a node that is not yet armed idle.
LEMMA NotArmedStep ==
    ASSUME Types, Lifecycle, StacksFit, NotArmed, NEW a \in Actors, Step(a)
    PROVE  NotArmed'
<1> SUFFICES ASSUME NEW b \in Actors, NEW i \in 1..Len(code'[b]),
                    code'[b][i].op \in {"attach", "adopt", "arm"}
             PROVE  code'[code'[b][i].node] = <<>>
  BY DEF NotArmed
<1> DEFINE f == code'[b][i]
           m == f.node
<1>1. CASE \E k \in 1..Len(code[b]) : code[b][k] = f
  <2>1. PICK k \in 1..Len(code[b]) : code[b][k] = f
    BY <1>1
  <2>2. code[m] = <<>> /\ m \in Nodes /\ m \in Actors
    BY <2>1, FramesNode DEF NotArmed, Actors
  <2> SUFFICES ASSUME code'[m] # <<>> PROVE FALSE
    OBVIOUS
  <2>3. ArmStarts(a) /\ m = Top(a).node
    BY <2>2, EmptyFilled
  <2>4. PICK g \in LifeIn(code[b]) : g.node = m
    BY <2>1, CreatingLife
  <2>5. /\ F("ready", m) \in LifeIn(code[a]) /\ F("ready", m).node = m
        /\ code[a] # <<>> /\ code'[a] = Tail(code[a]) /\ Len(code[a]) = 2
        /\ code[a][2] = F("ready", m)
    <3>1. /\ LifeIn(code[a]) = {F("ready", Top(a).node)} /\ code'[a] = Tail(code[a]) /\ Len(code[a]) = 2
          /\ code[a][2] = F("ready", Top(a).node)
      BY <2>3, ArmStacks
    <3>2. code[a] # <<>>
      BY <2>3 DEF ArmStarts, Head1
    <3>3. F("ready", m).node = m
      BY DEF F
    <3> HIDE DEF m
    <3> QED
      BY <2>3, <3>1, <3>2, <3>3
  <2>6. b = a
    BY <2>4, <2>5 DEF Lifecycle
  <2>7. i + 1 \in 2..Len(code[a]) /\ f = code[a][i + 1]
    BY <2>5, <2>6, PopFrames
  <2>8. i + 1 = 2
    BY <2>5, <2>7
  <2> QED
    BY <2>5, <2>7, <2>8 DEF F
<1>2. CASE b = a /\ NewFrame(a, f, i)
  <2>1. /\ f.node = Top(a).node
        /\ \/ f.op = "adopt" /\ Top(a).op = "attach"
           \/ f.op = "arm" /\ Top(a).op = "adopt"
    BY <1>2 DEF NewFrame, FreeOps, PushOps, TimerOps
  <2>2. CASE RequestExclusive(a)
    BY <1>1, <1>2, <2>2 DEF RequestExclusive
  <2>3. CASE Attach(a) \/ Adopt(a)
    <3>1. Head1(a, {"attach", "adopt"}) /\ m \in Nodes
      BY <2>1, <2>3, WhatAttach, WhatAdopt DEF Head1
    <3>2. code[m] = <<>> /\ code[a] # <<>> /\ m \in Actors
      BY <2>1, <3>1 DEF NotArmed, Head1, Actors
    <3>3. ~ArmStarts(a)
      BY <2>1, <3>1 DEF ArmStarts, Head1
    <3> QED
      BY <3>2, <3>3, EmptyFilled
  <2> QED
    BY <2>1, <2>2, <2>3, HeadOnly
<1>3. ~TaskFrame(a, b, f)
  BY DEF TaskFrame, F
<1> QED
  BY <1>1, <1>2, <1>3, FrameFrom DEF OldFrame

\* So does a call.
LEMMA NotArmedCall ==
    ASSUME Types, NotArmed, TimerHome, NEW t \in Threads, Call(t)
    PROVE  NotArmed'
<1>1. PICK n \in Nodes, fs \in Seq(Frame) : Starts(t, n, fs)
  BY CallStarts
<1>2. /\ code'[t] = fs /\ \A b \in Actors : b # t => code'[b] = code[b]
      /\ \A i \in 1..Len(fs) : fs[i].op \notin {"adopt", "ready", "arm", "free"}
      /\ \A i \in 1..Len(fs) : fs[i].op = "attach" => Makes(t, n, fs)
      /\ \A i \in 1..Len(fs) : fs[i].node = n
  BY <1>1, StartLife
<1>3. \A m \in Nodes : code'[m] = code[m]
  BY <1>2, NoneIsNoParent DEF Actors
<1> SUFFICES ASSUME NEW b \in Actors, NEW i \in 1..Len(code'[b]),
                    code'[b][i].op \in {"attach", "adopt", "arm"}
             PROVE  code'[code'[b][i].node] = <<>>
  BY DEF NotArmed
<1>4. CASE b = t
  <2>1. code'[b][i].op = "attach" /\ code'[b][i].node = n /\ Makes(t, n, fs)
    BY <1>2, <1>4
  <2>2. state[n] = "fresh"
    BY <2>1 DEF Makes
  <2> QED
    BY <1>3, <2>1, <2>2 DEF TimerHome
<1>5. CASE b # t
  <2>1. code'[b] = code[b]
    BY <1>2, <1>5
  <2>2. code[b][i].node \in Nodes /\ code[code[b][i].node] = <<>>
    BY <2>1, FramesNode DEF NotArmed
  <2> QED
    BY <1>3, <2>1, <2>2
<1> QED
  BY <1>4, <1>5

-----------------------------------------------------------------------------
\* A join frame stays until the timer task is over.
LEMMA JoiningKept ==
    ASSUME Types, Lifecycle, StacksFit, NEW a \in Actors, Step(a), NEW n \in Nodes,
           Joining(n), code[n] # <<>>
    PROVE  Joining(n)'
<1>1. PICK t \in Threads : \E i \in 1..Len(code[t]) :
                 code[t][i].op = "join" /\ code[t][i].node = n
  BY DEF Joining
<1>2. PICK i \in 1..Len(code[t]) : code[t][i].op = "join" /\ code[t][i].node = n
  BY <1>1
<1>3. t \in Actors /\ t \notin Nodes
  BY NoneIsNoParent DEF Actors
<1>4. t # a \/ i # 1
  <2> SUFFICES ASSUME t = a, i = 1 PROVE FALSE
    OBVIOUS
  <2>1. code[a] \in Seq(Frame) /\ code[a] # <<>>
    BY <1>2, <1>3 DEF Types
  <2>2. Top(a) = code[a][1]
    BY <2>1 DEF Top
  <2> QED
    BY <1>2, <2>2, JoinOnly
<1>5. t # Top(a).node \/ ~ArmStarts(a)
  BY <1>3 DEF ArmStarts
<1>6. \E k \in 1..Len(code'[t]) : code'[t][k] = code[t][i] /\ (t # a => k = i)
  BY <1>3, <1>4, <1>5, FrameStays
<1> QED
  BY <1>2, <1>6 DEF Joining

\* A node leaves the tree with its timer task gone and no other call on it.
LEMMA DetachTimer ==
    ASSUME Types, Lifecycle, StacksFit, Rooted, TimerHome, NEW a \in Actors, Detach(a)
    PROVE  code[Top(a).node] = <<>>
<1> DEFINE n == Top(a).node
<1>1. n \in Nodes /\ state[n] = "closing" /\ Head1(a, {"detach"})
  BY DetachParents, WhatDetach
<1>2. Top(a).op = "detach" /\ code[a] # <<>>
  BY <1>1 DEF Head1
<1>3. Len(code[a]) = 1 /\ code[a][1] = Top(a) /\ Top(a) \in LifeIn(code[a])
  BY <1>2, LifeAlone DEF LifeOps
<1> SUFFICES ASSUME code[n] # <<>> PROVE FALSE
  OBVIOUS
<1>4. PICK t \in Threads : \E i \in 1..Len(code[t]) :
                 code[t][i].op = "join" /\ code[t][i].node = n
  BY <1>1 DEF TimerHome, Joining
<1>5. PICK i \in 1..Len(code[t]) : code[t][i].op = "join" /\ code[t][i].node = n
  BY <1>4
<1>6. t \in Actors
  BY DEF Actors
<1>7. FrameFits(t, code[t], i)
  BY <1>6 DEF StacksFit, StackFits
<1>8. \E g \in LifeIn(code[t]) : g.node = n
  BY <1>5, <1>7 DEF FrameFits
<1>9. t = a
  BY <1>3, <1>6, <1>8 DEF Lifecycle
<1> QED
  BY <1>2, <1>3, <1>5, <1>9

\* A step keeps every timer task at its own node.
LEMMA TimerHomeStep ==
    ASSUME Types, Lifecycle, StacksFit, Rooted, TimerHome, NEW a \in Actors, Step(a)
    PROVE  TimerHome'
<1> SUFFICES ASSUME NEW n \in Nodes, code'[n] # <<>>
             PROVE  /\ KindOf[n] = "deadline" /\ parent'[n] # None
                    /\ state'[n] \in {"init", "live", "closing"}
                    /\ state'[n] = "closing" => Joining(n)'
  BY DEF TimerHome
<1>1. n \in Actors
  BY DEF Actors
<1>2. CASE code[n] = <<>>
  <2>1. ArmStarts(a) /\ n = Top(a).node
    BY <1>1, <1>2, EmptyFilled
  <2>2. /\ KindOf[n] = "deadline" /\ LifeIn(code[a]) = {F("ready", n)} /\ Top(a).op = "arm"
    BY <2>1, ArmStacks
  <2>3. LifeFrameOK(a, F("ready", n)) /\ F("ready", n).op = "ready" /\ F("ready", n).node = n
    BY <2>2 DEF Lifecycle, F
  <2>4. state[n] = "init" /\ parent[n] # None
    BY <2>2, <2>3 DEF LifeFrameOK, Rooted
  <2>5. Arm(a)
    BY <2>2, HeadOnly
  <2>6. state' = state /\ parent' = parent
    BY <2>5, WhatArm
  <2> QED
    BY <2>2, <2>4, <2>6
<1>3. CASE code[n] # <<>>
  <2>1. /\ KindOf[n] = "deadline" /\ parent[n] # None
        /\ state[n] \in {"init", "live", "closing"}
        /\ state[n] = "closing" => Joining(n)'
    BY <1>3, JoiningKept DEF TimerHome
  <2>2. CASE UNCHANGED <<state, parent, children, uses>>
    BY <2>1, <2>2
  <2>3. CASE Attach(a)
    <3>1. /\ parent' = [parent EXCEPT ![Top(a).node] = Top(a).arg] /\ state' = state
          /\ Top(a).arg \in Parents
      BY <2>3, WhatAttach
    <3>2. parent'[n] # None
      BY <2>1, <3>1, NoneIsNoParent DEF Types
    <3> QED
      BY <2>1, <3>1, <3>2
  <2>4. CASE Detach(a)
    <3>1. n # Top(a).node
      BY <1>3, <2>4, DetachTimer
    <3> QED
      BY <2>1, <2>4, <3>1, DetachParents
  <2>5. CASE Ready(a) \/ Free(a)
    <3>1. /\ Head1(a, {"ready", "free"}) /\ Top(a).node \in Nodes /\ parent' = parent
          /\ state' = [state EXCEPT ![Top(a).node] = IF Top(a).op = "ready" THEN "live" ELSE "freed"]
      BY <2>5, WhatReady
    <3>2. Top(a).op = "free" => state[Top(a).node] = "detached"
      BY <3>1, LifeAlone DEF Head1, LifeOps, LifeFrameOK
    <3>3. Top(a).op \in {"ready", "free"}
      BY <3>1 DEF Head1
    <3>4. CASE n = Top(a).node
      <4>1. Top(a).op = "ready"
        BY <2>1, <3>2, <3>3, <3>4
      <4>2. state'[n] = "live"
        BY <3>1, <3>4, <4>1 DEF Types
      <4> QED
        BY <2>1, <3>1, <4>2
    <3>5. CASE n # Top(a).node
      <4>1. state'[n] = state[n]
        BY <3>1, <3>5 DEF Types
      <4> QED
        BY <2>1, <3>1, <4>1
    <3> QED
      BY <3>4, <3>5
  <2> QED
    BY <2>2, <2>3, <2>4, <2>5, StepTree
<1> QED
  BY <1>2, <1>3

\* So does a call.
LEMMA TimerHomeCall ==
    ASSUME Types, TimerHome, NEW t \in Threads, Call(t)
    PROVE  TimerHome'
<1>1. PICK n \in Nodes, fs \in Seq(Frame) : Starts(t, n, fs)
  BY CallStarts
<1>2. /\ code'[t] = fs /\ code[t] = <<>> /\ \A b \in Actors : b # t => code'[b] = code[b]
      /\ \A i \in 1..Len(fs) : fs[i].node = n
      /\ parent' = parent
  BY <1>1, StartLife, CallStarts
<1>3. /\ \A m \in Nodes : code'[m] = code[m]
      /\ \A u \in Threads : u # t => code'[u] = code[u]
  BY <1>2, NoneIsNoParent DEF Actors
<1> SUFFICES ASSUME NEW m \in Nodes, code'[m] # <<>>
             PROVE  /\ KindOf[m] = "deadline" /\ parent'[m] # None
                    /\ state'[m] \in {"init", "live", "closing"}
                    /\ state'[m] = "closing" => Joining(m)'
  BY DEF TimerHome
<1>4. /\ KindOf[m] = "deadline" /\ parent'[m] # None
      /\ state[m] \in {"init", "live", "closing"}
      /\ state[m] = "closing" => Joining(m)
  BY <1>2, <1>3 DEF TimerHome
<1>5. Joining(m) => Joining(m)'
  <2> SUFFICES ASSUME NEW u \in Threads, NEW i \in 1..Len(code[u]),
                      code[u][i].op = "join" /\ code[u][i].node = m
               PROVE  Joining(m)'
    BY DEF Joining
  <2>1. u # t
    BY <1>2
  <2>2. code'[u] = code[u]
    BY <1>3, <2>1
  <2> QED
    BY <2>2 DEF Joining
<1>6. CASE Makes(t, n, fs)
  <2>1. state' = [state EXCEPT ![n] = "init"] /\ state[n] = "fresh"
    BY <1>6 DEF Makes
  <2>2. n # m
    BY <1>4, <2>1
  <2>3. state'[m] = state[m]
    BY <2>1, <2>2 DEF Types
  <2> QED
    BY <1>4, <1>5, <2>3
<1>7. CASE Borrows(t, n, fs) \/ Queries(t, n, fs)
  <2>1. state' = state
    BY <1>7 DEF Borrows, Queries
  <2> QED
    BY <1>4, <1>5, <2>1
<1>8. CASE Destroys(t, n, fs)
  <2>1. /\ state' = [state EXCEPT ![n] = "closing"]
        /\ KindOf[n] = "deadline" => \E i \in 1..Len(fs) : fs[i].op = "join"
    BY <1>8 DEF Destroys
  <2>2. CASE m = n
    <3>1. PICK i \in 1..Len(fs) : fs[i].op = "join"
      BY <1>4, <2>1, <2>2
    <3>2. Joining(m)'
      BY <1>2, <2>2, <3>1 DEF Joining
    <3>3. state'[m] = "closing"
      BY <2>1, <2>2 DEF Types
    <3> QED
      BY <1>4, <3>2, <3>3
  <2>3. CASE m # n
    <3>1. state'[m] = state[m]
      BY <2>1, <2>3 DEF Types
    <3> QED
      BY <1>4, <1>5, <3>1
  <2> QED
    BY <2>2, <2>3
<1> QED
  BY <1>1, <1>6, <1>7, <1>8 DEF Starts

(***************************************************************************)
(* The lock invariant is kept, and with it the children lists under a walk.*)
(***************************************************************************)
LEMMA ArmLocks ==
    ASSUME Types, StacksFit, LocksRight, NotArmed, NEW a \in Actors, ArmStarts(a)
    PROVE  LocksRight'
<1> DEFINE st == code[a]
           n == Top(a).node
           fr == <<F("tTop", n)>>
<1>1. /\ a \in Actors /\ n \in Actors /\ n # a /\ st \in Seq(Frame) /\ st # <<>>
      /\ code'[a] = Tail(st) /\ code'[n] = fr
      /\ \A b \in Actors : b # a /\ b # n => code'[b] = code[b]
      /\ Top(a).op = "arm" /\ Top(a) = Head(st) /\ Top(a) = st[1]
      /\ 1 \in 1..Len(st) /\ shares' = shares
  <2>1. /\ n \in Actors /\ n # a /\ code'[a] = Tail(st) /\ code'[n] = fr /\ Top(a).op = "arm"
        /\ \A b \in Actors : b # a /\ b # n => code'[b] = code[b]
    BY ArmStacks
  <2>2. st \in Seq(Frame) /\ st # <<>> /\ Top(a) = st[1] /\ 1 \in 1..Len(st) /\ shares' = shares
    BY DEF ArmStarts, Head1
  <2> QED
    BY <2>1, <2>2 DEF Top
<1>2. Paired(st) /\ Guarded(st) /\ shares[a] = Cardinality(Paid(st))
  BY DEF LocksRight
<1>3. code[n] = <<>>
  BY <1>1 DEF NotArmed
<1>4. shares[n] = Cardinality(Paid(<<>>))
  BY <1>1, <1>3 DEF LocksRight
<1>5. Paid(<<>>) = {} /\ Paid(fr) = {} /\ Paired(fr) /\ Guarded(fr)
  BY DEF Paid, Paired, Guarded, Walking, F
<1>6. shares'[n] = Cardinality(Paid(fr))
  BY <1>1, <1>4, <1>5
<1> HIDE DEF st, n, fr
<1>7. <<>> \in Seq(Frame) /\ <<>> \o Tail(st) = Tail(st) /\ Len(<<>>) = 0
  <2>1. Tail(st) \in Seq(Frame)
    BY <1>1
  <2> QED
    BY <2>1
<1>8. Balanced(<<>>) /\ Sheltered(<<>>)
  BY DEF Balanced, Sheltered, Paired, Paid
<1>9. /\ Paired(Tail(st)) /\ Guarded(Tail(st))
      /\ Paid(Tail(st)) = {k + (0 - 1) : k \in Paid(st)}
  <2>1. /\ Paired(<<>> \o Tail(st))
        /\ Paid(<<>> \o Tail(st)) = {k + (Len(<<>>) - 1) : k \in Paid(st)}
    BY <1>1, <1>2, <1>7, <1>8, PaidReplaced DEF Balanced
  <2>2. Guarded(<<>> \o Tail(st))
    BY <1>1, <1>2, <1>7, <1>8, GuardedReplaced
  <2> QED
    BY <1>7, <2>1, <2>2
<1>10. Cardinality({k + (0 - 1) : k \in Paid(st)}) = Cardinality(Paid(st))
  <2>1. Len(st) \in Nat /\ 0 - 1 \in Int /\ Paid(st) \in SUBSET (1..Len(st))
    BY <1>1 DEF Paid
  <2> QED
    BY <2>1, ShiftedCount
<1>11. shares'[a] = Cardinality(Paid(code'[a]))
  BY <1>1, <1>2, <1>9, <1>10 DEF st
<1> SUFFICES ASSUME NEW b \in Actors
             PROVE  /\ Paired(code'[b]) /\ Guarded(code'[b])
                    /\ shares'[b] = Cardinality(Paid(code'[b]))
  BY DEF LocksRight, Paired, Guarded, Paid, Covered, Walking
<1>12. CASE b = a
  BY <1>1, <1>9, <1>11, <1>12
<1>13. CASE b = n
  BY <1>1, <1>5, <1>6, <1>13
<1>14. CASE b # a /\ b # n
  BY <1>1, <1>14 DEF LocksRight
<1> QED
  BY <1>12, <1>13, <1>14

-----------------------------------------------------------------------------
\* Locks stay right when neither code nor locks change.
LEMMA LocksFrozen ==
    ASSUME LocksRight, code' = code, shares' = shares
    PROVE  LocksRight'
<1> SUFFICES ASSUME NEW b \in Actors
             PROVE  /\ Paired(code'[b]) /\ Guarded(code'[b])
                    /\ shares'[b] = Cardinality(Paid(code'[b]))
  BY DEF LocksRight, Paired, Guarded, Paid, Covered, Walking
<1>1. Paired(code[b]) /\ Guarded(code[b]) /\ shares[b] = Cardinality(Paid(code[b]))
  BY DEF LocksRight
<1> QED
  BY <1>1

\* Every step keeps the locks right.
LEMMA LocksStep ==
    ASSUME Types, Lifecycle, StacksFit, LocksRight, NotArmed, NEW a \in Actors, Step(a)
    PROVE  LocksRight'
<1>1. CASE code' = code /\ shares' = shares
  BY <1>1, LocksFrozen
<1> QED
  BY <1>1, ArmLocks, TakeLocks, PushLocks, StepStack

\* A walk over a children list goes on only while its actor holds the lock.
LEMMA KidsShared ==
    ASSUME Types, LocksRight, NEW b \in Actors, NEW i \in 1..Len(code[b]),
           code[b][i].op = "kids"
    PROVE  shares[b] > 0
<1> DEFINE st == code[b]
<1>1. st \in Seq(Frame) /\ Paired(st) /\ Guarded(st) /\ shares[b] = Cardinality(Paid(st))
  BY DEF Types, LocksRight
<1>2. i \in 1..Len(st) /\ st[i].op = "kids" /\ Walking(st[i])
  BY DEF Walking
<1> HIDE DEF st
<1>3. ~ \E k \in 1..Len(st) : k + 1 = i /\ st[k].op = "share"
  BY <1>1, <1>2 DEF Paired
<1>4. Covered(st, i)
  BY <1>1, <1>2, <1>3 DEF Guarded
<1>5. Paid(st) # {} /\ Paid(st) \in SUBSET (1..Len(st)) /\ Len(st) \in Nat
  BY <1>1, <1>4 DEF Covered, Paid
<1>6. IsFiniteSet(Paid(st))
  <2>1. IsFiniteSet(1..Len(st))
    BY <1>5, FS_Interval
  <2> QED
    BY <1>5, <2>1, FS_Subset
<1>7. Cardinality(Paid(st)) \in Nat /\ Cardinality(Paid(st)) # 0
  BY <1>5, <1>6, FS_CardinalityType, FS_EmptySet
<1> QED
  BY <1>1, <1>7

TodoHeld ==
    \A b \in Actors : \A i \in 1..Len(code[b]) :
        code[b][i].op = "kids" => code[b][i].todo \subseteq children[code[b][i].node]

\* A step keeps the children a walk has left under the node walked.
LEMMA TodoStep ==
    ASSUME Types, Lifecycle, StacksFit, LocksRight, TodoHeld, NEW a \in Actors, Step(a)
    PROVE  TodoHeld'
<1> SUFFICES ASSUME NEW b \in Actors, NEW i \in 1..Len(code'[b]), code'[b][i].op = "kids"
             PROVE  code'[b][i].todo \subseteq children'[code'[b][i].node]
  BY DEF TodoHeld
<1> DEFINE f == code'[b][i]
<1>1. CASE OldFrame(b, f)
  <2>1. PICK k \in 1..Len(code[b]) : code[b][k] = f
    BY <1>1 DEF OldFrame
  <2>2. f.todo \subseteq children[f.node]
    BY <2>1 DEF TodoHeld
  <2>3. ~CanExclude
    <3>1. shares[b] > 0 /\ shares[b] \in Int
      BY <2>1, KidsShared DEF Types
    <3> QED
      BY <3>1 DEF CanExclude
  <2>4. children' = children
    <3>1. Ready(a) \/ Free(a) => children' = children
      BY WhatReady
    <3> QED
      BY <2>3, <3>1, StepTree, WhatAttach, WhatDetach
  <2> QED
    BY <2>2, <2>4
<1>2. CASE b = a /\ NewFrame(a, f, i)
  <2>1. /\ f.node = Top(a).node /\ Top(a).op \in {"fire", "kids"}
        /\ f.todo \subseteq (IF Top(a).op = "fire" THEN children[f.node] ELSE Top(a).todo)
    BY <1>2 DEF NewFrame
  <2>2. CASE Fire(a)
    <3>1. children' = children /\ Top(a).op = "fire"
      BY <2>2, WhatFire, HeadOf
    <3> QED
      BY <2>1, <3>1
  <2>3. CASE NextKid(a)
    <3>1. children' = children /\ Top(a).op = "kids" /\ Head1(a, {"kids"})
      BY <2>3, WhatNextKid, HeadOf
    <3>2. Top(a).todo \subseteq children[Top(a).node]
      BY <3>1 DEF TodoHeld, Head1
    <3> QED
      BY <2>1, <3>1, <3>2
  <2> QED
    BY <2>1, <2>2, <2>3, HeadOnly
<1>3. ~TaskFrame(a, b, f)
  BY DEF TaskFrame, F
<1>4. OldFrame(b, f) \/ (b = a /\ NewFrame(a, f, i)) \/ TaskFrame(a, b, f)
  BY FrameFrom
<1> QED
  BY <1>1, <1>2, <1>3, <1>4

\* So does a call.
LEMMA TodoCall ==
    ASSUME Types, TodoHeld, NEW t \in Threads, Call(t)
    PROVE  TodoHeld'
<1>1. PICK n \in Nodes, fs \in Seq(Frame) : Starts(t, n, fs)
  BY CallStarts
<1>2. code'[t] = fs /\ (\A b \in Actors : b # t => code'[b] = code[b]) /\ children' = children
  BY <1>1, StartLife, CallStarts
<1>3. \A i \in 1..Len(fs) : fs[i].op # "kids"
  BY <1>1 DEF Starts, OnNode, CallOps
<1> QED
  BY <1>2, <1>3 DEF TodoHeld

(***************************************************************************)
(* All of it together.                                                     *)
(***************************************************************************)
Trees == Types /\ Lifecycle /\ TreeWellFormed /\ StacksFit
Locks == LocksRight /\ NotArmed /\ TimerHome /\ Rooted /\ TodoHeld

\* Every step keeps tree and locks.
LEMMA NextLocks ==
    ASSUME Trees, Locks, [Next]_vars
    PROVE  Trees' /\ Locks'
<1>1. Types'
  BY NextTyped DEF Trees
<1>2. Lifecycle' /\ TreeWellFormed' /\ StacksFit'
  BY NextTree, NextFits DEF Trees
<1>3. Rooted'
  BY <1>1, RootedStep DEF Trees, Locks
<1>0. Types /\ Lifecycle /\ StacksFit /\ LocksRight /\ NotArmed /\ TimerHome /\ Rooted /\ TodoHeld
  BY DEF Trees, Locks
<1>4. ASSUME NEW a \in Actors, Step(a)
      PROVE  LocksRight' /\ NotArmed' /\ TimerHome' /\ TodoHeld'
  BY <1>0, <1>4, LocksStep, NotArmedStep, TimerHomeStep, TodoStep
<1>5. ASSUME NEW t \in Threads, Call(t)
      PROVE  LocksRight' /\ NotArmed' /\ TimerHome' /\ TodoHeld'
  <2>1. LocksRight'
    <3>1. t \in Actors /\ shares' = shares
      BY <1>0, <1>5, CallStarts
    <3>2. PICK n \in Nodes, fs \in Seq(Frame) : Starts(t, n, fs)
      BY <1>0, <1>5, CallStarts
    <3> QED
      BY <1>0, <3>1, <3>2, StartLocks
  <2> QED
    BY <1>0, <1>5, <2>1, NotArmedCall, TimerHomeCall, TodoCall
<1>6. ASSUME UNCHANGED <<state, parent, children, code, shares>>
      PROVE  LocksRight' /\ NotArmed' /\ TimerHome' /\ TodoHeld'
  <2>1. LocksRight'
    BY <1>0, <1>6, LocksFrozen
  <2>2. NotArmed' /\ TodoHeld'
    BY <1>0, <1>6 DEF NotArmed, TodoHeld
  <2>3. TimerHome'
    <3> SUFFICES ASSUME NEW n \in Nodes, code'[n] # <<>>
                 PROVE  /\ KindOf[n] = "deadline" /\ parent'[n] # None
                        /\ state'[n] \in {"init", "live", "closing"}
                        /\ state'[n] = "closing" => Joining(n)'
      BY DEF TimerHome
    <3>1. code' = code /\ state' = state /\ parent' = parent
      BY <1>6
    <3>2. Joining(n) => Joining(n)'
      BY <3>1 DEF Joining
    <3> QED
      BY <1>0, <3>1, <3>2 DEF TimerHome
  <2> QED
    BY <2>1, <2>2, <2>3
<1>7. LocksRight' /\ NotArmed' /\ TimerHome' /\ TodoHeld'
  <2>1. \/ \E a \in Actors : Step(a)
        \/ \E t \in Threads : Call(t)
        \/ UNCHANGED <<state, parent, children, code, shares>>
    BY NextCases
  <2>2. CASE \E a \in Actors : Step(a)
    BY <1>4, <2>2
  <2>3. CASE \E t \in Threads : Call(t)
    BY <1>5, <2>3
  <2> QED
    BY <1>6, <2>1, <2>2, <2>3
<1> QED
  BY <1>1, <1>2, <1>3, <1>7 DEF Trees, Locks

\* Tree and locks are right at the start.
LEMMA InitLocks == Init => Trees /\ Locks
<1> SUFFICES ASSUME Init PROVE Trees /\ Locks
  OBVIOUS
<1>1. Trees
  BY InitTyped, InitTree, InitFits DEF Trees
<1>2. \A b \in Actors : code[b] = <<>> \/ (b \in Nodes /\ KindOf[b] = "deadline"
                                           /\ InitParent[b] # None /\ code[b] = <<F("tTop", b)>>)
  BY DEF Init
<1>3. \A b \in Actors : \A i \in 1..Len(code[b]) : code[b][i].op = "tTop"
  <2> SUFFICES ASSUME NEW b \in Actors, NEW i \in 1..Len(code[b]) PROVE code[b][i].op = "tTop"
    OBVIOUS
  <2>1. code[b] = <<F("tTop", b)>>
    BY <1>2
  <2>2. i = 1
    BY <2>1
  <2> QED
    BY <2>1, <2>2 DEF F
<1>4. NotArmed /\ TodoHeld
  BY <1>3 DEF NotArmed, TodoHeld
<1>5. LocksRight
  <2> SUFFICES ASSUME NEW b \in Actors
               PROVE  Paired(code[b]) /\ Guarded(code[b]) /\ shares[b] = Cardinality(Paid(code[b]))
    BY DEF LocksRight
  <2>1. Paired(code[b]) /\ Guarded(code[b])
    BY <1>3 DEF Paired, Guarded, Walking
  <2>2. Paid(code[b]) = {}
    BY <1>3 DEF Paid
  <2>3. shares[b] = 0
    BY DEF Init
  <2> QED
    BY <2>1, <2>2, <2>3, FS_EmptySet
<1>6. TimerHome
  <2> SUFFICES ASSUME NEW n \in Nodes, code[n] # <<>>
               PROVE  /\ KindOf[n] = "deadline" /\ parent[n] # None
                      /\ state[n] \in {"init", "live", "closing"} /\ state[n] # "closing"
    BY DEF TimerHome
  <2>1. KindOf[n] = "deadline" /\ InitParent[n] # None
    BY <1>2 DEF Actors
  <2> QED
    BY <2>1 DEF Init
<1>7. Rooted
  <2>1. \A n \in Nodes : state[n] \in {"live", "closing"} => parent[n] # None
    BY DEF Init
  <2>2. \A b \in Actors : LifeIn(code[b]) = {}
    <3> TAKE b \in Actors
    <3>1. code[b] \in Seq(Frame) /\ (code[b] # <<>> => Len(code[b]) \in 1..Len(code[b]))
      BY <1>1 DEF Trees, Types
    <3> QED
      BY <1>3, <3>1 DEF LifeIn, LifeOps
  <2> QED
    BY <2>1, <2>2 DEF Rooted
<1> QED
  BY <1>1, <1>4, <1>5, <1>6, <1>7 DEF Locks

\* Tree and locks stay right.
LEMMA LocksKept == Spec => [](Trees /\ Locks)
<1>1. Trees /\ Locks /\ [Next]_vars => (Trees /\ Locks)'
  BY NextLocks
<1> QED
  BY <1>1, InitLocks, PTL DEF Spec

\* A walk that holds the lock finds the children where it saw them.
LEMMA WalkFromLocks == Trees /\ Locks => WalkStaysInTree
<1> SUFFICES ASSUME Trees, Locks, NEW b \in Actors, NEW f \in Frames(b), f.op = "kids"
             PROVE  f.todo \subseteq children[f.node] /\ shares[b] > 0
  BY DEF WalkStaysInTree
<1>1. PICK i \in 1..Len(code[b]) : f = code[b][i]
  <2>1. code[b] \in Seq(Frame)
    BY DEF Trees, Types
  <2> QED
    BY <2>1 DEF Frames
<1> QED
  BY <1>1, KidsShared DEF Trees, Locks, TodoHeld

-----------------------------------------------------------------------------
(***************************************************************************)
(* The nodes above a node.                                                 *)
(***************************************************************************)
ClosedUp(S) == \A k \in S : parent[k] \in Nodes => parent[k] \in S

\* The chain above n is inside every set closed under parents that has n.
LEMMA UpLeast ==
    ASSUME NEW n, NEW S \in SUBSET Nodes, n \in Nodes => n \in S, ClosedUp(S)
    PROVE  UpFrom(n) \subseteq S
  BY DEF UpFrom, Chain, ClosedUp

\* A node is on its own chain.
LEMMA UpItself ==
    ASSUME NEW n \in Nodes
    PROVE  n \in UpFrom(n) /\ UpFrom(n) \subseteq Nodes
  BY DEF UpFrom, Chain

\* A chain is a set of nodes.
LEMMA UpNodes ==
    ASSUME NEW n
    PROVE  UpFrom(n) \in SUBSET Nodes
  BY DEF UpFrom, Chain

\* A chain is closed under parents.
LEMMA UpParent ==
    ASSUME NEW n
    PROVE  ClosedUp(UpFrom(n))
<1> SUFFICES ASSUME NEW k \in UpFrom(n), parent[k] \in Nodes PROVE parent[k] \in UpFrom(n)
  BY DEF ClosedUp
<1> SUFFICES ASSUME NEW S \in SUBSET Nodes, n \in Nodes => n \in S,
                    \A j \in S \cap Nodes : parent[j] \in Nodes => parent[j] \in S
             PROVE  parent[k] \in S
  BY DEF UpFrom, Chain
<1>1. k \in S /\ k \in Nodes
  BY DEF UpFrom, Chain
<1> QED
  BY <1>1

\* The chain of a node above is part of the chain.
LEMMA UpAbove ==
    ASSUME NEW n, NEW m \in UpFrom(n)
    PROVE  UpFrom(m) \subseteq UpFrom(n)
  BY UpLeast, UpParent, UpNodes

\* Nothing is above what is not a node.
LEMMA UpNothing ==
    ASSUME NEW n, n \notin Nodes
    PROVE  UpFrom(n) = {}
<1>1. ClosedUp({}) /\ {} \in SUBSET Nodes
  BY DEF ClosedUp
<1> QED
  BY <1>1, UpLeast

\* The same for the next state.
LEMMA UpLeastNext ==
    ASSUME NEW n, NEW S \in SUBSET Nodes, n \in Nodes => n \in S,
           \A k \in S : parent'[k] \in Nodes => parent'[k] \in S
    PROVE  UpFrom(n)' \subseteq S
  BY DEF UpFrom, Chain

\* The same facts about chains after a step.
LEMMA UpFactsNext ==
    ASSUME NEW n \in Nodes
    PROVE  /\ n \in UpFrom(n)' /\ UpFrom(n)' \in SUBSET Nodes
           /\ \A k \in UpFrom(n)' : parent'[k] \in Nodes => parent'[k] \in UpFrom(n)'
<1>1. n \in UpFrom(n)' /\ UpFrom(n)' \in SUBSET Nodes
  BY DEF UpFrom, Chain
<1> SUFFICES ASSUME NEW k \in UpFrom(n)', parent'[k] \in Nodes PROVE parent'[k] \in UpFrom(n)'
  BY <1>1
<1> SUFFICES ASSUME NEW S \in SUBSET Nodes, n \in Nodes => n \in S,
                    \A j \in S \cap Nodes : parent'[j] \in Nodes => parent'[j] \in S
             PROVE  parent'[k] \in S
  BY DEF UpFrom, Chain
<1>2. k \in S /\ k \in Nodes
  BY DEF UpFrom, Chain
<1> QED
  BY <1>2

\* Chains stay while the parents do.
LEMMA UpSame ==
    ASSUME parent' = parent, NEW n
    PROVE  UpFrom(n)' = UpFrom(n)
  BY DEF UpFrom, Chain

\* attachChild puts a node without children under its parent.
LEMMA AttachUp ==
    ASSUME Trees, NEW a \in Actors, Attach(a), NEW n \in Nodes
    PROVE  LET x == Top(a).node
               p == Top(a).arg
           IN  /\ UpFrom(n) \subseteq UpFrom(n)'
               /\ n # x => x \notin UpFrom(n) /\ UpFrom(n)' \subseteq UpFrom(n)
               /\ n = x => UpFrom(n)' \subseteq {x} \cup UpFrom(p)
               /\ x \in Nodes /\ parent[x] = None /\ state[x] = "init"
<1> DEFINE x == Top(a).node
           p == Top(a).arg
<1>1. /\ Head1(a, {"attach"}) /\ x \in Nodes /\ p \in Parents
      /\ parent' = [parent EXCEPT ![x] = p]
  BY WhatAttach DEF Trees
<1>2. LifeFrameOK(a, Top(a)) /\ Top(a).op = "attach"
  BY <1>1, LifeAlone DEF Trees, Head1, LifeOps
<1>3. parent[x] = None /\ state[x] = "init"
  BY <1>2 DEF LifeFrameOK
<1>4. \A k \in Nodes : parent'[k] = IF k = x THEN p ELSE parent[k]
  BY <1>1 DEF Trees, Types
<1>5. \A k \in Nodes : parent[k] # x
  BY <1>1, <1>3 DEF Trees, TreeWellFormed, ParentsHeld
<1> HIDE DEF x, p
<1>6. UpFrom(n) \subseteq UpFrom(n)'
  <2>1. ClosedUp(UpFrom(n)')
    <3> SUFFICES ASSUME NEW k \in UpFrom(n)', parent[k] \in Nodes PROVE parent[k] \in UpFrom(n)'
      BY DEF ClosedUp
    <3>1. k \in Nodes /\ k # x
      BY <1>3, UpFactsNext, NoneIsNoParent DEF Parents
    <3>2. parent'[k] = parent[k]
      BY <1>4, <3>1
    <3> QED
      BY <3>2, UpFactsNext
  <2> QED
    BY <2>1, UpLeast, UpFactsNext
<1>7. n # x => x \notin UpFrom(n) /\ UpFrom(n)' \subseteq UpFrom(n)
  <2> SUFFICES ASSUME n # x PROVE x \notin UpFrom(n) /\ UpFrom(n)' \subseteq UpFrom(n)
    OBVIOUS
  <2>1. x \notin UpFrom(n)
    <3> DEFINE S == UpFrom(n) \ {x}
    <3>1. ClosedUp(S)
      BY <1>5, UpParent, UpNodes DEF ClosedUp
    <3>2. S \in SUBSET Nodes /\ n \in S
      BY UpItself
    <3> HIDE DEF S
    <3>3. UpFrom(n) \subseteq S
      BY <3>1, <3>2, UpLeast
    <3> QED
      BY <3>3 DEF S
  <2>2. \A k \in UpFrom(n) : parent'[k] \in Nodes => parent'[k] \in UpFrom(n)
    BY <1>4, <2>1, UpParent, UpNodes DEF ClosedUp
  <2>3. UpFrom(n) \in SUBSET Nodes /\ n \in UpFrom(n)
    BY UpItself
  <2> QED
    BY <2>1, <2>2, <2>3, UpLeastNext
<1>8. n = x => UpFrom(n)' \subseteq {x} \cup UpFrom(p)
  <2> DEFINE S == {x} \cup UpFrom(p)
  <2>1. S \in SUBSET Nodes /\ x \in S
    BY <1>1, UpNodes
  <2>2. \A k \in S : parent'[k] \in Nodes => parent'[k] \in S
    <3> SUFFICES ASSUME NEW k \in S, parent'[k] \in Nodes PROVE parent'[k] \in S
      OBVIOUS
    <3>1. CASE k = x
      <4>1. p \in Nodes
        BY <1>1, <1>4, <3>1
      <4> QED
        BY <1>1, <1>4, <3>1, <4>1, UpItself
    <3>2. CASE k # x
      <4>1. k \in UpFrom(p) /\ k \in Nodes
        BY <2>1, <3>2
      <4>2. parent'[k] = parent[k]
        BY <1>4, <3>2, <4>1
      <4> QED
        BY <4>1, <4>2, UpParent DEF ClosedUp
    <3> QED
      BY <3>1, <3>2
  <2> HIDE DEF S
  <2>3. n = x => UpFrom(n)' \subseteq S
    BY <2>1, <2>2, UpLeastNext
  <2> QED
    BY <2>3 DEF S
<1> QED
  BY <1>1, <1>3, <1>6, <1>7, <1>8 DEF x, p

\* detachAndReparentChildren takes one node out of every chain it is in.
LEMMA DetachUp ==
    ASSUME Trees, Rooted, NEW a \in Actors, Detach(a), NEW n \in Nodes
    PROVE  LET x == Top(a).node
           IN  /\ UpFrom(n)' \subseteq UpFrom(n)
               /\ n # x => UpFrom(n) \ {x} \subseteq UpFrom(n)'
<1> DEFINE x == Top(a).node
           p == parent[x]
<1>1. /\ x \in Nodes /\ p # None
      /\ \A m \in Nodes : parent'[m] = IF m \in children[x] THEN p
                                       ELSE IF m = x THEN None ELSE parent[m]
  BY DetachParents DEF Trees
<1>2. \A m \in Nodes : m \in children[x] <=> parent[m] = x
  BY <1>1 DEF Trees, TreeWellFormed, LinksAgree, Parents
<1>3. x \notin children[x]
  <2>1. {x} \in SUBSET Nodes /\ {x} # {}
    BY <1>1
  <2>2. parent[x] \notin {x}
    BY <2>1 DEF Trees, TreeWellFormed, Acyclic
  <2> QED
    BY <1>1, <1>2, <2>2
<1>4. \A m \in Nodes : parent'[m] = IF parent[m] = x THEN p
                                    ELSE IF m = x THEN None ELSE parent[m]
  BY <1>1, <1>2
<1>5. p # x
  BY <1>1, <1>2, <1>3
<1> HIDE DEF x, p
<1>6. UpFrom(n)' \subseteq UpFrom(n)
  <2>1. \A k \in UpFrom(n) : parent'[k] \in Nodes => parent'[k] \in UpFrom(n)
    <3> SUFFICES ASSUME NEW k \in UpFrom(n), parent'[k] \in Nodes PROVE parent'[k] \in UpFrom(n)
      OBVIOUS
    <3>1. k \in Nodes
      BY UpNodes
    <3>2. CASE parent[k] = x
      <4>1. x \in UpFrom(n)
        BY <1>1, <3>2, UpParent DEF ClosedUp
      <4>2. parent'[k] = p
        BY <1>4, <3>1, <3>2
      <4> QED
        BY <4>1, <4>2, UpParent DEF ClosedUp, p
    <3>3. CASE parent[k] # x
      <4>1. parent'[k] = parent[k]
        BY <1>4, <3>1, <3>3, NoneIsNoParent DEF Parents
      <4> QED
        BY <4>1, UpParent DEF ClosedUp
    <3> QED
      BY <3>2, <3>3
  <2> QED
    BY <2>1, UpItself, UpLeastNext
<1>7. n # x => UpFrom(n) \ {x} \subseteq UpFrom(n)'
  <2> SUFFICES ASSUME n # x PROVE UpFrom(n) \ {x} \subseteq UpFrom(n)'
    OBVIOUS
  <2> DEFINE U == UpFrom(n)'
  <2>1. n \in U /\ U \in SUBSET Nodes /\ \A k \in U : parent'[k] \in Nodes => parent'[k] \in U
    BY UpFactsNext
  <2>2. x \notin U
    <3> DEFINE S == UpFrom(n)' \ {x}
    <3>1. \A k \in S : parent'[k] \in Nodes => parent'[k] \in S
      BY <1>4, <1>5, <2>1
    <3>2. S \in SUBSET Nodes /\ n \in S
      BY <2>1
    <3> HIDE DEF S
    <3>3. UpFrom(n)' \subseteq S
      BY <3>1, <3>2, UpLeastNext
    <3> QED
      BY <3>3 DEF S
  <2> DEFINE S == U \cup {y \in {x} : p \in Nodes => p \in U}
  <2>3. ClosedUp(S)
    <3> HIDE DEF U
    <3> SUFFICES ASSUME NEW k \in S, parent[k] \in Nodes PROVE parent[k] \in S
      BY DEF ClosedUp
    <3>1. CASE k = x
      BY <2>2, <3>1 DEF p
    <3>2. CASE k # x /\ parent[k] = x
      <4>1. k \in U /\ parent'[k] = p
        BY <1>4, <2>1, <3>2
      <4>2. p \in Nodes => p \in U
        BY <2>1, <4>1
      <4> QED
        BY <3>2, <4>2
    <3>3. CASE k # x /\ parent[k] # x
      <4>1. k \in U /\ parent'[k] = parent[k]
        BY <1>4, <2>1, <3>3
      <4> QED
        BY <2>1, <4>1
    <3> QED
      BY <3>1, <3>2, <3>3
  <2>4. S \in SUBSET Nodes /\ n \in S
    BY <1>1, <2>1
  <2> HIDE DEF S, U
  <2>5. UpFrom(n) \subseteq S
    BY <2>3, <2>4, UpLeast
  <2> QED
    BY <2>5 DEF S, U
<1> QED
  BY <1>6, <1>7 DEF x

-----------------------------------------------------------------------------
(***************************************************************************)
(* Where a frame stands after a step: what is below it stays below it, and *)
(* so does the hold of the lock that covers it.                            *)
(***************************************************************************)
Kept(b, i, k) ==
    /\ code'[b][i] = code[b][k]
    /\ Covered(code[b], k) => Covered(code'[b], i)
    /\ \A j \in 1..Len(code[b]) : j > k =>
           \E l \in 1..Len(code'[b]) : l > i /\ code'[b][l] = code[b][j]
NewAt(a, i) ==
    /\ NewFrame(a, code'[a][i], i)
    /\ Covered(code[a], 1) => Covered(code'[a], i)
    /\ \A j \in 2..Len(code[a]) : \E l \in 1..Len(code'[a]) : l > i /\ code'[a][l] = code[a][j]

\* A frame that ends keeps those below it in their place, still covered.
LEMMA PopKept ==
    ASSUME Types, NEW a \in Actors, code[a] # <<>>, code'[a] = Tail(code[a]),
           \A j \in Paid(code[a]) : j > 1 => j + -1 \in Paid(code'[a]),
           NEW i \in 1..Len(code'[a])
    PROVE  \E k \in 1..Len(code[a]) : Kept(a, i, k)
<1> DEFINE st == code[a]
           k == i + 1
<1>1. st \in Seq(Frame) /\ st # <<>> /\ i \in 1..Len(Tail(st))
  BY DEF Types
<1>2. k \in 1..Len(st) /\ code'[a][i] = st[k]
  <2>1. k \in 2..Len(st) /\ code'[a][i] = st[k]
    BY PopFrames
  <2> QED
    BY <2>1
<1>3. Covered(st, k) => Covered(code'[a], i)
  <2> SUFFICES ASSUME Covered(st, k) PROVE Covered(code'[a], i)
    OBVIOUS
  <2>1. PICK j \in Paid(st) : j > k
    BY DEF Covered
  <2>2. j \in Int /\ i \in Int /\ i >= 1
    BY <2>1 DEF Paid
  <2>3. j + -1 \in Paid(code'[a])
    BY <2>1, <2>2
  <2>4. j + -1 > i
    BY <2>1, <2>2
  <2> QED
    BY <2>3, <2>4 DEF Covered
<1>4. \A j \in 1..Len(st) : j > k => \E l \in 1..Len(code'[a]) : l > i /\ code'[a][l] = st[j]
  <2> SUFFICES ASSUME NEW j \in 1..Len(st), j > k
               PROVE  \E l \in 1..Len(code'[a]) : l > i /\ code'[a][l] = st[j]
    OBVIOUS
  <2> DEFINE l == j - 1
  <2>1. code'[a] = Tail(st)
    OBVIOUS
  <2> HIDE DEF st
  <2>2. Len(Tail(st)) = Len(st) - 1 /\ Len(st) \in Nat
        /\ \A m \in 1..Len(Tail(st)) : Tail(st)[m] = st[m + 1]
    BY <1>1
  <2>3. l \in 1..Len(Tail(st)) /\ l > i /\ l + 1 = j
    BY <1>1, <2>2
  <2>4. Tail(st)[l] = st[l + 1]
    BY <2>2, <2>3
  <2> QED
    BY <2>1, <2>3, <2>4
<1> HIDE DEF k
<1> QED
  BY <1>2, <1>3, <1>4 DEF Kept

\* After a push every frame is kept in its place or new.
LEMMA PushKept ==
    ASSUME Types, LocksRight, NEW a \in Actors, NEW fs \in Seq(Frame), Pushes(a, fs),
           NEW i \in 1..Len(code'[a])
    PROVE  (\E k \in 1..Len(code[a]) : Kept(a, i, k)) \/ NewAt(a, i)
<1> DEFINE d == Len(fs) - 1
<1>1. Moves(a, fs) /\ \A k \in 1..Len(fs) : NewFrame(a, fs[k], k)
  BY DEF Pushes
<1>2. /\ Len(code[a]) \in Nat \ {0} /\ Len(fs) \in Nat
      /\ \A k \in 2..Len(code[a]) : /\ k - 1 + Len(fs) \in 1..Len(code'[a])
                                    /\ code'[a][k - 1 + Len(fs)] = code[a][k]
      /\ \/ i \in 1..Len(fs) /\ code'[a][i] = fs[i]
         \/ \E k \in 2..Len(code[a]) : i = k - 1 + Len(fs) /\ code'[a][i] = code[a][k]
  BY <1>1, MovedFrames
<1>3. /\ \A j \in Paid(code[a]) : j + d \in Paid(code'[a])
      /\ \A j \in Paid(code[a]) : j > 1
  <2> DEFINE st == code[a]
  <2>1. /\ st \in Seq(Frame) /\ st # <<>> /\ code'[a] = fs \o Tail(st) /\ Paired(st)
        /\ Head(st).op \notin {"share", "unshare"} /\ Paired(fs) /\ Paid(fs) = {}
    BY <1>1, MovesWhat DEF Pushes, LocksRight, Balanced
  <2> HIDE DEF st
  <2>2. /\ Paid(fs \o Tail(st)) = {k + (Len(fs) - 1) : k \in Paid(st)}
        /\ \A k \in Paid(st) : k > 1
    BY <2>1, PaidReplaced
  <2> QED
    BY <2>1, <2>2 DEF st
<1>4. \A j \in Paid(code[a]) : j \in Int
  BY DEF Paid
<1>5. CASE i \in 1..Len(fs) /\ code'[a][i] = fs[i]
  <2>1. NewFrame(a, code'[a][i], i)
    BY <1>1, <1>5
  <2>2. Covered(code[a], 1) => Covered(code'[a], i)
    <3> SUFFICES ASSUME Covered(code[a], 1) PROVE Covered(code'[a], i)
      OBVIOUS
    <3>1. PICK j \in Paid(code[a]) : j > 1
      BY DEF Covered
    <3>2. j + d \in Paid(code'[a]) /\ j \in Int
      BY <1>3, <1>4
    <3>3. j + d > i
      BY <1>2, <1>5, <3>1, <3>2
    <3> QED
      BY <3>2, <3>3 DEF Covered
  <2>3. ASSUME NEW j \in 2..Len(code[a])
        PROVE  \E l \in 1..Len(code'[a]) : l > i /\ code'[a][l] = code[a][j]
    <3> DEFINE l == j - 1 + Len(fs)
    <3>1. l \in 1..Len(code'[a]) /\ code'[a][l] = code[a][j]
      BY <1>2
    <3>2. Len(fs) \in Nat
      BY <1>2
    <3>3. l > i
      BY <1>5, <3>2
    <3> QED
      BY <3>1, <3>3
  <2> QED
    BY <2>1, <2>2, <2>3 DEF NewAt
<1>6. ASSUME NEW k \in 2..Len(code[a]), i = k - 1 + Len(fs), code'[a][i] = code[a][k]
      PROVE  \E m \in 1..Len(code[a]) : Kept(a, i, m)
  <2>1. k \in 1..Len(code[a])
    OBVIOUS
  <2>2. Covered(code[a], k) => Covered(code'[a], i)
    <3> SUFFICES ASSUME Covered(code[a], k) PROVE Covered(code'[a], i)
      OBVIOUS
    <3>1. PICK j \in Paid(code[a]) : j > k
      BY DEF Covered
    <3>2. j + d \in Paid(code'[a]) /\ j \in Int /\ Len(fs) \in Nat
      BY <1>2, <1>3, <1>4
    <3>3. j + d > i
      BY <1>6, <3>1, <3>2
    <3> QED
      BY <3>2, <3>3 DEF Covered
  <2>3. ASSUME NEW j \in 1..Len(code[a]), j > k
        PROVE  \E l \in 1..Len(code'[a]) : l > i /\ code'[a][l] = code[a][j]
    <3> DEFINE l == j - 1 + Len(fs)
    <3>0. j \in 2..Len(code[a]) /\ Len(fs) \in Nat
      BY <1>2, <2>3
    <3>1. l \in 1..Len(code'[a]) /\ code'[a][l] = code[a][j]
      BY <1>2, <3>0
    <3>3. l > i
      BY <1>6, <2>3, <3>0
    <3> QED
      BY <3>1, <3>3
  <2> QED
    BY <1>6, <2>1, <2>2, <2>3 DEF Kept
<1> QED
  BY <1>2, <1>5, <1>6

\* After any step every frame is kept, new, or starts a task.
LEMMA FrameMoves ==
    ASSUME Types, Lifecycle, StacksFit, LocksRight, NEW a \in Actors, Step(a),
           NEW b \in Actors, NEW i \in 1..Len(code'[b])
    PROVE  \/ \E k \in 1..Len(code[b]) : Kept(b, i, k)
           \/ b = a /\ NewAt(a, i)
           \/ TaskFrame(a, b, code'[b][i])
<1>1. CASE code'[b] = code[b]
  BY <1>1 DEF Kept
<1>2. CASE Takes(a) \/ Gives(a)
  <2>1. /\ code[a] # <<>> /\ code'[a] = Tail(code[a])
        /\ \A c \in Actors : c # a => code'[c] = code[c]
    BY <1>2, PopWhat DEF Takes, Gives
  <2>2. code[a] \in Seq(Frame) /\ Paired(code[a]) /\ Top(a) = Head(code[a])
    BY DEF Types, LocksRight, Top
  <2>3. \A j \in Paid(code[a]) : j > 1 => j + -1 \in Paid(code'[a])
    <3>1. CASE Takes(a)
      <4>1. Head(code[a]).op = "share"
        BY <2>2, <3>1 DEF Takes, Head1
      <4>2. Paid(Tail(code[a])) = {k + -1 : k \in Paid(code[a]) \cup {3}}
        BY <2>1, <2>2, <4>1, PaidShare
      <4> QED
        BY <2>1, <4>2
    <3>2. CASE Gives(a)
      <4>1. Head(code[a]).op = "unshare"
        BY <2>2, <3>2 DEF Gives, Head1
      <4>2. Paid(Tail(code[a])) = {k + -1 : k \in Paid(code[a]) \ {1}}
        BY <2>1, <2>2, <4>1, PaidUnshare
      <4> QED
        BY <2>1, <4>2
    <3> QED
      BY <1>2, <3>1, <3>2
  <2>4. CASE b = a
    BY <2>1, <2>3, <2>4, PopKept
  <2> QED
    BY <1>1, <2>1, <2>4
<1>3. CASE ArmStarts(a)
  <2>1. /\ code[a] # <<>> /\ code'[a] = Tail(code[a]) /\ Len(code[a]) = 2
        /\ \A c \in Actors : c # a /\ c # Top(a).node => code'[c] = code[c]
        /\ code[a][2] = F("ready", Top(a).node) /\ code[a][1].op = "arm"
    BY <1>3, ArmStacks DEF ArmStarts, Head1
  <2>2. Paid(code[a]) = {}
    <3>1. \A j \in 1..Len(code[a]) : j = 1 \/ j = 2
      BY <2>1
    <3> QED
      BY <2>1, <3>1 DEF Paid, F
  <2>3. CASE b = a
    BY <2>1, <2>2, <2>3, PopKept
  <2>4. CASE b = Top(a).node
    <3>1. code'[b] = <<F("tTop", b)>>
      BY <1>3, <2>4, ArmStacks
    <3>2. i = 1
      BY <3>1
    <3> QED
      BY <1>3, <2>4, <3>1, <3>2 DEF TaskFrame
  <2> QED
    BY <1>1, <2>1, <2>3, <2>4
<1>4. ASSUME NEW fs \in Seq(Frame), Pushes(a, fs)
      PROVE  (\E k \in 1..Len(code[b]) : Kept(b, i, k)) \/ (b = a /\ NewAt(a, i))
  <2>1. \A c \in Actors : c # a => code'[c] = code[c]
    BY <1>4, MovesWhat DEF Pushes
  <2>2. CASE b = a
    BY <1>4, <2>2, PushKept
  <2>3. CASE b # a
    BY <2>1, <2>3 DEF Kept
  <2> QED
    BY <2>2, <2>3
<1> QED
  BY <1>1, <1>2, <1>3, <1>4, StepStack

-----------------------------------------------------------------------------
(***************************************************************************)
(* Handles and the chains above them while a call uses them.               *)
(***************************************************************************)
\* a busy client's handles are live, or the call is creating or destroying them
Borrow ==
    \A t \in Threads : code[t] # <<>> => \A u \in uses[t] :
        state[u] = "live" \/ \E f \in LifeIn(code[t]) : f.node = u
\* an err() under way runs below nodes that nobody destroys
AskSafe ==
    \A t \in Threads : Asking(t) =>
        \A u \in uses[t] : \A m \in UpFrom(u) : state[m] \in {"init", "live"}

\* What the steps on the tree do to the states and to the calls' handles.
LEMMA StepState ==
    ASSUME Types, Lifecycle, StacksFit, NEW a \in Actors, Step(a)
    PROVE  /\ uses' = uses
           /\ \/ state' = state /\ ~Detach(a)
              \/ LET x == Top(a).node IN
                 /\ Detach(a) \/ Ready(a) \/ Free(a)
                 /\ x \in Nodes /\ \A m \in Nodes : m # x => state'[m] = state[m]
                 /\ Detach(a) => state[x] = "closing" /\ state'[x] = "detached"
                 /\ Ready(a) => state[x] = "init" /\ state'[x] = "live"
                 /\ Free(a) => state[x] = "detached" /\ state'[x] = "freed"
<1> DEFINE x == Top(a).node
<1>0. state \in [Nodes -> {"fresh", "init", "live", "closing", "detached", "freed"}]
  BY DEF Types
<1>1. CASE Detach(a)
  <2>1. /\ Head1(a, {"detach"}) /\ x \in Nodes /\ uses' = uses
        /\ state' = [state EXCEPT ![x] = "detached"]
    BY <1>1, WhatDetach
  <2>2. Top(a).op = "detach" /\ LifeFrameOK(a, Top(a))
    BY <2>1, LifeAlone DEF Head1, LifeOps
  <2>3. state[x] = "closing" /\ ~Ready(a) /\ ~Free(a)
    BY <2>2, HeadOf DEF LifeFrameOK
  <2>4. state'[x] = "detached" /\ \A m \in Nodes : m # x => state'[m] = state[m]
    BY <1>0, <2>1
  <2> QED
    BY <1>1, <2>1, <2>3, <2>4
<1>2. CASE Ready(a)
  <2>1. /\ Head1(a, {"ready", "free"}) /\ x \in Nodes /\ uses' = uses /\ Top(a).op = "ready"
        /\ state' = [state EXCEPT ![x] = "live"]
    BY <1>2, WhatReady, HeadOf
  <2>2. LifeFrameOK(a, Top(a))
    BY <2>1, LifeAlone DEF Head1, LifeOps
  <2>3. state[x] = "init" /\ ~Detach(a) /\ ~Free(a)
    BY <2>1, <2>2, HeadOf DEF LifeFrameOK
  <2>4. state'[x] = "live" /\ \A m \in Nodes : m # x => state'[m] = state[m]
    BY <1>0, <2>1
  <2> QED
    BY <1>2, <2>1, <2>3, <2>4
<1>3. CASE Free(a)
  <2>1. /\ Head1(a, {"ready", "free"}) /\ x \in Nodes /\ uses' = uses /\ Top(a).op = "free"
        /\ state' = [state EXCEPT ![x] = "freed"]
    BY <1>3, WhatReady, HeadOf
  <2>2. LifeFrameOK(a, Top(a))
    BY <2>1, LifeAlone DEF Head1, LifeOps
  <2>3. state[x] = "detached" /\ ~Detach(a) /\ ~Ready(a)
    BY <2>1, <2>2, HeadOf DEF LifeFrameOK
  <2>4. state'[x] = "freed" /\ \A m \in Nodes : m # x => state'[m] = state[m]
    BY <1>0, <2>1
  <2> QED
    BY <1>3, <2>1, <2>3, <2>4
<1>4. CASE Attach(a)
  <2>1. state' = state /\ uses' = uses /\ ~Detach(a)
    BY <1>4, WhatAttach, HeadOf
  <2> QED
    BY <2>1
<1>5. CASE ~Detach(a) /\ UNCHANGED <<state, parent, children, uses>>
  BY <1>5
<1> QED
  BY <1>1, <1>2, <1>3, <1>4, <1>5, StepTree

\* A life frame stays until its own actor executes it.
LEMMA LifeKept ==
    ASSUME Types, Lifecycle, StacksFit, Lifecycle', Types', NEW a \in Actors, Step(a),
           NEW b \in Actors, NEW f \in LifeIn(code[b]), b # a \/ Top(a).op \notin LifeOps
    PROVE  f \in LifeIn(code'[b])
<1>1. /\ code[b] \in Seq(Frame) /\ code'[b] \in Seq(Frame) /\ OnlyBottom(code'[b])
      /\ OnlyBottom(code[b])
  BY DEF Types, Lifecycle
<1> DEFINE l == Len(code[b])
<1>2. l \in 1..Len(code[b]) /\ f = code[b][l] /\ f.op \in LifeOps /\ code[b] # <<>>
  BY <1>1 DEF LifeIn
<1>3. b # a \/ l # 1
  <2> SUFFICES ASSUME b = a, l = 1 PROVE FALSE
    OBVIOUS
  <2>1. Top(a) = f
    BY <1>1, <1>2 DEF Top
  <2> QED
    BY <1>2, <2>1
<1>4. b # Top(a).node \/ ~ArmStarts(a)
  <2> SUFFICES ASSUME ArmStarts(a), b = Top(a).node PROVE FALSE
    OBVIOUS
  <2>1. b \in Nodes /\ b \notin Threads
    BY ArmStacks, NoneIsNoParent
  <2>2. FrameFits(b, code[b], l)
    BY <1>2 DEF StacksFit, StackFits
  <2> QED
    BY <1>2, <2>1, <2>2 DEF FrameFits, UserOps, LifeOps
<1>5. PICK i \in 1..Len(code'[b]) : code'[b][i] = code[b][l] /\ (b # a => i = l)
  <2>1. l \in 1..Len(code[b])
    BY <1>2
  <2> HIDE DEF l
  <2> QED
    BY <1>2, <1>3, <1>4, <2>1, FrameStays, SMTT(20), ZenonT(60)
<1> DEFINE st == code'[b]
<1>6. st \in Seq(Frame) /\ OnlyBottom(st) /\ i \in 1..Len(st) /\ st[i].op \in LifeOps /\ st[i] = f
  BY <1>1, <1>2, <1>5
<1> HIDE DEF st
<1>7. LifeIn(st) = {f}
  BY <1>6, LastLife
<1> QED
  BY <1>7 DEF st

\* The frames that follow the creating and destroying steps.
LEMMA LifeFollows ==
    ASSUME Types, Lifecycle, StacksFit, Types', NEW a \in Actors, Step(a),
           NEW f \in LifeIn(code[a]), Top(a).op \in LifeOps
    PROVE  \/ code'[a] = <<>>
           \/ f.op = "ready" /\ state'[f.node] = "live"
           \/ \E g \in LifeIn(code'[a]) : g.node = f.node
<1>1. code[a] # <<>> /\ code[a] \in Seq(Frame)
  BY DEF Types, LifeIn
<1>2. Len(code[a]) = 1 /\ code[a][1] = Top(a) /\ f = Top(a)
  BY <1>1, LifeAlone
<1> DEFINE x == Top(a).node
<1>3. ASSUME NEW fs \in Seq(Frame), Moves(a, fs), fs # <<>>, fs[Len(fs)].op \in LifeOps,
             fs[Len(fs)].node = x
      PROVE  \E g \in LifeIn(code'[a]) : g.node = x
  <2>1. /\ Len(fs) \in Nat \ {0} /\ Len(code'[a]) = Len(fs)
        /\ code'[a][Len(fs)] = fs[Len(fs)] /\ code'[a] # <<>>
    <3>1. /\ Len(fs) \in Nat /\ Len(code'[a]) = Len(fs) + Len(code[a]) - 1
          /\ \A i \in 1..Len(fs) : i \in 1..Len(code'[a]) /\ code'[a][i] = fs[i]
      BY <1>3, MovedFrames
    <3>2. Len(fs) # 0
      BY <1>3
    <3>3. Len(fs) \in 1..Len(fs) /\ Len(code'[a]) = Len(fs)
      BY <1>2, <3>1, <3>2
    <3> QED
      BY <3>1, <3>2, <3>3
  <2>2. LifeIn(code'[a]) = {fs[Len(fs)]}
    BY <1>3, <2>1 DEF LifeIn
  <2> QED
    BY <1>3, <2>2
<1>4. CASE Top(a).op = "attach"
  <2>1. CASE RequestExclusive(a)
    <3>1. code' = code
      BY <2>1 DEF RequestExclusive
    <3> QED
      BY <3>1
  <2>2. CASE Attach(a)
    <3> DEFINE e == F("err", Top(a).arg)
               h == F("adopt", x)
               fs == <<e, h>>
    <3>1. Moves(a, fs) /\ e \in Frame /\ h \in Frame
      BY <2>2, WhatAttach
    <3>2. h.op = "adopt" /\ h.node = x
      BY DEF F
    <3> HIDE DEF e, h
    <3>3. fs \in Seq(Frame) /\ fs # <<>> /\ Len(fs) = 2 /\ fs[2] = h
      BY <3>1
    <3> HIDE DEF fs
    <3>4. \E g \in LifeIn(code'[a]) : g.node = x
      BY <1>3, <3>1, <3>2, <3>3 DEF LifeOps
    <3> QED
      BY <1>2, <3>4
  <2> QED
    BY <1>4, <2>1, <2>2, HeadOnly
<1>5. CASE Top(a).op = "adopt"
  <2> DEFINE r == F("ready", x)
             s == Settle(x, reg[a])
             fs == s \o <<r>>
  <2>1. Adopt(a)
    BY <1>5, HeadOnly
  <2>2. Moves(a, fs) /\ x \in Nodes /\ reg[a] \in Causes \cup {None}
    BY <2>1, WhatAdopt
  <2>3. r \in Frame /\ s \in Seq(Frame) /\ r.op = "ready" /\ r.node = x
    BY <2>2, SettleFrames DEF F
  <2> HIDE DEF s, r
  <2>4. fs \in Seq(Frame) /\ fs # <<>> /\ fs[Len(fs)] = r
    BY <2>3
  <2> HIDE DEF fs
  <2>5. \E g \in LifeIn(code'[a]) : g.node = x
    BY <1>3, <2>2, <2>3, <2>4 DEF LifeOps
  <2> QED
    BY <1>2, <2>5
<1>6. CASE Top(a).op = "ready"
  <2>1. Ready(a)
    BY <1>6, HeadOnly
  <2>2. state'[x] = "live"
    <3>1. state' = [state EXCEPT ![x] = "live"] /\ x \in Nodes
      BY <1>6, <2>1, WhatReady
    <3> QED
      BY <3>1 DEF Types
  <2> QED
    BY <1>2, <1>6, <2>2
<1>7. CASE Top(a).op = "detach"
  <2>1. CASE RequestExclusive(a)
    <3>1. code' = code
      BY <2>1 DEF RequestExclusive
    <3> QED
      BY <3>1
  <2>2. CASE Detach(a)
    <3> DEFINE h == F("free", x)
               fs == <<h>>
    <3>1. Moves(a, fs) /\ h \in Frame
      BY <2>2, WhatDetach
    <3>2. h.op = "free" /\ h.node = x
      BY DEF F
    <3> HIDE DEF h
    <3>3. fs \in Seq(Frame) /\ fs # <<>> /\ Len(fs) = 1 /\ fs[1] = h
      BY <3>1
    <3> HIDE DEF fs
    <3>4. \E g \in LifeIn(code'[a]) : g.node = x
      BY <1>3, <3>1, <3>2, <3>3 DEF LifeOps
    <3> QED
      BY <1>2, <3>4
  <2> QED
    BY <1>7, <2>1, <2>2, HeadOnly
<1>8. CASE Top(a).op = "free"
  <2>1. Free(a)
    BY <1>8, HeadOnly
  <2>2. Moves(a, <<>>)
    BY <2>1, WhatReady
  <2>3. code'[a] = Tail(code[a])
    BY <2>2, PopWhat
  <2> DEFINE st == code[a]
  <2>4. st \in Seq(Frame) /\ Len(st) = 1 /\ st # <<>>
    BY <1>1, <1>2
  <2> HIDE DEF st
  <2>5. Tail(st) \in Seq(Frame) /\ Len(Tail(st)) = 0
    BY <2>4
  <2> DEFINE ta == Tail(st)
  <2> HIDE DEF ta
  <2>6. ta = <<>>
    BY <2>5, EmptySeq DEF ta
  <2> QED
    BY <2>3, <2>6 DEF st, ta
<1> QED
  BY <1>4, <1>5, <1>6, <1>7, <1>8 DEF LifeOps

\* A step keeps the nodes a running call uses live, but for the one it creates or ends.
LEMMA BorrowStep ==
    ASSUME Trees, Locks, Types', Lifecycle', Borrow, NEW a \in Actors, Step(a)
    PROVE  Borrow'
<1> SUFFICES ASSUME NEW t \in Threads, code'[t] # <<>>, NEW u \in uses'[t]
             PROVE  state'[u] = "live" \/ \E f \in LifeIn(code'[t]) : f.node = u
  BY DEF Borrow
<1>0. Types /\ Lifecycle /\ StacksFit
  BY DEF Trees
<1>1. uses' = uses
  BY <1>0, StepState
<1>2. t \in Actors /\ u \in Nodes /\ t \notin Nodes
  BY <1>0, <1>1, NoneIsNoParent DEF Actors, Types
<1>3. code[t] # <<>>
  <2> SUFFICES ASSUME code[t] = <<>> PROVE FALSE
    OBVIOUS
  <2>1. ArmStarts(a) /\ t = Top(a).node
    BY <1>0, <1>2, EmptyFilled
  <2> QED
    BY <1>2, <2>1 DEF ArmStarts
<1>4. CASE state[u] = "live"
  BY <1>0, <1>2, <1>4, StepState
<1>5. ASSUME NEW f \in LifeIn(code[t]), f.node = u
      PROVE  state'[u] = "live" \/ \E g \in LifeIn(code'[t]) : g.node = u
  <2>1. CASE t # a \/ Top(a).op \notin LifeOps
    BY <1>0, <1>2, <1>5, <2>1, LifeKept
  <2>2. CASE t = a /\ Top(a).op \in LifeOps
    BY <1>0, <1>5, <2>2, LifeFollows
  <2> QED
    BY <2>1, <2>2
<1> QED
  BY <1>1, <1>3, <1>4, <1>5 DEF Borrow

\* So does a call.
LEMMA BorrowCall ==
    ASSUME Trees, Borrow, NEW t \in Threads, Call(t)
    PROVE  Borrow'
<1>0. Types /\ Lifecycle /\ StacksFit
  BY DEF Trees
<1>1. PICK n \in Nodes, fs \in Seq(Frame) : Starts(t, n, fs)
  BY <1>0, CallStarts
<1>2. /\ t \in Actors /\ code'[t] = fs /\ \A b \in Actors : b # t => code'[b] = code[b]
      /\ code[t] = <<>>
  BY <1>0, <1>1, StartLife
<1>3. /\ uses \in [Threads -> SUBSET Nodes]
      /\ state \in [Nodes -> {"fresh", "init", "live", "closing", "detached", "freed"}]
  BY <1>0 DEF Types
<1>4. \A v \in Threads : v # t => uses'[v] = uses[v]
  BY <1>1, <1>3 DEF Starts, Makes, Borrows, Queries, Destroys
<1>5. \A m \in Nodes : m # n => state'[m] = state[m]
  BY <1>1, <1>3 DEF Starts, Makes, Borrows, Queries, Destroys
<1> SUFFICES ASSUME NEW v \in Threads, code'[v] # <<>>, NEW u \in uses'[v]
             PROVE  state'[u] = "live" \/ \E f \in LifeIn(code'[v]) : f.node = u
  BY DEF Borrow
<1>6. CASE v # t
  <2>1. code'[v] = code[v] /\ u \in uses[v] /\ u \in Nodes
    BY <1>2, <1>3, <1>4, <1>6 DEF Actors
  <2>2. CASE state[u] = "live"
    <3>1. CASE u # n
      BY <1>5, <2>1, <2>2, <3>1
    <3>2. CASE u = n
      <4>1. ~Makes(t, n, fs)
        BY <2>2, <3>2 DEF Makes
      <4>2. ~Destroys(t, n, fs)
        BY <2>1, <3>2 DEF Destroys, UsedBy, Idle
      <4>3. state' = state
        BY <1>1, <4>1, <4>2 DEF Starts, Borrows, Queries
      <4> QED
        BY <2>2, <4>3
    <3> QED
      BY <3>1, <3>2
  <2> QED
    BY <2>1, <2>2 DEF Borrow
<1>7. CASE v = t
  <2>1. CASE Makes(t, n, fs)
    <3>1. PICK p \in Parents : /\ p \in Nodes => state[p] = "live"
                               /\ fs = <<FA("attach", n, p)>>
                               /\ uses' = [uses EXCEPT ![t] = {n, p} \cap Nodes]
      BY <2>1 DEF Makes
    <3>2. u \in {n, p} /\ u \in Nodes
      BY <1>3, <1>7, <3>1
    <3>3. CASE u = n
      <4> DEFINE f == FA("attach", n, p)
      <4>1. f.op = "attach" /\ f.node = n
        BY DEF FA
      <4> HIDE DEF f
      <4>2. Len(<<f>>) = 1 /\ <<f>>[1] = f /\ <<f>> # <<>>
        OBVIOUS
      <4>3. LifeIn(fs) = {f}
        BY <3>1, <4>1, <4>2 DEF LifeIn, LifeOps, f
      <4> QED
        BY <1>2, <1>7, <3>3, <4>1, <4>3
    <3>4. CASE u # n
      <4>1. state[u] = "live"
        BY <3>1, <3>2, <3>4
      <4> QED
        BY <1>5, <3>2, <3>4, <4>1
    <3> QED
      BY <3>3, <3>4
  <2>2. CASE Destroys(t, n, fs)
    <3>1. uses' = [uses EXCEPT ![t] = {n}] /\ LifeIn(fs) = {F("detach", n)}
      BY <2>2 DEF Destroys
    <3>2. u = n
      BY <1>3, <1>7, <3>1
    <3> DEFINE g == F("detach", n)
    <3>3. g.node = n
      BY DEF F
    <3>4. LifeIn(code'[v]) = {g}
      BY <1>2, <1>7, <3>1
    <3> HIDE DEF g
    <3> QED
      BY <3>2, <3>3, <3>4
  <2>3. CASE Borrows(t, n, fs) \/ Queries(t, n, fs)
    <3>1. uses' = [uses EXCEPT ![t] = {n}] /\ state' = state /\ state[n] = "live"
      BY <2>3 DEF Borrows, Queries
    <3>2. u = n
      BY <1>3, <1>7, <3>1
    <3> QED
      BY <3>1, <3>2
  <2> QED
    BY <1>1, <2>1, <2>2, <2>3 DEF Starts
<1> QED
  BY <1>6, <1>7

-----------------------------------------------------------------------------
\* Only a call makes a thread start to ask.
LEMMA AskingStep ==
    ASSUME Types, Lifecycle, StacksFit, NEW a \in Actors, Step(a), NEW t \in Threads,
           Types', Asking(t)'
    PROVE  Asking(t)
<1>1. t \in Actors /\ code[t] \in Seq(Frame) /\ code'[t] \in Seq(Frame)
  BY DEF Types, Actors
<1>2. PICK i \in 1..Len(code'[t]) : code'[t][i].op \in AskOps
  BY <1>1 DEF Asking
<1> DEFINE f == code'[t][i]
<1>3. CASE OldFrame(t, f)
  BY <1>1, <1>2, <1>3 DEF OldFrame, Asking
<1>4. CASE t = a /\ NewFrame(a, f, i)
  <2>1. Top(a).op \in AskOps
    <3>1. f.op \in PushOps /\ f.op \in AskOps
      BY <1>2, <1>4 DEF NewFrame
    <3>2. f.op \in {"err", "inherit", "adopt"}
      BY <3>1 DEF PushOps, AskOps, FreeOps, TimerOps
    <3>3. Top(a).op \in {"err", "attach"}
      BY <1>4, <3>2 DEF NewFrame
    <3> QED
      BY <3>3 DEF AskOps
  <2>2. code[a] # <<>>
    BY <1>1, <1>2, <1>4, EmptyFilled, NoneIsNoParent DEF ArmStarts
  <2>3. Top(a) = code[a][1] /\ 1 \in DOMAIN code[a]
    <3> DEFINE st == code[a]
    <3>1. st \in Seq(Frame) /\ st # <<>> /\ Top(a) = Head(st)
      BY <1>1, <1>4, <2>2 DEF Top
    <3> HIDE DEF st
    <3>2. Head(st) = st[1] /\ 1 \in DOMAIN st
      BY <3>1
    <3> QED
      BY <3>1, <3>2 DEF st
  <2> QED
    BY <1>4, <2>1, <2>3 DEF Asking
<1>5. CASE TaskFrame(a, t, f)
  BY <1>2, <1>5 DEF TaskFrame, F, AskOps
<1> QED
  BY <1>1, <1>3, <1>4, <1>5, FrameFrom

\* A frame of err() makes its thread one that asks.
LEMMA AskFrame ==
    ASSUME Types, NEW t \in Threads, NEW i \in 1..Len(code[t]), code[t][i].op \in AskOps
    PROVE  Asking(t) /\ code[t] # <<>>
<1>1. code[t] \in Seq(Frame)
  BY DEF Types, Actors
<1> QED
  BY <1>1 DEF Asking

\* A step keeps the nodes a query may reach from being freed.
LEMMA AskSafeStep ==
    ASSUME Trees, Locks, Types', Borrow, AskSafe, NEW a \in Actors, Step(a)
    PROVE  AskSafe'
<1>0. Types /\ Lifecycle /\ StacksFit /\ Rooted
  BY DEF Trees, Locks
<1> SUFFICES ASSUME NEW t \in Threads, Asking(t)', NEW u \in uses'[t], NEW m \in UpFrom(u)'
             PROVE  state'[m] \in {"init", "live"}
  BY DEF AskSafe
<1>1. Asking(t)
  BY <1>0, AskingStep
<1>2. u \in uses[t] /\ u \in Nodes /\ t \in Actors
  BY <1>0, StepState DEF Types, Actors
<1>3. m \in Nodes
  BY <1>2, UpFactsNext
<1>4. ASSUME state[m] \in {"init", "live"} PROVE state'[m] \in {"init", "live"}
  BY <1>0, <1>3, <1>4, StepState
<1>5. CASE m \in UpFrom(u)
  BY <1>1, <1>2, <1>4, <1>5 DEF AskSafe
<1>6. CASE Attach(a) /\ m \notin UpFrom(u)
  <2> DEFINE x == Top(a).node
             p == Top(a).arg
  <2>1. /\ u # x => UpFrom(u)' \subseteq UpFrom(u)
        /\ u = x => UpFrom(u)' \subseteq {x} \cup UpFrom(p)
        /\ x \in Nodes /\ state[x] = "init"
    BY <1>2, <1>6, AttachUp
  <2>2. u = x
    BY <1>6, <2>1
  <2>3. m = x \/ m \in UpFrom(p)
    BY <2>1, <2>2
  <2>4. /\ Head1(a, {"attach"}) /\ Top(a).op = "attach" /\ LifeIn(code[a]) = {Top(a)}
        /\ LifeFrameOK(a, Top(a)) /\ code[a] # <<>> /\ p \in Parents
    <3>1. Head1(a, {"attach"}) /\ Top(a).op = "attach" /\ code[a] # <<>> /\ p \in Parents
      BY <1>0, <1>6, WhatAttach DEF Head1
    <3> QED
      BY <1>0, <3>1, LifeAlone DEF LifeOps
  <2>5. t = a
    <3>1. code[t] # <<>>
      BY <1>1, <1>2 DEF Asking
    <3>2. state[u] # "live"
      BY <2>1, <2>2
    <3>3. PICK f \in LifeIn(code[t]) : f.node = u
      BY <1>2, <3>1, <3>2 DEF Borrow
    <3>4. Top(a) \in LifeIn(code[a])
      BY <2>4
    <3> QED
      BY <1>0, <1>2, <2>2, <3>3, <3>4 DEF Lifecycle
  <2>6. CASE m \in UpFrom(p)
    <3>1. p \in Nodes
      BY <2>6, UpNothing
    <3>2. p \in uses[a]
      BY <2>4, <3>1 DEF LifeFrameOK
    <3>3. state[m] \in {"init", "live"}
      BY <1>1, <2>5, <2>6, <3>2 DEF AskSafe
    <3> QED
      BY <1>4, <3>3
  <2> QED
    BY <1>4, <2>1, <2>3, <2>6
<1>7. CASE Detach(a)
  <2>1. UpFrom(u)' \subseteq UpFrom(u)
    BY <1>0, <1>2, <1>7, DetachUp
  <2> QED
    BY <1>5, <2>1
<1>8. CASE ~Attach(a) /\ ~Detach(a)
  <2>1. parent' = parent
    <3>1. Ready(a) \/ Free(a) => parent' = parent
      BY <1>0, WhatReady
    <3> QED
      BY <1>0, <1>8, <3>1, StepTree
  <2>2. UpFrom(u)' = UpFrom(u)
    BY <2>1, UpSame
  <2> QED
    BY <1>5, <2>2
<1> QED
  BY <1>5, <1>6, <1>7, <1>8

\* So does a call, when the clients keep err() and a deinit above it apart.
LEMMA AskSafeCall ==
    ASSUME Trees, AskSafe, ErrDuringDeinit = FALSE, Types', NEW t \in Threads, Call(t)
    PROVE  AskSafe'
<1>0. Types /\ Lifecycle /\ StacksFit
  BY DEF Trees
<1>1. PICK n \in Nodes, fs \in Seq(Frame) : Starts(t, n, fs)
  BY <1>0, CallStarts
<1>2. /\ t \in Actors /\ code'[t] = fs /\ \A b \in Actors : b # t => code'[b] = code[b]
      /\ code[t] = <<>> /\ parent' = parent
  BY <1>0, <1>1, StartLife, CallStarts
<1>3. /\ uses \in [Threads -> SUBSET Nodes]
      /\ state \in [Nodes -> {"fresh", "init", "live", "closing", "detached", "freed"}]
  BY <1>0 DEF Types
<1>4. \A v \in Threads : v # t => uses'[v] = uses[v]
  BY <1>1, <1>3 DEF Starts, Makes, Borrows, Queries, Destroys
<1>5. \A m \in Nodes : m # n => state'[m] = state[m]
  BY <1>1, <1>3 DEF Starts, Makes, Borrows, Queries, Destroys
<1> SUFFICES ASSUME NEW v \in Threads, Asking(v)', NEW u \in uses'[v], NEW m \in UpFrom(u)'
             PROVE  state'[m] \in {"init", "live"}
  BY DEF AskSafe
<1>6. m \in UpFrom(u) /\ m \in Nodes
  BY <1>2, UpSame, UpNodes
<1>7. \A k \in Nodes : state[k] \in {"init", "live"} /\ ~Destroys(t, n, fs)
                           => state'[k] \in {"init", "live"}
  <2> SUFFICES ASSUME NEW k \in Nodes, state[k] \in {"init", "live"}, ~Destroys(t, n, fs)
               PROVE  state'[k] \in {"init", "live"}
    OBVIOUS
  <2>1. CASE k # n
    BY <1>5, <2>1
  <2>2. CASE k = n
    <3>1. Makes(t, n, fs) => state'[k] = "init"
      BY <1>3, <2>2 DEF Makes
    <3>2. Borrows(t, n, fs) \/ Queries(t, n, fs) => state' = state
      BY DEF Borrows, Queries
    <3> QED
      BY <1>1, <3>1, <3>2 DEF Starts
  <2> QED
    BY <2>1, <2>2
<1>8. CASE v # t
  <2>1. Asking(v) /\ u \in uses[v] /\ code[v] # <<>> /\ v \in Actors
    <3>1. v \in Actors
      BY DEF Actors
    <3>2. code'[v] = code[v]
      BY <1>2, <1>8, <3>1
    <3> QED
      BY <1>4, <1>8, <3>1, <3>2 DEF Asking
  <2>2. state[m] \in {"init", "live"}
    BY <1>6, <2>1 DEF AskSafe
  <2>3. CASE Destroys(t, n, fs)
    <3>1. UsedBy(v) \cap Below(n) = {}
      BY <2>1, <2>3 DEF Destroys, MayDestroy
    <3>2. u \in UsedBy(v) /\ u \in Nodes
      BY <1>3, <2>1 DEF UsedBy, Idle
    <3>3. n \notin UpFrom(u)
      BY <3>1, <3>2 DEF Below
    <3> QED
      BY <1>5, <1>6, <2>2, <3>3
  <2> QED
    BY <1>6, <1>7, <2>2, <2>3
<1>9. CASE v = t
  <2>1. PICK i \in DOMAIN fs : fs[i].op \in AskOps
    BY <1>2, <1>9 DEF Asking
  <2>2. i \in 1..Len(fs)
    BY <2>1
  <2>3. ~Borrows(t, n, fs) /\ ~Destroys(t, n, fs)
    BY <2>1, <2>2 DEF Borrows, Destroys
  <2>4. CASE Queries(t, n, fs)
    <3>1. u = n
      BY <1>3, <1>9, <2>4 DEF Queries
    <3>2. state[m] \in {"live", "init"}
      BY <1>6, <2>4, <3>1 DEF Queries, MayAsk
    <3> QED
      BY <1>6, <1>7, <2>3, <3>2
  <2>5. CASE Makes(t, n, fs)
    <3>1. PICK p \in Parents : /\ MayAsk(p)
                               /\ uses' = [uses EXCEPT ![t] = {n, p} \cap Nodes]
      BY <2>5 DEF Makes
    <3>2. u \in {n, p}
      BY <1>3, <1>9, <3>1
    <3>3. CASE m = n
      BY <1>3, <2>5, <3>3 DEF Makes
    <3>4. CASE m # n
      <4>1. parent[n] = None
        <5>1. state[n] = "fresh"
          BY <2>5 DEF Makes
        <5> QED
          BY <5>1 DEF Trees, TreeWellFormed, OutsideTree
      <4>2. UpFrom(n) \subseteq {n}
        <5>1. ClosedUp({n}) /\ {n} \in SUBSET Nodes
          BY <4>1, NoneIsNoParent DEF ClosedUp, Parents
        <5> QED
          BY <5>1, UpLeast
      <4>3. m \in UpFrom(p)
        BY <1>6, <3>2, <3>4, <4>2
      <4>4. state[m] \in {"live", "init"}
        BY <3>1, <4>3 DEF MayAsk
      <4> QED
        BY <1>6, <1>7, <2>3, <4>4
    <3> QED
      BY <3>3, <3>4
  <2> QED
    BY <1>1, <2>3, <2>4, <2>5 DEF Starts
<1> QED
  BY <1>8, <1>9

(***************************************************************************)
(* What keeps the node of a frame there while the frame waits.             *)
(***************************************************************************)
Borrowed(a, f) == a \in Threads /\ f.node \in uses[a]
Own(a, f)      == a \in Nodes /\ f.node = a
InTree(a, i)   == /\ code[a][i].op \in FreeOps
                  /\ code[a][i].node \in Nodes /\ parent[code[a][i].node] # None
                  /\ Covered(code[a], i)
OnChain(a, m)  == m = Root \/ \E u \in uses[a] : m \in UpFrom(u)
Upward(a, i)   == /\ a \in Threads /\ OnChain(a, code[a][i].node)
                  /\ \E j \in 1..Len(code[a]) : j > i /\ code[a][j].op \in {"inherit", "adopt"}
HeldAt(a, i)   == \/ Borrowed(a, code[a][i]) \/ Own(a, code[a][i])
                  \/ InTree(a, i) \/ Upward(a, i)
Held           == \A a \in Actors : \A i \in 1..Len(code[a]) : HeldAt(a, i)

\* A walk that is covered holds off the steps that take a node out of the tree.
LEMMA CoveredHolds ==
    ASSUME Types, LocksRight, NEW b \in Actors, NEW k \in 1..Len(code[b]), Covered(code[b], k)
    PROVE  ~CanExclude
<1> DEFINE st == code[b]
<1>1. st \in Seq(Frame) /\ shares[b] = Cardinality(Paid(st)) /\ Covered(st, k)
  BY DEF Types, LocksRight
<1> HIDE DEF st
<1>2. Paid(st) # {} /\ Paid(st) \in SUBSET (1..Len(st)) /\ Len(st) \in Nat
  BY <1>1 DEF Covered, Paid
<1>3. IsFiniteSet(Paid(st))
  <2>1. IsFiniteSet(1..Len(st))
    BY <1>2, FS_Interval
  <2> QED
    BY <1>2, <2>1, FS_Subset
<1>4. Cardinality(Paid(st)) # 0
  BY <1>2, <1>3, FS_EmptySet
<1> QED
  BY <1>1, <1>4 DEF CanExclude

\* The chain above a handle stays while err() is under way.
LEMMA ChainKept ==
    ASSUME Trees, Locks, AskSafe, NEW a \in Actors, Step(a), NEW t \in Threads,
           Asking(t), NEW m, OnChain(t, m)
    PROVE  OnChain(t, m)'
<1>0. Types /\ Lifecycle /\ StacksFit /\ Rooted
  BY DEF Trees, Locks
<1>1. uses' = uses /\ uses[t] \subseteq Nodes
  BY <1>0, StepState DEF Types
<1> SUFFICES ASSUME NEW u \in uses[t], m \in UpFrom(u) PROVE m \in UpFrom(u)'
  BY <1>1 DEF OnChain
<1>2. u \in Nodes
  BY <1>1
<1>3. CASE Attach(a)
  BY <1>2, <1>3, AttachUp
<1>4. CASE Detach(a)
  <2> DEFINE x == Top(a).node
  <2>1. state[x] = "closing"
    BY <1>0, <1>4, DetachParents
  <2>2. x \notin UpFrom(u)
    BY <2>1 DEF AskSafe
  <2>3. u # x
    BY <1>2, <2>2, UpItself
  <2> QED
    BY <1>0, <1>2, <1>4, <2>2, <2>3, DetachUp
<1>5. CASE ~Attach(a) /\ ~Detach(a)
  <2>1. parent' = parent
    <3>1. Ready(a) \/ Free(a) => parent' = parent
      BY <1>0, WhatReady
    <3> QED
      BY <1>0, <1>5, <3>1, StepTree
  <2> QED
    BY <2>1, UpSame
<1> QED
  BY <1>3, <1>4, <1>5

\* Nobody takes a node out of the tree while code that holds the lock is under
\* way.
LEMMA TreeKept ==
    ASSUME Types, Lifecycle, StacksFit, Rooted, LocksRight, NEW a \in Actors, Step(a),
           NEW b \in Actors, NEW k \in 1..Len(code[b]), Covered(code[b], k),
           NEW m \in Nodes, parent[m] # None
    PROVE  parent'[m] # None
<1>1. ~CanExclude
  BY CoveredHolds
<1>2. ~Attach(a) /\ ~Detach(a)
  BY <1>1, WhatAttach, WhatDetach
<1>3. Ready(a) \/ Free(a) => parent' = parent
  BY WhatReady
<1>4. parent' = parent
  BY <1>2, <1>3, StepTree
<1> QED
  BY <1>4

-----------------------------------------------------------------------------
\* err() goes up with the node that will keep the answer right below it.
LEMMA ErrPushed ==
    ASSUME Types, StacksFit, NEW a \in Actors, Step(a),
           1 \in 1..Len(code'[a]), code'[a][1].op = "err", Top(a).op \in {"err", "attach"},
           code[a] # <<>>
    PROVE  code'[a] = code[a] \/
           \E j \in 1..Len(code'[a]) : j > 1 /\ code'[a][j].op \in {"inherit", "adopt"}
<1>1. ASSUME NEW e \in Frame, NEW h \in Frame, Moves(a, <<e, h>>), h.op \in {"inherit", "adopt"}
      PROVE  \E j \in 1..Len(code'[a]) : j > 1 /\ code'[a][j].op \in {"inherit", "adopt"}
  <2> DEFINE fs == <<e, h>>
  <2>1. fs \in Seq(Frame) /\ Len(fs) = 2 /\ fs[2] = h /\ Moves(a, fs)
    BY <1>1
  <2> HIDE DEF fs
  <2>2. 2 \in 1..Len(fs)
    BY <2>1
  <2>3. 2 \in 1..Len(code'[a]) /\ code'[a][2] = h
    BY <2>1, <2>2, MovedFrames
  <2> QED
    BY <1>1, <2>3
<1>2. CASE Attach(a)
  <2> DEFINE e == F("err", Top(a).arg)
             h == F("adopt", Top(a).node)
  <2>1. e \in Frame /\ h \in Frame /\ Moves(a, <<e, h>>)
    BY <1>2, WhatAttach
  <2>2. h.op = "adopt"
    BY DEF F
  <2> HIDE DEF e, h
  <2> QED
    BY <1>1, <2>1, <2>2
<1>3. CASE RequestExclusive(a)
  BY <1>3 DEF RequestExclusive
<1>4. CASE Err(a)
  <2> DEFINE n == Top(a).node
  <2>1. CASE Moves(a, <<>>)
    <3>1. 2 \in 2..Len(code[a]) /\ code'[a][1] = code[a][2]
      BY <2>1, PopWhat, PopFrames
    <3>2. FrameFits(a, code[a], 2)
      BY <3>1 DEF StacksFit, StackFits
    <3> QED
      BY <3>1, <3>2 DEF FrameFits
  <2>2. CASE /\ Moves(a, <<F("err", parent[n]), F("inherit", n)>>)
             /\ F("err", parent[n]) \in Frame /\ F("inherit", n) \in Frame
    <3> DEFINE e == F("err", parent[n])
               h == F("inherit", n)
    <3>1. e \in Frame /\ h \in Frame /\ Moves(a, <<e, h>>)
      BY <2>2
    <3>2. h.op = "inherit"
      BY DEF F
    <3> HIDE DEF e, h
    <3> QED
      BY <1>1, <3>1, <3>2
  <2>3. CASE n \in Nodes /\ Moves(a, MarkCanceled(n, DeadlineExceeded))
    <3> DEFINE fs == MarkCanceled(n, DeadlineExceeded)
    <3>1. /\ OnNode(fs, n, {"share", "mark", "unshare"}) /\ fs \in Seq(Frame)
          /\ \E i \in 1..Len(fs) : fs[i].op = "mark"
      BY <2>3, HeldBalanced, WalkFrames DEF Causes
    <3> HIDE DEF fs
    <3>2. 1 \in 1..Len(fs)
      BY <3>1
    <3>3. code'[a][1] = fs[1]
      BY <2>3, <3>1, <3>2, MovedFrames DEF fs
    <3> QED
      BY <3>1, <3>2, <3>3 DEF OnNode
  <2> QED
    BY <1>4, <2>1, <2>2, <2>3, WhatErr
<1> QED
  BY <1>2, <1>3, <1>4, HeadOnly

\* A kept frame's node stays held.
LEMMA KeepHeld ==
    ASSUME Trees, Locks, AskSafe, Held, NEW a \in Actors, Step(a), NEW b \in Actors,
           NEW i \in 1..Len(code'[b]), NEW k \in 1..Len(code[b]), Kept(b, i, k)
    PROVE  HeldAt(b, i)'
<1>0. Types /\ Lifecycle /\ StacksFit /\ Rooted /\ LocksRight
  BY DEF Trees, Locks
<1>1. code'[b][i] = code[b][k] /\ uses' = uses
  BY <1>0, StepState DEF Kept
<1>2. HeldAt(b, k)
  BY DEF Held
<1>3. CASE Borrowed(b, code[b][k]) \/ Own(b, code[b][k])
  BY <1>1, <1>3 DEF HeldAt, Borrowed, Own
<1>4. CASE InTree(b, k)
  <2>1. Covered(code'[b], i) /\ Covered(code[b], k)
    BY <1>4 DEF InTree, Kept
  <2>2. parent'[code[b][k].node] # None
    BY <1>0, <1>4, <2>1, TreeKept DEF InTree
  <2>3. InTree(b, i)'
    BY <1>1, <1>4, <2>1, <2>2 DEF InTree, Covered, Paid
  <2> QED
    BY <2>3 DEF HeldAt
<1>5. CASE Upward(b, k)
  <2>1. b \in Threads /\ OnChain(b, code[b][k].node)
    BY <1>5 DEF Upward
  <2>2. PICK j \in 1..Len(code[b]) : j > k /\ code[b][j].op \in {"inherit", "adopt"}
    BY <1>5 DEF Upward
  <2>3. Asking(b)
    BY <1>0, <2>1, <2>2, AskFrame DEF AskOps
  <2>0. PICK m : m = code[b][k].node
    OBVIOUS
  <2>4. OnChain(b, m)'
    BY <2>0, <2>1, <2>3, ChainKept
  <2>5. PICK l \in 1..Len(code'[b]) : l > i /\ code'[b][l] = code[b][j]
    BY <2>2 DEF Kept
  <2>6. code'[b][i].node = m
    BY <1>1, <2>0
  <2>7. OnChain(b, code[b][i].node)'
    BY <2>4, <2>6 DEF OnChain
  <2>8. Upward(b, i)'
    BY <2>1, <2>2, <2>5, <2>7 DEF Upward
  <2> QED
    BY <2>8 DEF HeldAt
<1> QED
  BY <1>2, <1>3, <1>4, <1>5 DEF HeldAt

\* A pushed frame's node is held.
LEMMA NewHeld ==
    ASSUME Trees, Locks, AskSafe, Held, NEW a \in Actors, Step(a),
           NEW i \in 1..Len(code'[a]), NewAt(a, i), code[a] # <<>>
    PROVE  HeldAt(a, i)' \/ code'[a] = code[a]
<1>0. Types /\ Lifecycle /\ StacksFit /\ Rooted /\ LocksRight /\ TodoHeld /\ LinksAgree
  BY DEF Trees, Locks, TreeWellFormed
<1> DEFINE f == code'[a][i]
           h == Top(a)
<1>1. /\ NewFrame(a, f, i) /\ (Covered(code[a], 1) => Covered(code'[a], i))
      /\ \A j \in 2..Len(code[a]) : \E l \in 1..Len(code'[a]) : l > i /\ code'[a][l] = code[a][j]
      /\ uses' = uses
  BY <1>0, StepState DEF NewAt
<1>2. 1 \in 1..Len(code[a]) /\ h = code[a][1] /\ HeldAt(a, 1) /\ code[a] \in Seq(Frame)
  <2> DEFINE st == code[a]
  <2>1. st \in Seq(Frame) /\ st # <<>> /\ h = Head(st)
    BY <1>0 DEF Types, Top
  <2> HIDE DEF st, h
  <2>2. 1 \in 1..Len(st) /\ h = st[1]
    BY <2>1
  <2> QED
    BY <2>1, <2>2 DEF Held, st
<1>3. h \in Frame
  BY <1>2
<1> HIDE DEF h
\* the frame is about the node of the head
<1>4. ASSUME f.op # "err", f.node = h.node
      PROVE  HeldAt(a, i)'
  <2>1. CASE Borrowed(a, h) \/ Own(a, h)
    BY <1>1, <1>4, <2>1 DEF HeldAt, Borrowed, Own
  <2>2. CASE InTree(a, 1)
    <3>1. /\ h.op \in FreeOps /\ h.node \in Nodes /\ parent[h.node] # None
          /\ Covered(code[a], 1) /\ Covered(code'[a], i)
      BY <1>1, <1>2, <2>2 DEF InTree
    <3>2. f.op \in FreeOps
      <4>1. f.op \in PushOps /\ h.op \notin TimerOps \cup {"err", "attach", "adopt", "detach"}
        BY <1>1, <3>1 DEF NewFrame, FreeOps, TimerOps
      <4>2. f.op \notin TimerOps
        BY <1>1, <4>1 DEF NewFrame, h
      <4>3. f.op \notin {"inherit", "adopt", "arm", "ready", "free"}
        BY <1>1, <4>1 DEF NewFrame, h
      <4> QED
        BY <1>4, <4>1, <4>2, <4>3 DEF PushOps
    <3>3. parent'[h.node] # None
      BY <1>0, <1>2, <3>1, TreeKept
    <3>4. InTree(a, i)'
      BY <1>4, <3>1, <3>2, <3>3 DEF InTree, Covered, Paid
    <3> QED
      BY <3>4 DEF HeldAt
  <2>3. CASE Upward(a, 1)
    <3>1. a \in Threads /\ OnChain(a, h.node)
      BY <1>2, <2>3 DEF Upward
    <3>2. PICK j \in 1..Len(code[a]) : j > 1 /\ code[a][j].op \in {"inherit", "adopt"}
      BY <2>3 DEF Upward
    <3>3. Asking(a)
      BY <1>0, <3>1, <3>2, AskFrame DEF AskOps
    <3>0. PICK m : m = h.node
      OBVIOUS
    <3>4. OnChain(a, m)'
      BY <3>0, <3>1, <3>3, ChainKept
    <3>5. j \in 2..Len(code[a])
      BY <3>2
    <3>6. PICK l \in 1..Len(code'[a]) : l > i /\ code'[a][l] = code[a][j]
      BY <1>1, <3>5
    <3>7. OnChain(a, code[a][i].node)'
      BY <1>4, <3>0, <3>4 DEF OnChain
    <3>8. Upward(a, i)'
      BY <3>1, <3>2, <3>6, <3>7 DEF Upward
    <3> QED
      BY <3>8 DEF HeldAt
  <2> QED
    BY <1>2, <2>1, <2>2, <2>3 DEF HeldAt
\* the frame is about a child that the walk comes to
<1>5. ASSUME h.op = "kids", f.node \in h.todo, f.op \in FreeOps
      PROVE  HeldAt(a, i)'
  <2>1. h.todo \subseteq children[h.node] /\ h.node \in Nodes /\ h.todo \subseteq Nodes
    <3>1. h.todo \subseteq children[h.node]
      BY <1>0, <1>2, <1>5 DEF TodoHeld
    <3>2. h.node \in Nodes /\ h.todo \subseteq Nodes
      BY <1>3, <1>5 DEF Frame, PlainOps
    <3> QED
      BY <3>1, <3>2
  <2>2. f.node \in Nodes /\ parent[f.node] # None
    BY <1>0, <1>5, <2>1, NoneIsNoParent DEF LinksAgree, Parents
  <2>3. Covered(code[a], 1)
    <3> DEFINE st == code[a]
    <3>1. Guarded(st) /\ Walking(st[1]) /\ 1 \in 1..Len(st)
      BY <1>0, <1>2, <1>5 DEF LocksRight, Walking
    <3> HIDE DEF st
    <3>2. ~ \E k \in 1..Len(st) : k + 1 = 1 /\ st[k].op = "share"
      OBVIOUS
    <3>3. Covered(st, 1)
      BY <3>1, <3>2 DEF Guarded
    <3> QED
      BY <3>3 DEF st
  <2>4. parent'[f.node] # None
    BY <1>0, <1>2, <2>2, <2>3, TreeKept
  <2>5. InTree(a, i)'
    BY <1>1, <1>5, <2>2, <2>3, <2>4 DEF InTree, Covered, Paid
  <2> QED
    BY <2>5 DEF HeldAt
\* the frame asks the parent
<1>6. ASSUME f.op = "err", code'[a] # code[a]
      PROVE  HeldAt(a, i)'
  <2>1. /\ i = 1 /\ h.op \in {"err", "attach"}
        /\ \/ /\ h.op = "err" /\ h.node \in Nodes
              /\ f.node = parent[h.node] /\ f.node \in Parents
           \/ h.op = "attach" /\ f.node = h.arg
    BY <1>1, <1>6 DEF NewFrame, h
  <2>2. a \in Threads /\ a \notin Nodes /\ Asking(a)
    <3>1. FrameFits(a, code[a], 1)
      BY <1>0, <1>2 DEF StacksFit, StackFits
    <3>2. a \in Threads
      BY <1>2, <2>1, <3>1 DEF FrameFits, UserOps
    <3> QED
      BY <1>0, <1>2, <2>1, <3>2, AskFrame, NoneIsNoParent DEF AskOps
  <2>0. PICK m : m = f.node
    OBVIOUS
  <2>3. OnChain(a, m)
    <3>1. CASE h.op = "err" /\ h.node \in Nodes /\ m = parent[h.node] /\ m \in Parents
      <4>1. ASSUME NEW u \in uses[a], h.node \in UpFrom(u) PROVE OnChain(a, m)
        BY <3>1, <4>1, UpParent DEF ClosedUp, OnChain, Parents
      <4>2. CASE Borrowed(a, h)
        BY <3>1, <4>1, <4>2, UpItself DEF Borrowed
      <4>3. CASE Upward(a, 1)
        BY <1>2, <3>1, <4>1, <4>3, NoneIsNoParent DEF Upward, OnChain
      <4>4. ~Own(a, h) /\ ~InTree(a, 1)
        BY <1>2, <2>2, <3>1 DEF Own, InTree, FreeOps
      <4> QED
        BY <1>2, <4>2, <4>3, <4>4 DEF HeldAt
    <3>2. CASE h.op = "attach" /\ m = h.arg
      <4>1. LifeFrameOK(a, h)
        BY <1>0, <3>2, LifeAlone DEF LifeOps, h
      <4>2. h.arg \in Parents
        BY <1>3, <3>2 DEF Frame, PlainOps
      <4>3. m \in Nodes => m \in uses[a]
        BY <3>2, <4>1 DEF LifeFrameOK
      <4> QED
        BY <3>2, <4>2, <4>3, UpItself DEF OnChain, Parents
    <3> QED
      BY <2>0, <2>1, <3>1, <3>2
  <2>4. OnChain(a, m)'
    BY <2>2, <2>3, ChainKept
  <2>5. \E j \in 1..Len(code'[a]) : j > 1 /\ code'[a][j].op \in {"inherit", "adopt"}
    BY <1>0, <1>6, <2>1, ErrPushed DEF h
  <2>6. OnChain(a, code[a][i].node)'
    BY <2>0, <2>4 DEF OnChain
  <2>7. Upward(a, i)'
    BY <2>1, <2>2, <2>5, <2>6 DEF Upward
  <2> QED
    BY <2>7 DEF HeldAt
<1>7. f.op = "err" \/ f.node = h.node \/ (h.op = "kids" /\ f.node \in h.todo /\ f.op \in FreeOps)
  BY <1>1 DEF NewFrame, h
<1> QED
  BY <1>4, <1>5, <1>6, <1>7

\* A step keeps every frame's node held.
LEMMA HeldStep ==
    ASSUME Trees, Locks, AskSafe, Held, NEW a \in Actors, Step(a)
    PROVE  Held'
<1>0. Types /\ Lifecycle /\ StacksFit /\ LocksRight
  BY DEF Trees, Locks
<1> SUFFICES ASSUME NEW b \in Actors, NEW i \in 1..Len(code'[b]) PROVE HeldAt(b, i)'
  BY DEF Held
<1>1. ASSUME NEW k \in 1..Len(code[b]), Kept(b, i, k) PROVE HeldAt(b, i)'
  BY <1>1, KeepHeld
<1>2. CASE b = a /\ NewAt(a, i)
  <2>1. CASE code[a] = <<>>
    <3>1. code'[a] # <<>>
      BY <1>2
    <3>2. ArmStarts(a)
      BY <1>0, <2>1, <3>1, EmptyFilled
    <3> QED
      BY <2>1, <3>2 DEF ArmStarts, Head1
  <2>2. CASE code'[a] = code[a]
    <3>1. Kept(b, i, i) /\ i \in 1..Len(code[b])
      BY <1>2, <2>2 DEF Kept
    <3> QED
      BY <1>1, <3>1
  <2>3. CASE code[a] # <<>> /\ code'[a] # code[a]
    BY <1>2, <2>3, NewHeld
  <2> QED
    BY <2>1, <2>2, <2>3
<1>3. CASE TaskFrame(a, b, code'[b][i])
  <2>1. b \in Nodes
    BY <1>3 DEF TaskFrame, ArmStarts
  <2>2. code'[b][i].node = b
    BY <1>3 DEF TaskFrame, F
  <2> QED
    BY <2>1, <2>2 DEF HeldAt, Own
<1> QED
  BY <1>0, <1>1, <1>2, <1>3, FrameMoves

\* Nothing a frame relies on has changed.
LEMMA HeldSame ==
    ASSUME Held, NEW b \in Actors, code'[b] = code[b], parent' = parent,
           b \in Threads => uses'[b] = uses[b],
           NEW i \in 1..Len(code'[b])
    PROVE  HeldAt(b, i)'
<1>1. HeldAt(b, i)
  BY DEF Held
<1>2. \A u : UpFrom(u)' = UpFrom(u)
  BY UpSame
<1>3. CASE Borrowed(b, code[b][i]) \/ Own(b, code[b][i])
  BY <1>3 DEF HeldAt, Borrowed, Own
<1>4. CASE InTree(b, i)
  <2>1. InTree(b, i)'
    BY <1>4 DEF InTree, Covered, Paid
  <2> QED
    BY <2>1 DEF HeldAt
<1>5. CASE Upward(b, i)
  <2>1. b \in Threads /\ OnChain(b, code[b][i].node)
    BY <1>5 DEF Upward
  <2>2. OnChain(b, code[b][i].node)'
    BY <1>2, <2>1 DEF OnChain
  <2>3. Upward(b, i)'
    BY <1>5, <2>2 DEF Upward
  <2> QED
    BY <2>3 DEF HeldAt
<1> QED
  BY <1>1, <1>3, <1>4, <1>5 DEF HeldAt

\* So does a call.
LEMMA HeldCall ==
    ASSUME Trees, Held, NEW t \in Threads, Call(t)
    PROVE  Held'
<1>0. Types
  BY DEF Trees
<1>1. PICK n \in Nodes, fs \in Seq(Frame) : Starts(t, n, fs)
  BY <1>0, CallStarts
<1>2. /\ t \in Actors /\ code'[t] = fs /\ \A b \in Actors : b # t => code'[b] = code[b]
      /\ \A i \in 1..Len(fs) : fs[i].node = n
      /\ parent' = parent
  BY <1>0, <1>1, StartLife, CallStarts
<1>3. uses \in [Threads -> SUBSET Nodes]
  BY <1>0 DEF Types
<1>4. /\ \A v \in Threads : v # t => uses'[v] = uses[v]
      /\ n \in uses'[t]
  BY <1>1, <1>3 DEF Starts, Makes, Borrows, Queries, Destroys
<1> SUFFICES ASSUME NEW b \in Actors, NEW i \in 1..Len(code'[b]) PROVE HeldAt(b, i)'
  BY DEF Held
<1>5. CASE b = t
  BY <1>2, <1>4, <1>5 DEF HeldAt, Borrowed
<1>6. CASE b # t
  BY <1>2, <1>4, <1>6, HeldSame
<1> QED
  BY <1>5, <1>6

(***************************************************************************)
(* PointersHeld.                                                           *)
(***************************************************************************)
Pointers == Borrow /\ AskSafe /\ Held

\* At the start nothing is pointed to.
LEMMA InitPointers == Init => Pointers
<1> SUFFICES ASSUME Init PROVE Pointers
  OBVIOUS
<1>1. \A b \in Actors : code[b] = <<>> \/ (b \in Nodes /\ code[b] = <<F("tTop", b)>>)
  BY DEF Init
<1>2. \A t \in Threads : code[t] = <<>>
  BY <1>1, NoneIsNoParent DEF Actors
<1>3. Borrow /\ AskSafe
  BY <1>2 DEF Borrow, AskSafe, Asking
<1>4. ASSUME NEW b \in Actors, NEW i \in 1..Len(code[b]) PROVE Own(b, code[b][i])
  <2>1. b \in Nodes /\ code[b] = <<F("tTop", b)>>
    BY <1>1
  <2>2. i = 1
    BY <2>1
  <2> QED
    BY <2>1, <2>2 DEF Own, F
<1> QED
  BY <1>3, <1>4 DEF Pointers, Held, HeldAt

\* Every step keeps the pointers.
LEMMA NextPointers ==
    ASSUME Trees, Locks, Trees', Pointers, ErrDuringDeinit = FALSE, [Next]_vars
    PROVE  Pointers'
<1>0. Types' /\ Lifecycle' /\ Borrow /\ AskSafe /\ Held
  BY DEF Trees, Pointers
<1>1. CASE \E a \in Actors : Step(a)
  BY <1>0, <1>1, BorrowStep, AskSafeStep, HeldStep DEF Pointers
<1>2. CASE \E t \in Threads : Call(t)
  BY <1>0, <1>2, BorrowCall, AskSafeCall, HeldCall DEF Pointers
<1>3. CASE UNCHANGED <<state, parent, code, uses>>
  <2>1. \A u : UpFrom(u)' = UpFrom(u)
    BY <1>3, UpSame
  <2>2. Borrow'
    BY <1>0, <1>3 DEF Borrow
  <2>3. \A t \in Threads : Asking(t)' => Asking(t)
    BY <1>3 DEF Asking
  <2>4. AskSafe'
    BY <1>0, <1>3, <2>1, <2>3 DEF AskSafe
  <2>5. Held'
    BY <1>0, <1>3, HeldSame DEF Held
  <2> QED
    BY <2>2, <2>4, <2>5 DEF Pointers
<1> QED
  BY <1>1, <1>2, <1>3, NextCases

\* A node that is held is not freed.
LEMMA HeldIsThere == Trees /\ Locks /\ Pointers => NoUseAfterFree
<1> SUFFICES ASSUME Trees, Locks, Pointers, NEW a \in Actors, code[a] # <<>>,
                    Top(a).node # Root
             PROVE  state[Top(a).node] # "freed"
  BY DEF NoUseAfterFree
<1>0. Types /\ Lifecycle /\ TreeWellFormed /\ TimerHome /\ Borrow /\ AskSafe /\ Held
  BY DEF Trees, Locks, Pointers
<1> DEFINE n == Top(a).node
<1>1. 1 \in 1..Len(code[a]) /\ Top(a) = code[a][1] /\ code[a] \in Seq(Frame)
  <2> DEFINE st == code[a]
             h == Top(a)
  <2>1. st \in Seq(Frame) /\ st # <<>> /\ h = Head(st)
    BY <1>0 DEF Types, Top
  <2> HIDE DEF st, h
  <2>2. 1 \in 1..Len(st) /\ h = st[1]
    BY <2>1
  <2> QED
    BY <2>1, <2>2 DEF st, h
<1>2. HeldAt(a, 1)
  BY <1>0, <1>1 DEF Held
<1>3. CASE Borrowed(a, code[a][1])
  <2>1. a \in Threads /\ n \in uses[a]
    BY <1>1, <1>3 DEF Borrowed
  <2>2. state[n] = "live" \/ \E f \in LifeIn(code[a]) : f.node = n
    BY <1>0, <2>1 DEF Borrow
  <2>3. ASSUME NEW f \in LifeIn(code[a]), f.node = n PROVE state[n] # "freed"
    <3>1. LifeFrameOK(a, f) /\ f.op \in LifeOps
      BY <1>0 DEF Lifecycle, LifeIn
    <3> QED
      BY <2>3, <3>1 DEF LifeFrameOK, LifeOps
  <2> QED
    BY <2>2, <2>3
<1>4. CASE Own(a, code[a][1])
  BY <1>0, <1>1, <1>4 DEF Own, TimerHome
<1>5. CASE InTree(a, 1)
  BY <1>0, <1>1, <1>5 DEF InTree, TreeWellFormed, OutsideTree
<1>6. CASE Upward(a, 1)
  <2>1. a \in Threads /\ OnChain(a, n)
    BY <1>1, <1>6 DEF Upward
  <2>2. Asking(a)
    BY <1>0, <1>6, AskFrame DEF Upward, AskOps
  <2> QED
    BY <1>0, <2>1, <2>2 DEF OnChain, AskSafe
<1> QED
  BY <1>2, <1>3, <1>4, <1>5, <1>6 DEF HeldAt

\* The node a step works on is not freed, and a walk finds its children where it
\* saw them, when the clients keep err() and a deinit above it apart.
THEOREM PointersStayHeld == ErrDuringDeinit = FALSE => (Spec => []PointersHeld)
<1> SUFFICES ASSUME ErrDuringDeinit = FALSE PROVE Spec => []PointersHeld
  OBVIOUS
<1> DEFINE Inv == Trees /\ Locks /\ Pointers
<1>1. Init => Inv
  BY InitLocks, InitPointers
<1>2. Inv /\ [Next]_vars => Inv'
  <2> SUFFICES ASSUME Inv, [Next]_vars PROVE Inv'
    OBVIOUS
  <2>1. Trees' /\ Locks'
    BY NextLocks
  <2> QED
    BY <2>1, NextPointers
<1>3. Inv => PointersHeld
  BY HeldIsThere, WalkFromLocks DEF PointersHeld
<1> HIDE DEF Inv
<1> QED
  BY <1>1, <1>2, <1>3, PTL DEF Spec

-----------------------------------------------------------------------------
(***************************************************************************)
(* A binding is fired once.                                                *)
(***************************************************************************)
FireAt(b, i, n) == /\ i \in 1..Len(code[b])
                   /\ code[b][i].op = "fire" /\ code[b][i].node = n
FireIn(n)  == \E b \in Actors : \E i \in 1..Len(code[b]) : FireAt(b, i, n)
OneFire(n) == \A b, c \in Actors : \A i \in 1..Len(code[b]) : \A j \in 1..Len(code[c]) :
                  FireAt(b, i, n) /\ FireAt(c, j, n) => b = c /\ i = j
FireRight(n) ==
    /\ FireIn(n) => cause[n] # None /\ fired[n] = 0
    /\ cause[n] = None => fired[n] = 0
    /\ cause[n] # None /\ binding[n] /\ ~FireIn(n) => fired[n] = 1
    /\ fired[n] \in {0, 1}
FireOnce == \A n \in Nodes : OneFire(n) /\ FireRight(n)

\* Only marking, firing, binding and unbinding touch causes and bindings.
LEMMA StepMarks ==
    ASSUME Types, StacksFit, NEW a \in Actors, Step(a)
    PROVE  \/ UNCHANGED <<cause, binding, fired>>
           \/ Mark(a) \/ Fire(a) \/ Bind(a) \/ Unbind(a)
<1>1. CASE Locking(a)
  BY <1>1 DEF Locking, RequestExclusive, Share, Unshare, nodeVars
<1>2. CASE Walk(a)
  BY <1>2 DEF Walk, Broadcast, NextKid, Stop, nodeVars
<1>3. CASE Asks(a)
  BY <1>3 DEF Asks, Err, Inherit, Return, nodeVars
<1>4. CASE Creating(a)
  BY <1>4 DEF Creating, Attach, Adopt, Arm, Ready, nodeVars
<1>5. CASE Links(a)
  BY <1>5 DEF Links, Join, Detach, Free, nodeVars
<1>6. CASE Wait(a) \/ WaitTimeout(a)
  BY <1>6 DEF Wait, WaitTimeout, nodeVars
<1>7. CASE a \in Nodes /\ Timer(a)
  BY <1>7, WhatTimer
<1> QED
  BY <1>1, <1>2, <1>3, <1>4, <1>5, <1>6, <1>7 DEF Step

\* The step that records a first cause leaves a fire frame for the node.
LEMMA MarkFires ==
    ASSUME Types, NEW a \in Actors, Mark(a), cause[Top(a).node] = None,
           NEW n, n = Top(a).node
    PROVE  FireIn(n)'
<1> DEFINE c == Top(a).arg
           f == FA("fire", n, c)
           fs == AfterMark(n, c)
<1>1. n \in Nodes /\ c \in Causes /\ Moves(a, fs)
  BY WhatMark
<1>2. fs \in Seq(Frame) /\ f \in Frame /\ f.op = "fire" /\ f.node = n
  BY <1>1, WalkFrames, CauseFrame DEF FA
<1>3. \E k \in 1..Len(fs) : fs[k] = f
  <2> DEFINE b1 == F("broadcast", n)
             s1 == F("share", n)
             u1 == F("unshare", n)
  <2>1. CASE KindOf[n] = "value"
    <3>1. fs = <<b1, s1, f, u1>>
      BY <2>1 DEF AfterMark
    <3> HIDE DEF b1, s1, u1, f, fs
    <3>2. Len(fs) = 4 /\ fs[3] = f
      BY <3>1
    <3>3. 3 \in 1..4
      OBVIOUS
    <3> QED
      BY <3>2, <3>3
  <2>2. CASE KindOf[n] # "value"
    <3>1. fs = <<b1, f>>
      BY <2>2 DEF AfterMark
    <3> HIDE DEF b1, f, fs
    <3>2. Len(fs) = 2 /\ fs[2] = f
      BY <3>1
    <3>3. 2 \in 1..2
      OBVIOUS
    <3> QED
      BY <3>2, <3>3
  <2> QED
    BY <2>1, <2>2
<1> HIDE DEF fs, f
<1>4. PICK k \in 1..Len(fs) : fs[k] = f
  BY <1>3
<1>5. k \in 1..Len(code'[a]) /\ code'[a][k] = f
  BY <1>1, <1>2, <1>4, MovedFrames
<1>6. FireAt(a, k, n)'
  BY <1>2, <1>5 DEF FireAt
<1> QED
  BY <1>5, <1>6 DEF FireIn

\* A fire frame is new only where a first cause has just been recorded.
LEMMA FireNew ==
    ASSUME Types, Lifecycle, StacksFit, NEW a \in Actors, Step(a), NEW n \in Nodes,
           NEW b \in Actors, NEW i \in 1..Len(code'[b]), FireAt(b, i, n)'
    PROVE  \/ \E k \in 1..Len(code[b]) : FireAt(b, k, n) /\ code[b][k] = code'[b][i]
           \/ b = a /\ Mark(a) /\ n = Top(a).node /\ cause[n] = None
<1> DEFINE f == code'[b][i]
<1>1. f.op = "fire" /\ f.node = n
  BY DEF FireAt
<1>2. CASE OldFrame(b, f)
  BY <1>1, <1>2 DEF OldFrame, FireAt
<1>3. CASE b = a /\ NewFrame(a, f, i)
  <2>1. Top(a).op = "mark" /\ cause[Top(a).node] = None /\ f.node = Top(a).node
    BY <1>1, <1>3 DEF NewFrame
  <2> QED
    BY <1>1, <1>3, <2>1, HeadOnly
<1>4. ~TaskFrame(a, b, f)
  BY <1>1 DEF TaskFrame, F
<1> QED
  BY <1>2, <1>3, <1>4, FrameFrom

\* Two fire frames of a stack were two frames of it, or one has just been pushed.
LEMMA FirePair ==
    ASSUME Types, Lifecycle, StacksFit, NEW a \in Actors, Step(a), NEW b \in Actors,
           NEW i \in 1..Len(code'[b]), NEW j \in 1..Len(code'[b]), i # j,
           code'[b][i].op = "fire", code'[b][j].op = "fire"
    PROVE  \/ \E k, l \in 1..Len(code[b]) :
                  k # l /\ code[b][k] = code'[b][i] /\ code[b][l] = code'[b][j]
           \/ /\ b = a /\ NewFrame(a, code'[a][i], i)
              /\ \E l \in 1..Len(code[b]) : code[b][l] = code'[b][j]
           \/ /\ b = a /\ NewFrame(a, code'[a][j], j)
              /\ \E k \in 1..Len(code[b]) : code[b][k] = code'[b][i]
<1>1. CASE code'[b] = code[b]
  BY <1>1
<1>2. ASSUME b = a, code[a] # <<>>, code'[a] = Tail(code[a])
      PROVE  \E k, l \in 1..Len(code[b]) :
                  k # l /\ code[b][k] = code'[b][i] /\ code[b][l] = code'[b][j]
  <2>1. /\ i + 1 \in 2..Len(code[a]) /\ code'[a][i] = code[a][i + 1]
        /\ j + 1 \in 2..Len(code[a]) /\ code'[a][j] = code[a][j + 1]
    BY <1>2, PopFrames
  <2>2. i + 1 \in 1..Len(code[a]) /\ j + 1 \in 1..Len(code[a]) /\ i + 1 # j + 1
    BY <2>1
  <2> QED
    BY <1>2, <2>1, <2>2
<1>3. CASE Takes(a) \/ Gives(a)
  <2>1. /\ code[a] # <<>> /\ code'[a] = Tail(code[a])
        /\ \A c \in Actors : c # a => code'[c] = code[c]
    BY <1>3, PopWhat DEF Takes, Gives
  <2> QED
    BY <1>1, <1>2, <2>1
<1>4. CASE ArmStarts(a)
  <2>1. /\ code[a] # <<>> /\ code'[a] = Tail(code[a])
        /\ code'[Top(a).node] = <<F("tTop", Top(a).node)>>
        /\ \A c \in Actors : c # a /\ c # Top(a).node => code'[c] = code[c]
    BY <1>4, ArmStacks DEF ArmStarts, Head1
  <2>2. CASE b = Top(a).node
    <3>1. i = 1 /\ j = 1
      BY <2>1, <2>2
    <3> QED
      BY <3>1
  <2> QED
    BY <1>1, <1>2, <2>1, <2>2
<1>5. ASSUME NEW fs \in Seq(Frame), Pushes(a, fs), b = a
      PROVE  \/ \E k, l \in 1..Len(code[b]) :
                  k # l /\ code[b][k] = code'[b][i] /\ code[b][l] = code'[b][j]
             \/ /\ b = a /\ NewFrame(a, code'[a][i], i)
                /\ \E l \in 1..Len(code[b]) : code[b][l] = code'[b][j]
             \/ /\ b = a /\ NewFrame(a, code'[a][j], j)
                /\ \E k \in 1..Len(code[b]) : code[b][k] = code'[b][i]
  <2>1. /\ Moves(a, fs) /\ \A k \in 1..Len(fs) : NewFrame(a, fs[k], k)
        /\ \A k, l \in 1..Len(fs) : fs[k].op = "fire" /\ fs[l].op = "fire" => k = l
    BY <1>5 DEF Pushes
  <2>2. \A m \in 1..Len(code'[a]) :
            \/ m \in 1..Len(fs) /\ code'[a][m] = fs[m]
            \/ \E k \in 2..Len(code[a]) : m = k - 1 + Len(fs) /\ code'[a][m] = code[a][k]
    BY <2>1, MovedFrames
  <2>3. \A k \in 2..Len(code[a]) : k \in 1..Len(code[a])
    OBVIOUS
  <2>4. CASE i \in 1..Len(fs) /\ code'[a][i] = fs[i]
    <3>1. ~(j \in 1..Len(fs) /\ code'[a][j] = fs[j])
      BY <1>5, <2>1, <2>4
    <3>2. PICK l \in 2..Len(code[a]) : code'[a][j] = code[a][l]
      BY <1>5, <2>2, <3>1
    <3>3. NewFrame(a, code'[a][i], i)
      BY <2>1, <2>4
    <3> QED
      BY <1>5, <2>3, <3>2, <3>3
  <2>5. CASE j \in 1..Len(fs) /\ code'[a][j] = fs[j]
    <3>1. ~(i \in 1..Len(fs) /\ code'[a][i] = fs[i])
      BY <1>5, <2>1, <2>5
    <3>2. PICK l \in 2..Len(code[a]) : code'[a][i] = code[a][l]
      BY <1>5, <2>2, <3>1
    <3>3. NewFrame(a, code'[a][j], j)
      BY <2>1, <2>5
    <3> QED
      BY <1>5, <2>3, <3>2, <3>3
  <2>6. ASSUME NEW k \in 2..Len(code[a]), i = k - 1 + Len(fs), code'[a][i] = code[a][k],
               NEW l \in 2..Len(code[a]), j = l - 1 + Len(fs), code'[a][j] = code[a][l]
        PROVE  \E p, q \in 1..Len(code[b]) :
                  p # q /\ code[b][p] = code'[b][i] /\ code[b][q] = code'[b][j]
    <3>1. k # l
      BY <2>6
    <3> QED
      BY <1>5, <2>3, <2>6, <3>1
  <2> QED
    BY <1>5, <2>2, <2>4, <2>5, <2>6
<1>6. ASSUME NEW fs \in Seq(Frame), Pushes(a, fs), b # a
      PROVE  code'[b] = code[b]
  BY <1>6, MovesWhat DEF Pushes
<1> QED
  BY <1>1, <1>3, <1>4, <1>5, <1>6, StepStack

\* A step keeps it at one fire per node.
LEMMA OneFireStep ==
    ASSUME Types, Lifecycle, StacksFit, FireOnce, NEW a \in Actors, Step(a), NEW n \in Nodes
    PROVE  OneFire(n)'
<1> SUFFICES ASSUME NEW b \in Actors, NEW c \in Actors,
                    NEW i \in 1..Len(code'[b]), NEW j \in 1..Len(code'[c]),
                    FireAt(b, i, n)', FireAt(c, j, n)'
             PROVE  b = c /\ i = j
  BY DEF OneFire
<1>1. OneFire(n) /\ (FireIn(n) => cause[n] # None)
  BY DEF FireOnce, FireRight
<1>2. /\ code'[b][i].op = "fire" /\ code'[b][i].node = n
      /\ code'[c][j].op = "fire" /\ code'[c][j].node = n
  BY DEF FireAt
<1>3. CASE b # c
  <2>1. \/ \E k \in 1..Len(code[b]) : FireAt(b, k, n) /\ code[b][k] = code'[b][i]
        \/ b = a /\ Mark(a) /\ n = Top(a).node /\ cause[n] = None
    BY FireNew
  <2>2. \/ \E k \in 1..Len(code[c]) : FireAt(c, k, n) /\ code[c][k] = code'[c][j]
        \/ c = a /\ Mark(a) /\ n = Top(a).node /\ cause[n] = None
    BY FireNew
  <2> QED
    BY <1>1, <1>3, <2>1, <2>2 DEF OneFire, FireIn
<1>4. CASE b = c /\ i # j
  <2>1. ASSUME NEW k \in 1..Len(code[b]), NEW l \in 1..Len(code[b]), k # l,
               code[b][k] = code'[b][i], code[b][l] = code'[b][j]
        PROVE  FALSE
    BY <1>1, <1>2, <1>4, <2>1 DEF OneFire, FireAt
  <2>2. ASSUME NEW f, f.op = "fire", f.node = n, NEW x, NewFrame(a, f, x),
               NEW k \in 1..Len(code[b]), code[b][k].op = "fire", code[b][k].node = n
        PROVE  FALSE
    <3>1. FireIn(n)
      BY <2>2 DEF FireIn, FireAt
    <3>2. cause[Top(a).node] = None /\ f.node = Top(a).node
      BY <2>2 DEF NewFrame
    <3> QED
      BY <1>1, <2>2, <3>1, <3>2
  <2>0. j \in 1..Len(code'[b]) /\ code'[b][i].op = "fire" /\ code'[b][j].op = "fire" /\ i # j
    BY <1>2, <1>4
  <2>3. \/ \E k, l \in 1..Len(code[b]) :
               k # l /\ code[b][k] = code'[b][i] /\ code[b][l] = code'[b][j]
        \/ /\ b = a /\ NewFrame(a, code'[a][i], i)
           /\ \E l \in 1..Len(code[b]) : code[b][l] = code'[b][j]
        \/ /\ b = a /\ NewFrame(a, code'[a][j], j)
           /\ \E k \in 1..Len(code[b]) : code[b][k] = code'[b][i]
    BY <2>0, FirePair, SMTT(30), ZenonT(60)
  <2>4. ASSUME NEW f, f = code'[b][i] \/ f = code'[b][j] PROVE f.op = "fire" /\ f.node = n
    BY <1>2, <1>4, <2>4
  <2> QED
    BY <2>1, <2>2, <2>3, <2>4
<1> QED
  BY <1>3, <1>4

-----------------------------------------------------------------------------
\* A fire frame stays until it is executed.
LEMMA FireStays ==
    ASSUME Types, Lifecycle, StacksFit, NotArmed, NEW a \in Actors, Step(a), NEW n \in Nodes,
           FireIn(n), ~(Fire(a) /\ Top(a).node = n)
    PROVE  FireIn(n)'
<1>0. PICK b \in Actors : \E k \in 1..Len(code[b]) : FireAt(b, k, n)
  BY DEF FireIn
<1>1. PICK k \in 1..Len(code[b]) : FireAt(b, k, n)
  BY <1>0
<1>2. code[b][k].op = "fire" /\ code[b][k].node = n /\ code[b] \in Seq(Frame)
  BY <1>1 DEF FireAt, Types
<1>3. b # a \/ k # 1
  <2> SUFFICES ASSUME b = a, k = 1 PROVE FALSE
    OBVIOUS
  <2> DEFINE st == code[a]
  <2>1. st \in Seq(Frame) /\ 1 \in 1..Len(st) /\ Top(a) = Head(st)
    BY <1>1, <1>2 DEF Top
  <2> HIDE DEF st
  <2>2. Head(st) = st[1]
    BY <2>1
  <2>3. Top(a).op = "fire" /\ Top(a).node = n
    BY <1>2, <2>1, <2>2 DEF st
  <2> QED
    BY <2>3, HeadOnly
<1>4. b # Top(a).node \/ ~ArmStarts(a)
  <2> SUFFICES ASSUME ArmStarts(a) PROVE code[Top(a).node] = <<>>
    BY <1>1
  <2>1. 1 \in 1..Len(code[a]) /\ code[a][1].op = "arm" /\ code[a][1] = Top(a)
    BY DEF ArmStarts, Head1
  <2> QED
    BY <2>1 DEF NotArmed
<1>5. PICK i \in 1..Len(code'[b]) : code'[b][i] = code[b][k] /\ (b # a => i = k)
  BY <1>3, <1>4, FrameStays
<1>6. FireAt(b, i, n)'
  BY <1>2, <1>5 DEF FireAt
<1> QED
  BY <1>5, <1>6 DEF FireIn

\* The fire frame of a node is gone once it has been executed.
LEMMA FireEnds ==
    ASSUME Types, Lifecycle, StacksFit, NEW a \in Actors, Fire(a), NEW n \in Nodes,
           n = Top(a).node, OneFire(n)
    PROVE  FireIn(n) /\ ~FireIn(n)'
<1> DEFINE kid == Kids(n, Top(a).arg, children[n])
           fs == <<kid>>
<1>1. Head1(a, {"fire"}) /\ kid \in Frame /\ Moves(a, fs)
  BY WhatFire
<1>2. FireAt(a, 1, n)
  BY <1>1 DEF Head1, FireAt
<1>3. kid.op = "kids"
  BY DEF Kids
<1> HIDE DEF kid
<1>4. fs \in Seq(Frame) /\ Len(fs) = 1 /\ fs[1] = kid
  BY <1>1
<1> HIDE DEF fs
<1>5. /\ \A b \in Actors : b # a => code'[b] = code[b]
      /\ \A i \in 1..Len(code'[a]) :
             \/ i \in 1..Len(fs) /\ code'[a][i] = fs[i]
             \/ \E k \in 2..Len(code[a]) : code'[a][i] = code[a][k]
  BY <1>1, <1>4, MovesWhat, MovedFrames, SMTT(30)
<1>6. 1 \in 1..Len(code[a])
  BY <1>2 DEF FireAt
<1>7. ASSUME NEW b \in Actors, NEW i \in 1..Len(code'[b]), FireAt(b, i, n)' PROVE FALSE
  <2>1. code'[b][i].op = "fire" /\ code'[b][i].node = n
    BY <1>7 DEF FireAt
  <2>2. CASE b # a
    <3>1. FireAt(b, i, n) /\ i \in 1..Len(code[b])
      BY <1>5, <1>7, <2>1, <2>2 DEF FireAt
    <3> QED
      BY <1>2, <1>6, <2>2, <3>1 DEF OneFire
  <2>3. CASE b = a
    <3>1. ~(i \in 1..Len(fs) /\ code'[a][i] = fs[i])
      <4> SUFFICES ASSUME i \in 1..Len(fs), code'[a][i] = fs[i] PROVE FALSE
        OBVIOUS
      <4>1. i = 1
        BY <1>4
      <4> QED
        BY <1>3, <1>4, <2>1, <2>3, <4>1
    <3>2. PICK k \in 2..Len(code[a]) : code'[a][i] = code[a][k]
      BY <1>5, <1>7, <2>3, <3>1
    <3>3. k \in 1..Len(code[a]) /\ k # 1
      OBVIOUS
    <3>4. FireAt(a, k, n)
      BY <2>1, <2>3, <3>2, <3>3 DEF FireAt
    <3> QED
      BY <1>2, <1>6, <3>3, <3>4 DEF OneFire
  <2> QED
    BY <2>2, <2>3
<1> QED
  BY <1>2, <1>6, <1>7 DEF FireIn

\* A node answers with its own cause.
LEMMA AskedItself ==
    ASSUME NEW n \in Nodes, ErrNoLock(n) = None
    PROVE  cause[n] = None
<1> DEFINE found == {cause[m] : m \in Asked(n)} \ {None}
<1>1. n \in Asked(n)
  BY DEF Asked, Chain
<1>2. cause[n] \in {cause[m] : m \in Asked(n)}
  BY <1>1
<1>3. CASE found = {}
  BY <1>2, <1>3
<1>4. CASE found # {}
  <2>1. (CHOOSE c \in found : TRUE) \in found
    BY <1>4
  <2>2. ErrNoLock(n) = CHOOSE c \in found : TRUE
    BY <1>4 DEF ErrNoLock
  <2> QED
    BY <2>1, <2>2
<1> QED
  BY <1>3, <1>4

\* bindLink keeps a binding only on a node without a cause.
LEMMA WhatBound ==
    ASSUME Types, NEW a \in Actors, Bind(a) \/ Unbind(a)
    PROVE  LET x == Top(a).node IN
           /\ x \in Nodes /\ cause' = cause
           /\ \A n \in Nodes : n # x => binding'[n] = binding[n] /\ fired'[n] = fired[n]
           /\ \/ binding' = binding /\ fired' = fired
              \/ cause[x] = None /\ fired'[x] = 0
              \/ binding'[x] = FALSE /\ fired' = fired
<1> DEFINE x == Top(a).node
<1>1. x \in Nodes /\ cause' = cause
  BY WhatBind
<1>2. binding \in [Nodes -> BOOLEAN] /\ fired \in [Nodes -> Nat]
  BY DEF Types
<1>3. CASE Unbind(a)
  <2>1. binding' = [binding EXCEPT ![x] = FALSE] /\ fired' = fired
    BY <1>3 DEF Unbind
  <2>2. /\ \A n \in Nodes : n # x => binding'[n] = binding[n]
        /\ binding'[x] = FALSE
    BY <1>1, <1>2, <2>1
  <2> QED
    BY <1>1, <2>1, <2>2
<1>4. CASE Bind(a) /\ binding' = binding /\ fired' = fired
  BY <1>1, <1>4
<1>5. CASE /\ Bind(a) /\ ErrNoLock(x) = None /\ binding' = [binding EXCEPT ![x] = TRUE]
           /\ fired' = [fired EXCEPT ![x] = 0]
  <2>1. cause[x] = None
    BY <1>1, <1>5, AskedItself
  <2>2. /\ \A n \in Nodes : n # x => binding'[n] = binding[n] /\ fired'[n] = fired[n]
        /\ fired'[x] = 0
    BY <1>1, <1>2, <1>5
  <2> QED
    BY <1>1, <2>1, <2>2
<1>6. Bind(a) => \/ binding' = binding /\ fired' = fired
                 \/ /\ ErrNoLock(x) = None /\ binding' = [binding EXCEPT ![x] = TRUE]
                    /\ fired' = [fired EXCEPT ![x] = 0]
  BY DEF Bind
<1> QED
  BY <1>3, <1>4, <1>5, <1>6

\* A step keeps a bound node fired exactly when it has a cause and the walk has
\* passed.
LEMMA FireRightStep ==
    ASSUME Types, Lifecycle, StacksFit, NotArmed, FireOnce, NEW a \in Actors, Step(a),
           NEW n \in Nodes
    PROVE  FireRight(n)'
<1> DEFINE x == Top(a).node
<1>0. /\ OneFire(n) /\ FireRight(n)
      /\ binding \in [Nodes -> BOOLEAN] /\ fired \in [Nodes -> Nat]
      /\ cause \in [Nodes -> Causes \cup {None}]
  BY DEF FireOnce, Types
<1>1. FireIn(n)' => FireIn(n) \/ (Mark(a) /\ n = x /\ cause[n] = None)
  BY FireNew DEF FireIn
<1>2. FireIn(n) => FireIn(n)' \/ (Fire(a) /\ n = x)
  BY FireStays
<1>3. ASSUME cause'[n] = cause[n], binding'[n] = binding[n], fired'[n] = fired[n],
             ~(Fire(a) /\ n = x), ~(Mark(a) /\ n = x /\ cause[n] = None)
      PROVE  FireRight(n)'
  BY <1>0, <1>1, <1>2, <1>3 DEF FireRight
<1>4. CASE Mark(a)
  <2>1. /\ binding' = binding /\ fired' = fired /\ ~Fire(a) /\ x \in Nodes /\ Top(a).arg \in Causes
        /\ \/ cause[x] # None /\ cause' = cause
           \/ cause[x] = None /\ cause' = [cause EXCEPT ![x] = Top(a).arg]
    BY <1>4, WhatMark, HeadOf
  <2>2. CASE n = x /\ cause[n] = None
    <3>1. FireIn(n)'
      BY <1>4, <2>2, MarkFires
    <3>2. cause'[n] = Top(a).arg /\ fired'[n] = fired[n]
      BY <1>0, <2>1, <2>2
    <3>3. cause'[n] # None
      <4>1. None \notin Causes
        BY ContextAssumption
      <4> QED
        BY <2>1, <3>2, <4>1
    <3>4. fired[n] = 0
      BY <1>0, <2>2 DEF FireRight
    <3> QED
      BY <3>1, <3>2, <3>3, <3>4 DEF FireRight
  <2>3. CASE ~(n = x /\ cause[n] = None)
    <3>1. cause'[n] = cause[n]
      BY <1>0, <2>1, <2>3
    <3> QED
      BY <1>3, <2>1, <2>3, <3>1
  <2> QED
    BY <2>2, <2>3
<1>5. CASE Fire(a)
  <2>1. /\ binding' = binding /\ cause' = cause /\ ~Mark(a) /\ x \in Nodes
        /\ fired' = [fired EXCEPT ![x] = IF binding[x] THEN @ + 1 ELSE @]
    BY <1>5, WhatFire, HeadOf
  <2>2. CASE n = x
    <3>1. FireIn(n) /\ ~FireIn(n)'
      BY <1>0, <1>5, <2>2, FireEnds
    <3>2. cause[n] # None /\ fired[n] = 0
      BY <1>0, <3>1 DEF FireRight
    <3>3. fired'[n] = IF binding[n] THEN 1 ELSE 0
      BY <1>0, <2>1, <2>2, <3>2
    <3>4. fired'[n] \in {0, 1} /\ (binding'[n] => fired'[n] = 1)
      BY <1>0, <2>1, <3>3
    <3> QED
      BY <2>1, <3>1, <3>2, <3>4 DEF FireRight
  <2>3. CASE n # x
    <3>1. fired'[n] = fired[n]
      BY <1>0, <2>1, <2>3
    <3> QED
      BY <1>3, <2>1, <2>3, <3>1
  <2> QED
    BY <2>2, <2>3
<1>6. CASE Bind(a) \/ Unbind(a)
  <2>1. /\ x \in Nodes /\ cause' = cause
        /\ n # x => binding'[n] = binding[n] /\ fired'[n] = fired[n]
        /\ \/ binding' = binding /\ fired' = fired
           \/ cause[x] = None /\ fired'[x] = 0
           \/ binding'[x] = FALSE /\ fired' = fired
    BY <1>6, WhatBound
  <2>2. ~Fire(a) /\ ~Mark(a)
    BY <1>6, HeadOf
  <2>3. CASE n = x /\ cause[n] = None /\ fired'[n] = 0
    <3>1. ~FireIn(n)'
      BY <1>0, <1>1, <2>2, <2>3 DEF FireRight
    <3> QED
      BY <2>1, <2>3, <3>1 DEF FireRight
  <2>4. CASE n = x /\ binding'[n] = FALSE /\ fired' = fired
    BY <1>0, <1>1, <2>1, <2>2, <2>4 DEF FireRight
  <2> QED
    BY <1>3, <2>1, <2>2, <2>3, <2>4
<1>7. CASE UNCHANGED <<cause, binding, fired>> /\ ~Mark(a) /\ ~Fire(a)
  BY <1>3, <1>7
<1> QED
  BY <1>4, <1>5, <1>6, <1>7, StepMarks

\* Stacks without a new fire frame.
LEMMA FireSame ==
    ASSUME FireOnce, UNCHANGED <<cause, binding, fired>>,
           \A b \in Actors : \/ code'[b] = code[b]
                             \/ /\ code[b] = <<>>
                                /\ \A i \in 1..Len(code'[b]) : code'[b][i].op # "fire"
    PROVE  FireOnce'
<1>1. ASSUME NEW n \in Nodes, NEW b \in Actors, NEW i \in 1..Len(code'[b]), FireAt(b, i, n)'
      PROVE  i \in 1..Len(code[b]) /\ FireAt(b, i, n)
  BY <1>1 DEF FireAt
<1>2. ASSUME NEW n \in Nodes, NEW b \in Actors, NEW i \in 1..Len(code[b]), FireAt(b, i, n)
      PROVE  i \in 1..Len(code'[b]) /\ FireAt(b, i, n)'
  <2>1. code[b] # <<>>
    BY <1>2
  <2>2. code'[b] = code[b]
    BY <2>1
  <2> QED
    BY <1>2, <2>2 DEF FireAt
<1> SUFFICES ASSUME NEW n \in Nodes PROVE OneFire(n)' /\ FireRight(n)'
  BY DEF FireOnce
<1>3. OneFire(n) /\ FireRight(n)
  BY DEF FireOnce
<1>4. OneFire(n)'
  BY <1>1, <1>3 DEF OneFire
<1>5. FireIn(n)' <=> FireIn(n)
  BY <1>1, <1>2 DEF FireIn
<1>6. FireRight(n)'
  BY <1>3, <1>5 DEF FireRight
<1> QED
  BY <1>4, <1>6

\* Every step keeps both.
LEMMA FireNext ==
    ASSUME Trees, Locks, FireOnce, [Next]_vars
    PROVE  FireOnce'
<1>0. Types /\ Lifecycle /\ StacksFit /\ NotArmed
  BY DEF Trees, Locks
<1>1. ASSUME NEW a \in Actors, Step(a) PROVE FireOnce'
  BY <1>0, <1>1, OneFireStep, FireRightStep DEF FireOnce
<1>2. ASSUME NEW t \in Threads, Call(t) PROVE FireOnce'
  <2>1. PICK n \in Nodes, fs \in Seq(Frame) : Starts(t, n, fs)
    BY <1>0, <1>2, CallStarts
  <2>2. /\ code'[t] = fs /\ code[t] = <<>> /\ \A b \in Actors : b # t => code'[b] = code[b]
        /\ UNCHANGED <<cause, binding, fired>>
    BY <1>0, <1>2, <2>1, StartLife, CallStarts
  <2>3. \A i \in 1..Len(fs) : fs[i].op # "fire"
    BY <2>1 DEF Starts, OnNode, CallOps
  <2> QED
    BY <2>2, <2>3, FireSame
<1>3. CASE UNCHANGED <<code, cause, binding, fired>>
  BY <1>3, FireSame
<1> QED
  BY <1>1, <1>2, <1>3, NextCases

\* At the start nothing has been fired.
LEMMA InitFires == Init => FireOnce
<1> SUFFICES ASSUME Init PROVE FireOnce
  OBVIOUS
<1>1. \A b \in Actors : code[b] = <<>> \/ code[b] = <<F("tTop", b)>>
  BY DEF Init
<1>2. ASSUME NEW b \in Actors, NEW i \in 1..Len(code[b]) PROVE code[b][i].op # "fire"
  <2> DEFINE g == F("tTop", b)
  <2>1. g.op # "fire"
    BY DEF F
  <2>2. code[b] = <<>> \/ code[b] = <<g>>
    BY <1>1
  <2> HIDE DEF g
  <2>4. code[b] # <<>>
    BY <1>2
  <2>5. code[b] = <<g>>
    BY <2>2, <2>4
  <2>3. code[b] = <<g>> /\ i = 1
    BY <2>5
  <2> QED
    BY <2>1, <2>3
<1>3. \A n \in Nodes : \A b \in Actors : \A i \in 1..Len(code[b]) : ~FireAt(b, i, n)
  BY <1>2 DEF FireAt
<1>4. \A n \in Nodes : OneFire(n) /\ ~FireIn(n)
  BY <1>3 DEF OneFire, FireIn
<1>5. \A n \in Nodes : fired[n] = 0 /\ cause[n] = None
  BY DEF Init
<1> QED
  BY <1>4, <1>5 DEF FireOnce, FireRight

\* Which is what a client who bound a wake relies on.
LEMMA FiresOnce == Types /\ FireOnce => BindingFiresOnce
<1> SUFFICES ASSUME Types, FireOnce, NEW n \in Nodes
             PROVE  /\ fired[n] <= 1
                    /\ NoWalk /\ binding[n] => (fired[n] = 1 <=> cause[n] # None)
  BY DEF BindingFiresOnce
<1>1. FireRight(n)
  BY DEF FireOnce
<1>2. NoWalk => ~FireIn(n)
  <2> SUFFICES ASSUME NEW b \in Actors, NEW i \in 1..Len(code[b]), FireAt(b, i, n), NoWalk
               PROVE  FALSE
    BY DEF FireIn
  <2>1. code[b] \in Seq(Frame)
    BY DEF Types
  <2>2. code[b][i] \in Frames(b) /\ code[b][i].op = "fire"
    BY <2>1 DEF Frames, FireAt
  <2> QED
    BY <2>2 DEF NoWalk
<1>3. fired[n] <= 1
  BY <1>1 DEF FireRight
<1> QED
  BY <1>1, <1>2, <1>3 DEF FireRight

\* A binding is fired at most once, whoever cancels and however often, and once
\* cancellation is over it has been fired exactly when its node has a cause.
THEOREM BindingsFireOnce == Spec => []BindingFiresOnce
<1> DEFINE Inv == Trees /\ Locks /\ FireOnce
<1>1. Init => Inv
  BY InitLocks, InitFires
<1>2. Inv /\ [Next]_vars => Inv'
  <2> SUFFICES ASSUME Inv, [Next]_vars PROVE Inv'
    OBVIOUS
  <2>1. Trees' /\ Locks'
    BY NextLocks
  <2> QED
    BY <2>1, FireNext
<1>3. Inv => BindingFiresOnce
  BY FiresOnce DEF Trees
<1> HIDE DEF Inv
<1> QED
  BY <1>1, <1>2, <1>3, PTL DEF Spec

-----------------------------------------------------------------------------
(***************************************************************************)
(* A cause spreads.                                                        *)
(***************************************************************************)
LEMMA OtherStack ==
    ASSUME Types, Lifecycle, StacksFit, NEW a \in Actors, Step(a), NEW b \in Actors, b # a,
           b # Top(a).node \/ ~ArmStarts(a)
    PROVE  code'[b] = code[b]
<1>1. CASE Takes(a) \/ Gives(a)
  BY <1>1, PopWhat DEF Takes, Gives
<1>2. ArmStarts(a) => code'[b] = code[b]
  BY ArmStacks
<1>3. ASSUME NEW fs \in Seq(Frame), Pushes(a, fs) PROVE code'[b] = code[b]
  BY <1>3, MovesWhat DEF Pushes
<1> QED
  BY <1>1, <1>2, <1>3, StepStack

\* Only err() writes the answer of its own actor.
LEMMA StepReg ==
    ASSUME Types, StacksFit, NEW a \in Actors, Step(a)
    PROVE  /\ reg' = reg \/ Err(a)
           /\ \A b \in Actors : b # a => reg'[b] = reg[b]
<1>1. reg' = reg \/ Err(a)
  <2>1. CASE Locking(a)
    BY <2>1 DEF Locking, RequestExclusive, Share, Unshare
  <2>2. CASE Walk(a)
    BY <2>2 DEF Walk, Mark, Broadcast, Fire, NextKid, Stop
  <2>3. CASE Asks(a)
    BY <2>3 DEF Asks, Inherit, Return
  <2>4. CASE Creating(a)
    BY <2>4 DEF Creating, Attach, Adopt, Arm, Ready
  <2>5. CASE Links(a)
    BY <2>5 DEF Links, Bind, Unbind, Join, Detach, Free
  <2>6. CASE Wait(a) \/ WaitTimeout(a)
    BY <2>6 DEF Wait, WaitTimeout
  <2>7. CASE a \in Nodes /\ Timer(a)
    BY <2>7, WhatTimer
  <2> QED
    BY <2>1, <2>2, <2>3, <2>4, <2>5, <2>6, <2>7 DEF Step
<1>2. Err(a) => reg' = reg \/ \E c : reg' = [reg EXCEPT ![a] = c]
  BY WhatErr
<1>3. \A c : reg' = [reg EXCEPT ![a] = c] => \A b \in Actors : b # a => reg'[b] = reg[b]
  BY DEF Types
<1> QED
  BY <1>1, <1>2, <1>3

\* The head of a stack that is not empty.
LEMMA TopIsFirst ==
    ASSUME Types, NEW a \in Actors, code[a] # <<>>
    PROVE  1 \in 1..Len(code[a]) /\ Top(a) = code[a][1] /\ code[a] \in Seq(Frame)
<1> DEFINE st == code[a]
           h == Top(a)
<1>1. st \in Seq(Frame) /\ st # <<>> /\ h = Head(st)
  BY DEF Types, Top
<1> HIDE DEF st, h
<1>2. 1 \in 1..Len(st) /\ h = st[1]
  BY <1>1
<1> QED
  BY <1>1, <1>2 DEF st, h

\* After a step err() is at the head only where it was, or where a child starts.
LEMMA ErrHead ==
    ASSUME Types, Lifecycle, StacksFit, NEW a \in Actors, Step(a), code[a] # <<>>,
           1 \in 1..Len(code'[a]), code'[a][1].op = "err"
    PROVE  Top(a).op \in {"err", "attach"}
<1>1. CASE OldFrame(a, code'[a][1])
  <2>1. PICK k \in 1..Len(code[a]) : code[a][k].op = "err"
    BY <1>1 DEF OldFrame
  <2>2. k = 1
    BY <2>1 DEF StacksFit, StackFits, FrameFits
  <2> QED
    BY <2>1, <2>2, TopIsFirst
<1>2. CASE NewFrame(a, code'[a][1], 1)
  BY <1>2 DEF NewFrame
<1>3. ~TaskFrame(a, a, code'[a][1])
  BY DEF TaskFrame, F
<1> QED
  BY <1>1, <1>2, <1>3, FrameFrom

\* Nobody else is at a node when detachAndReparentChildren takes it out.
LEMMA DetachAlone ==
    ASSUME Trees, Locks, Pointers, NEW a \in Actors, Detach(a),
           NEW b \in Actors, NEW i \in 1..Len(code[b]), code[b][i].node = Top(a).node
    PROVE  b = a /\ i = 1
<1> DEFINE x == Top(a).node
<1>0. /\ Types /\ Lifecycle /\ StacksFit /\ LocksRight /\ Rooted /\ TimerHome
      /\ Borrow /\ AskSafe /\ Held
  BY DEF Trees, Locks, Pointers
<1>1. /\ Head1(a, {"detach"}) /\ x \in Nodes /\ CanExclude /\ Top(a).op = "detach"
      /\ code[a] # <<>> /\ state[x] = "closing" /\ code[x] = <<>>
  BY <1>0, WhatDetach, DetachParents, DetachTimer DEF Head1
<1>2. Len(code[a]) = 1 /\ Top(a) \in LifeIn(code[a])
  BY <1>0, <1>1, LifeAlone DEF LifeOps
<1>3. b # a => FALSE
  <2> SUFFICES ASSUME b # a PROVE FALSE
    OBVIOUS
  <2>1. HeldAt(b, i) /\ code[b] # <<>>
    BY <1>0 DEF Held
  <2>2. ASSUME b \in Threads, x \in uses[b] PROVE FALSE
    <3>1. \E f \in LifeIn(code[b]) : f.node = x
      BY <1>0, <1>1, <2>1, <2>2 DEF Borrow
    <3> QED
      BY <1>0, <1>2, <3>1 DEF Lifecycle
  <2>3. ~Borrowed(b, code[b][i])
    BY <2>2 DEF Borrowed
  <2>4. ~Own(b, code[b][i])
    BY <1>1, <2>1 DEF Own
  <2>5. ~InTree(b, i)
    BY <1>0, <1>1, CoveredHolds DEF InTree
  <2>6. ~Upward(b, i)
    <3> SUFFICES ASSUME Upward(b, i) PROVE FALSE
      OBVIOUS
    <3>1. b \in Threads /\ OnChain(b, x)
      BY DEF Upward
    <3>2. Asking(b)
      BY <1>0, AskFrame DEF Upward, AskOps
    <3> QED
      BY <1>0, <1>1, <3>1, <3>2, NoneIsNoParent DEF OnChain, AskSafe
  <2> QED
    BY <2>1, <2>3, <2>4, <2>5, <2>6 DEF HeldAt
<1> QED
  BY <1>2, <1>3

\* n still has to hear of the cause of its parent p: the walk comes to it, or
\* its init asks.
RespAt(b, i, n, p) ==
    \/ code[b][i].op = "fire" /\ code[b][i].node = p
    \/ code[b][i].op = "kids" /\ code[b][i].node = p /\ n \in code[b][i].todo
    \/ code[b][i].op = "mark" /\ code[b][i].node = n
    \/ /\ code[b][i].op = "adopt" /\ code[b][i].node = n
       /\ IF code[b][1].op = "err" THEN i = 2 /\ code[b][1].node = p ELSE reg[b] # None
Resp(n, p) == \E b \in Actors : \E i \in 1..Len(code[b]) : RespAt(b, i, n, p)
Due(n, p)  == cause[n] = None /\ p \in Nodes /\ cause[p] # None
Spread     == \A n \in Nodes : Due(n, parent[n]) => Resp(n, parent[n])

\* No cause is not a cause.
LEMMA NoneNoCause == None \notin Causes
  BY ContextAssumption

\* A stack that comes to hold a mark frame for n.
LEMMA MarkPushed ==
    ASSUME Types, NEW a \in Actors, NEW n \in Nodes, NEW c \in Causes, NEW p,
           NEW fs \in Seq(Frame), Moves(a, fs), NEW k \in 1..Len(fs),
           fs[k].op = "mark", fs[k].node = n
    PROVE  Resp(n, p)'
<1>1. k \in 1..Len(code'[a]) /\ code'[a][k] = fs[k]
  BY MovedFrames
<1>2. RespAt(a, k, n, p)'
  BY <1>1 DEF RespAt
<1> QED
  BY <1>1, <1>2 DEF Resp

-----------------------------------------------------------------------------
\* Who has still to tell n, below the head of the stack that makes the step or
\* on another actor's, still has to.
LEMMA RespElsewhere ==
    ASSUME Types, Lifecycle, StacksFit, NotArmed, NEW a \in Actors, Step(a),
           NEW n \in Nodes, NEW p \in Nodes, cause[p] # None,
           NEW b \in Actors, NEW k \in 1..Len(code[b]), RespAt(b, k, n, p), b # a \/ k # 1
    PROVE  Resp(n, p)'
<1>1. b # Top(a).node \/ ~ArmStarts(a)
  <2> SUFFICES ASSUME b = Top(a).node, ArmStarts(a) PROVE FALSE
    OBVIOUS
  <2>1. Top(a).op = "arm" /\ code[a] # <<>>
    BY ArmStacks DEF ArmStarts, Head1
  <2>2. code[Top(a).node] = <<>>
    BY <2>1, TopIsFirst DEF NotArmed
  <2> QED
    BY <2>2
<1>2. PICK i \in 1..Len(code'[b]) : code'[b][i] = code[b][k] /\ (b # a => i = k)
  BY <1>1, FrameStays
<1>3. ASSUME code[b][k].op # "adopt" PROVE RespAt(b, i, n, p)'
  BY <1>2, <1>3 DEF RespAt
<1>4. CASE b # a
  <2>1. code'[b] = code[b] /\ reg'[b] = reg[b]
    BY <1>1, <1>4, OtherStack, StepReg
  <2>2. RespAt(b, k, n, p)' /\ k \in 1..Len(code'[b])
    BY <2>1 DEF RespAt
  <2> QED
    BY <2>2 DEF Resp
<1>5. ASSUME b = a, code[b][k].op = "adopt", code[a] # <<>> PROVE RespAt(b, i, n, p)'
  <2>1. /\ 1 \in 1..Len(code[a]) /\ Top(a) = code[a][1]
        /\ Len(code[a]) \in Nat /\ k \in 1..Len(code[a]) /\ k # 1
    BY <1>4, <1>5, TopIsFirst
  <2>2. code'[a][i].op = "adopt" /\ code'[a][i].node = n /\ i \in 1..Len(code'[a])
    BY <1>2, <1>5 DEF RespAt
  <2>3. CASE Top(a).op = "err"
    <3>1. k = 2 /\ Top(a).node = p /\ Err(a)
      BY <1>5, <2>1, <2>3, HeadOnly DEF RespAt
    <3>2. Moves(a, <<>>) /\ (reg' = [reg EXCEPT ![a] = cause[p]] \/ reg' = [reg EXCEPT ![a] = ErrNoLock(p)])
      BY <3>1, WhatErr, NoneIsNoParent
    <3>3. reg'[a] # None
      BY <3>2, AskedItself DEF Types
    <3>4. code'[a] = Tail(code[a])
      BY <3>2, PopWhat
    <3>5. 1 \in 1..Len(code'[a])
      BY <2>2
    <3>6. code'[a][1] = code[a][1 + 1]
      BY <1>5, <3>4, <3>5, PopFrames
    <3>7. code'[a][1].op # "err"
      BY <1>5, <3>1, <3>6
    <3> QED
      BY <1>5, <2>2, <3>3, <3>7 DEF RespAt
  <2>4. CASE Top(a).op # "err"
    <3>1. reg[a] # None
      BY <1>5, <2>1, <2>4 DEF RespAt
    <3>2. reg' = reg
      BY <2>4, StepReg, HeadOf
    <3>3. Top(a).op # "attach"
      BY <2>1 DEF StacksFit, StackFits, FrameFits
    <3>4. 1 \in 1..Len(code'[a])
      BY <2>2
    <3>5. code'[a][1].op # "err"
      BY <1>5, <2>4, <3>3, <3>4, ErrHead
    <3> QED
      BY <1>5, <2>2, <3>1, <3>2, <3>5 DEF RespAt
  <2> QED
    BY <2>3, <2>4
<1>6. code[b] # <<>>
  OBVIOUS
<1> QED
  BY <1>2, <1>3, <1>4, <1>5, <1>6 DEF Resp

\* The frame at the head hands n on to the frames it leaves.
LEMMA RespHead ==
    ASSUME Types, LinksAgree, NEW a \in Actors, Step(a), code[a] # <<>>,
           NEW n \in Nodes, NEW p \in Nodes, parent[n] = p, cause[n] = None, cause'[n] = None,
           RespAt(a, 1, n, p)
    PROVE  Resp(n, p)'
<1>0. Top(a) = code[a][1] /\ n \in children[p]
  BY TopIsFirst DEF LinksAgree, Parents
<1>1. CASE Top(a).op = "fire"
  <2>1. Fire(a) /\ Top(a).node = p
    BY <1>0, <1>1, HeadOnly DEF RespAt
  <2> DEFINE f == Kids(p, Top(a).arg, children[p])
  <2>2. Moves(a, <<f>>) /\ f \in Frame
    BY <2>1, WhatFire
  <2>3. f.op = "kids" /\ f.node = p /\ n \in f.todo
    BY <1>0 DEF Kids
  <2> HIDE DEF f
  <2> DEFINE fs == <<f>>
  <2>4. fs \in Seq(Frame) /\ Len(fs) = 1 /\ fs[1] = f /\ Moves(a, fs)
    BY <2>2
  <2> HIDE DEF fs
  <2>7. 1 \in 1..Len(fs)
    BY <2>4
  <2>5. 1 \in 1..Len(code'[a]) /\ code'[a][1] = f
    BY <2>4, <2>7, MovedFrames
  <2>6. RespAt(a, 1, n, p)'
    BY <2>3, <2>5 DEF RespAt
  <2> QED
    BY <2>5, <2>6 DEF Resp
<1>2. CASE Top(a).op = "kids"
  <2>1. NextKid(a) /\ Top(a).node = p /\ n \in Top(a).todo
    BY <1>0, <1>2, HeadOnly DEF RespAt
  <2>2. PICK m \in Top(a).todo :
            /\ Moves(a, Propagate(m, Top(a).arg)
                        \o <<Kids(Top(a).node, Top(a).arg, Top(a).todo \ {m})>>)
            /\ Kids(Top(a).node, Top(a).arg, Top(a).todo \ {m}) \in Frame
    BY <2>1, WhatNextKid
  <2>3. m \in Nodes /\ Top(a).arg \in Causes
    BY <2>1, WhatNextKid
  <2> DEFINE fs == Propagate(m, Top(a).arg)
             f  == Kids(Top(a).node, Top(a).arg, Top(a).todo \ {m})
  <2>4. /\ fs \in Seq(Frame) /\ OnNode(fs, m, {"stop", "share", "mark", "unshare"})
        /\ \E i \in 1..Len(fs) : fs[i].op = "mark"
    BY <2>3, PropagateBalanced, WalkFrames
  <2>5. f.op = "kids" /\ f.node = p /\ f.todo = Top(a).todo \ {m} /\ f \in Frame
    BY <2>1, <2>2 DEF Kids
  <2>6. Moves(a, fs \o <<f>>)
    BY <2>2
  <2> HIDE DEF fs, f
  <2>7. /\ fs \o <<f>> \in Seq(Frame) /\ Len(fs \o <<f>>) = Len(fs) + 1 /\ Len(fs) \in Nat
        /\ \A i \in 1..Len(fs) : (fs \o <<f>>)[i] = fs[i]
        /\ (fs \o <<f>>)[Len(fs) + 1] = f
    BY <2>4, <2>5
  <2>8. CASE m = n
    <3>1. PICK i \in 1..Len(fs) : fs[i].op = "mark"
      BY <2>4
    <3>2. i \in 1..Len(fs \o <<f>>) /\ (fs \o <<f>>)[i].op = "mark" /\ (fs \o <<f>>)[i].node = n
      BY <2>4, <2>7, <2>8, <3>1 DEF OnNode
    <3> QED
      BY <2>3, <2>6, <2>7, <3>2, MarkPushed
  <2>9. CASE m # n
    <3>1. PICK j : j = Len(fs) + 1
      OBVIOUS
    <3>2. j \in 1..Len(fs \o <<f>>) /\ (fs \o <<f>>)[j] = f
      BY <2>7, <3>1
    <3>3. j \in 1..Len(code'[a]) /\ code'[a][j] = f
      BY <2>6, <2>7, <3>2, MovedFrames
    <3>4. n \in f.todo
      BY <2>1, <2>5, <2>9
    <3>5. RespAt(a, j, n, p)'
      BY <2>5, <3>3, <3>4 DEF RespAt
    <3> QED
      BY <3>3, <3>5 DEF Resp
  <2> QED
    BY <2>8, <2>9
<1>3. CASE Top(a).op = "mark"
  <2>1. Mark(a) /\ Top(a).node = n
    BY <1>0, <1>3, HeadOnly DEF RespAt
  <2>2. cause' = [cause EXCEPT ![n] = Top(a).arg] /\ Top(a).arg \in Causes
    BY <2>1, WhatMark
  <2>3. cause'[n] \in Causes
    BY <2>2 DEF Types
  <2> QED
    BY <2>3, NoneNoCause
<1>4. CASE Top(a).op = "adopt"
  <2>1. Adopt(a) /\ Top(a).node = n /\ reg[a] # None
    BY <1>0, <1>4, HeadOnly DEF RespAt
  <2>2. Moves(a, Settle(n, reg[a]) \o <<F("ready", n)>>) /\ reg[a] \in Causes
    BY <2>1, WhatAdopt
  <2> DEFINE fs == MarkCanceled(n, reg[a])
             f  == F("ready", n)
  <2>3. Settle(n, reg[a]) = fs /\ fs \in Seq(Frame) /\ f \in Frame
    BY <2>1, <2>2, SettleFrames
  <2>4. /\ OnNode(fs, n, {"share", "mark", "unshare"})
        /\ \E i \in 1..Len(fs) : fs[i].op = "mark"
    BY <2>2, HeldBalanced
  <2>5. Moves(a, fs \o <<f>>)
    BY <2>2, <2>3
  <2> HIDE DEF fs, f
  <2>6. /\ fs \o <<f>> \in Seq(Frame) /\ Len(fs \o <<f>>) = Len(fs) + 1 /\ Len(fs) \in Nat
        /\ \A i \in 1..Len(fs) : (fs \o <<f>>)[i] = fs[i]
    BY <2>3
  <2>7. PICK i \in 1..Len(fs) : fs[i].op = "mark"
    BY <2>4
  <2>8. i \in 1..Len(fs \o <<f>>) /\ (fs \o <<f>>)[i].op = "mark" /\ (fs \o <<f>>)[i].node = n
    BY <2>4, <2>6, <2>7 DEF OnNode
  <2> QED
    BY <2>2, <2>5, <2>6, <2>8, MarkPushed
<1> QED
  BY <1>0, <1>1, <1>2, <1>3, <1>4 DEF RespAt

\* attachChild is followed by the question for the parent's cause.
LEMMA AttachAsks ==
    ASSUME Types, StacksFit, NEW a \in Actors, Attach(a),
           NEW n, n = Top(a).node, NEW p, p = Top(a).arg
    PROVE  Resp(n, p)'
<1> DEFINE x == F("err", p)
           y == F("adopt", n)
<1>1. Head1(a, {"attach"}) /\ Moves(a, <<x, y>>) /\ x \in Frame /\ y \in Frame
  BY WhatAttach
<1>2. x.op = "err" /\ x.node = p /\ y.op = "adopt" /\ y.node = n
  BY DEF F
<1> HIDE DEF x, y
<1> DEFINE fs == <<x, y>>
<1>3. fs \in Seq(Frame) /\ Len(fs) = 2 /\ fs[1] = x /\ fs[2] = y /\ Moves(a, fs)
  BY <1>1
<1> HIDE DEF fs
<1>4. 1 \in 1..Len(fs) /\ 2 \in 1..Len(fs)
  BY <1>3
<1>5. 2 \in 1..Len(code'[a]) /\ code'[a][1] = x /\ code'[a][2] = y
  <2>1. \A i \in 1..Len(fs) : i \in 1..Len(code'[a]) /\ code'[a][i] = fs[i]
    BY <1>3, MovedFrames
  <2> QED
    BY ONLY <1>3, <1>4, <2>1
<1>6. RespAt(a, 2, n, p)'
  BY <1>2, <1>5 DEF RespAt
<1> QED
  BY <1>5, <1>6 DEF Resp

\* A child of a node that leaves the tree hears of the cause from above it.
LEMMA DetachSpread ==
    ASSUME Trees, Locks, Pointers, Spread, NEW a \in Actors, Detach(a), Step(a),
           NEW x \in Nodes, x = Top(a).node, NEW p \in Nodes, parent[x] = p, cause[p] # None,
           NEW n \in Nodes, parent[n] = x, cause[n] = None
    PROVE  Resp(n, p)'
<1>0. /\ Types /\ Lifecycle /\ StacksFit /\ LocksRight /\ NotArmed /\ Rooted
      /\ CanExclude /\ Top(a) = code[a][1] /\ Top(a).op = "detach" /\ code[a] # <<>>
  BY WhatDetach DEF Trees, Locks, Head1
<1>1. ASSUME NEW b \in Actors, NEW i \in 1..Len(code[b]), code[b][i].node = x,
             code[b][i].op # "detach"
      PROVE  FALSE
  BY <1>0, <1>1, DetachAlone
<1>2. ASSUME NEW b \in Actors, NEW i \in 1..Len(code[b]), RespAt(b, i, n, p)
      PROVE  Resp(n, p)'
  <2>1. code[b][i].op # "detach"
    BY <1>2 DEF RespAt
  <2>2. b # a \/ i # 1
    BY <1>0, <2>1
  <2> QED
    BY <1>0, <1>2, <2>2, RespElsewhere
<1>3. CASE cause[x] = None
  <2>1. Resp(x, p)
    BY <1>3 DEF Spread, Due
  <2>2. PICK b \in Actors : \E i \in 1..Len(code[b]) : RespAt(b, i, x, p)
    BY <2>1 DEF Resp
  <2>3. PICK i \in 1..Len(code[b]) : RespAt(b, i, x, p)
    BY <2>2
  <2>4. code[b][i].op # "kids"
    <3> SUFFICES ASSUME code[b][i].op = "kids" PROVE FALSE
      OBVIOUS
    <3>1. shares[b] > 0
      BY <1>0, KidsShared
    <3> QED
      BY <1>0, <3>1 DEF CanExclude
  <2>5. code[b][i].op = "fire" /\ code[b][i].node = p
    BY <1>1, <2>3, <2>4 DEF RespAt
  <2>6. RespAt(b, i, n, p)
    BY <2>5 DEF RespAt
  <2> QED
    BY <1>2, <2>6
<1>4. CASE cause[x] # None
  <2>1. Resp(n, x)
    BY <1>4 DEF Spread, Due
  <2>2. PICK b \in Actors : \E i \in 1..Len(code[b]) : RespAt(b, i, n, x)
    BY <2>1 DEF Resp
  <2>3. PICK i \in 1..Len(code[b]) : RespAt(b, i, n, x)
    BY <2>2
  <2>4. code[b] # <<>> /\ 1 \in 1..Len(code[b])
    BY <1>0, TopIsFirst
  <2>5. ~(code[b][1].op = "err" /\ code[b][1].node = x)
    BY <1>1, <2>4
  <2>6. RespAt(b, i, n, p)
    BY <1>1, <2>3, <2>5 DEF RespAt
  <2> QED
    BY <1>2, <2>6
<1> QED
  BY <1>3, <1>4

\* A step keeps every child of a canceled node canceled or due.
LEMMA SpreadStep ==
    ASSUME Trees, Locks, Pointers, Spread, Types', NEW a \in Actors, Step(a)
    PROVE  Spread'
<1> SUFFICES ASSUME NEW n \in Nodes, NEW p \in Nodes, p = parent'[n],
                    cause'[n] = None, cause'[p] # None
             PROVE  Resp(n, p)'
  BY DEF Spread, Due
<1>0. /\ Types /\ Lifecycle /\ StacksFit /\ LocksRight /\ NotArmed /\ Rooted /\ LinksAgree
      /\ TreeWellFormed
  BY DEF Trees, Locks, TreeWellFormed
<1>1. CASE cause[p] = None
  <2>1. Mark(a)
    BY <1>0, <1>1, StepMarks, WhatFire, WhatBind
  <2>2. p = Top(a).node
    <3>1. cause \in [Nodes -> Causes \cup {None}]
      BY <1>0 DEF Types
    <3>2. \/ cause' = cause
          \/ cause' = [cause EXCEPT ![Top(a).node] = Top(a).arg]
      BY <1>0, <2>1, WhatMark
    <3> QED
      BY <1>1, <3>1, <3>2
  <2>3. FireIn(p)'
    BY <1>0, <1>1, <2>1, <2>2, MarkFires
  <2>4. PICK b \in Actors : \E i \in 1..Len(code'[b]) : FireAt(b, i, p)'
    BY <2>3 DEF FireIn
  <2>5. PICK i \in 1..Len(code'[b]) : FireAt(b, i, p)'
    BY <2>4
  <2>6. RespAt(b, i, n, p)'
    BY <2>5 DEF RespAt, FireAt
  <2> QED
    BY <2>6 DEF Resp
<1>2. ASSUME cause[p] # None, parent[n] = p PROVE Resp(n, p)'
  <2>1. cause[n] = None
    <3>1. CASE Mark(a)
      <4>1. cause \in [Nodes -> Causes \cup {None}]
        BY <1>0 DEF Types
      <4> QED
        BY <1>0, <3>1, <4>1, WhatMark
    <3>2. CASE cause' = cause
      BY <3>2
    <3> QED
      BY <1>0, <3>1, <3>2, StepMarks, WhatFire, WhatBind
  <2>2. Resp(n, p)
    BY <1>2, <2>1 DEF Spread, Due
  <2>3. PICK b \in Actors : \E i \in 1..Len(code[b]) : RespAt(b, i, n, p)
    BY <2>2 DEF Resp
  <2>4. PICK i \in 1..Len(code[b]) : RespAt(b, i, n, p)
    BY <2>3
  <2>5. CASE b = a /\ i = 1
    <3>1. code[a] # <<>>
      BY <2>4, <2>5
    <3> QED
      BY <1>0, <1>2, <2>1, <2>4, <2>5, <3>1, RespHead
  <2>6. CASE b # a \/ i # 1
    BY <1>0, <1>2, <2>4, <2>6, RespElsewhere
  <2> QED
    BY <2>5, <2>6
<1>3. CASE Attach(a) /\ parent[n] # p
  <2>1. n = Top(a).node /\ p = Top(a).arg
    <3>1. parent \in [Nodes -> Parents \cup {None}]
      BY <1>0 DEF Types
    <3>2. parent' = [parent EXCEPT ![Top(a).node] = Top(a).arg]
      BY <1>0, <1>3, WhatAttach
    <3> QED
      BY <1>3, <3>1, <3>2
  <2> QED
    BY <1>0, <1>3, <2>1, AttachAsks
<1>4. CASE Detach(a) /\ parent[n] # p /\ cause[p] # None
  <2>1. PICK x \in Nodes : x = Top(a).node
    BY <1>0, <1>4, DetachParents
  <2>2. n \in children[x] /\ p = parent[x]
    BY <1>0, <1>4, <2>1, DetachParents, NoneIsNoParent DEF Parents
  <2>3. parent[n] = x
    BY <1>0, <2>2 DEF LinksAgree, Parents
  <2>4. cause[n] = None
    BY <1>0, <1>4, WhatDetach
  <2> QED
    BY <1>4, <2>1, <2>2, <2>3, <2>4, DetachSpread
<1>5. Attach(a) \/ Detach(a) \/ parent' = parent
  BY <1>0, StepTree, WhatReady
<1> QED
  BY <1>1, <1>2, <1>3, <1>4, <1>5

-----------------------------------------------------------------------------
\* So does a call.
LEMMA SpreadCall ==
    ASSUME Types, Spread, NEW t \in Threads, Call(t)
    PROVE  Spread'
<1>1. /\ t \in Actors /\ code[t] = <<>> /\ UNCHANGED <<parent, cause, reg>>
      /\ \A b \in Actors : b # t => code'[b] = code[b]
  BY CallStarts, StartLife
<1> SUFFICES ASSUME NEW n \in Nodes, NEW p, p = parent[n], Due(n, p)
             PROVE  Resp(n, p)'
  BY <1>1 DEF Spread, Due
<1>2. PICK b \in Actors : \E i \in 1..Len(code[b]) : RespAt(b, i, n, p)
  BY DEF Spread, Resp
<1>3. PICK i \in 1..Len(code[b]) : RespAt(b, i, n, p)
  BY <1>2
<1>4. b # t
  BY <1>1, <1>3
<1>5. code'[b] = code[b] /\ reg'[b] = reg[b]
  BY <1>1, <1>4
<1>6. RespAt(b, i, n, p)' /\ i \in 1..Len(code'[b])
  BY <1>3, <1>5 DEF RespAt
<1> QED
  BY <1>6 DEF Resp

\* So does every step.
LEMMA NextSpread ==
    ASSUME Trees, Locks, Pointers, Spread, Types', [Next]_vars
    PROVE  Spread'
<1>1. CASE \E a \in Actors : Step(a)
  BY <1>1, SpreadStep
<1>2. CASE \E t \in Threads : Call(t)
  BY <1>2, SpreadCall DEF Trees
<1>3. CASE UNCHANGED <<parent, cause, code, reg>>
  BY <1>3 DEF Spread, Due, Resp, RespAt
<1> QED
  BY <1>1, <1>2, <1>3, NextCases

\* With no walk under way nothing is due, so cancellation is everywhere below.
LEMMA SpreadReaches == Types /\ Spread => PropagationComplete
<1> SUFFICES ASSUME Types, Spread, NoWalk, NEW n \in Nodes, NEW p \in Nodes, p = parent[n],
                    cause[p] # None, cause[n] = None
             PROVE  FALSE
  BY DEF PropagationComplete
<1>1. PICK b \in Actors : \E i \in 1..Len(code[b]) : RespAt(b, i, n, p)
  BY DEF Spread, Due, Resp
<1>2. PICK i \in 1..Len(code[b]) : RespAt(b, i, n, p)
  BY <1>1
<1>3. code[b][i] \in Frames(b)
  BY <1>2 DEF Frames, Types
<1> QED
  BY <1>2, <1>3 DEF NoWalk, RespAt

(***************************************************************************)
(* What err() answers is kept.                                             *)
(***************************************************************************)
\* The question for n is still to be answered, has been answered by a cause
\* that n keeps or is about to, or nothing was found.
AskFor       == {"err", "inherit", "mark"}
Answer(t, n) ==
    \/ cause[n] # None
    \/ \E j \in 1..Len(code[t]) : code[t][j].op \in AskFor /\ code[t][j].node = n
    \/ reg[t] = None /\ code[t][1].op # "err"
Answered ==
    \A t \in Threads : \A i \in 1..Len(code[t]) : \A n \in Nodes :
        code[t][i].op = "return" /\ code[t][i].node = n /\ KindOf[n] # "value" => Answer(t, n)

\* A step withdraws no cause.
LEMMA StickyCause ==
    ASSUME Types, StacksFit, NEW a \in Actors, Step(a), NEW n \in Nodes, cause[n] # None
    PROVE  cause'[n] # None
<1>1. CASE Mark(a)
  <2>1. cause \in [Nodes -> Causes \cup {None}]
    BY DEF Types
  <2> QED
    BY <1>1, <2>1, WhatMark, NoneNoCause
<1>2. CASE cause' = cause
  BY <1>2
<1> QED
  BY <1>1, <1>2, StepMarks, WhatFire, WhatBind

\* A stack with a mark frame for n among the frames pushed.
LEMMA AnswerPushed ==
    ASSUME Types, NEW a \in Actors, NEW n \in Nodes, NEW c \in Causes,
           Moves(a, MarkCanceled(n, c))
    PROVE  Answer(a, n)'
<1> DEFINE fs == MarkCanceled(n, c)
<1>1. /\ fs \in Seq(Frame) /\ OnNode(fs, n, {"share", "mark", "unshare"})
      /\ \E i \in 1..Len(fs) : fs[i].op = "mark"
  BY WalkFrames, HeldBalanced
<1>2. Moves(a, fs)
  OBVIOUS
<1> HIDE DEF fs
<1>3. PICK i \in 1..Len(fs) : fs[i].op = "mark"
  BY <1>1
<1>4. i \in 1..Len(code'[a]) /\ code'[a][i] = fs[i]
  BY <1>1, <1>2, MovedFrames
<1> QED
  BY <1>1, <1>3, <1>4 DEF Answer, AskFor, OnNode

\* err() at the head of a stack that ends in the call's return frame.
LEMMA ErrAnswer ==
    ASSUME Types, StacksFit, NEW t \in Actors, Err(t), NEW n \in Nodes, Top(t).node = n,
           KindOf[n] # "value", code'[t] # <<>>
    PROVE  Answer(t, n)'
<1>1. Head1(t, {"err"}) /\ UNCHANGED cause /\ n # Root
  BY WhatErr, NoneIsNoParent
<1>2. CASE reg' = [reg EXCEPT ![t] = cause[n]] /\ Moves(t, <<>>)
  <2>1. CASE cause[n] = None
    <3>1. reg'[t] = None
      BY <1>2, <2>1 DEF Types
    <3>2. code'[t] = Tail(code[t])
      BY <1>2, PopWhat
    <3>3. 1 \in 1..Len(code'[t])
      BY <1>1, <3>2 DEF Head1
    <3>4. 1 + 1 \in 2..Len(code[t]) /\ code'[t][1] = code[t][1 + 1]
      BY <1>1, <3>2, <3>3, PopFrames DEF Head1
    <3>5. code'[t][1].op # "err"
      BY <3>4 DEF StacksFit, StackFits, FrameFits
    <3> QED
      BY <3>1, <3>5 DEF Answer
  <2>2. CASE cause[n] # None
    BY <1>1, <2>2 DEF Answer
  <2> QED
    BY <2>1, <2>2
<1>3. ASSUME NEW x \in Frame, NEW y \in Frame, y = F("inherit", n), Moves(t, <<x, y>>)
      PROVE  Answer(t, n)'
  <2> DEFINE fs == <<x, y>>
  <2>1. fs \in Seq(Frame) /\ Len(fs) = 2 /\ fs[2] = y /\ Moves(t, fs)
    BY <1>3
  <2> HIDE DEF fs
  <2>2. 2 \in 1..Len(fs)
    BY <2>1
  <2>3. 2 \in 1..Len(code'[t]) /\ code'[t][2] = y
    BY <2>1, <2>2, MovedFrames
  <2>4. y.op = "inherit" /\ y.node = n
    BY <1>3 DEF F
  <2> QED
    BY <2>3, <2>4 DEF Answer, AskFor
<1>4. CASE Moves(t, MarkCanceled(n, DeadlineExceeded))
  <2>1. DeadlineExceeded \in Causes
    BY DEF Causes
  <2> QED
    BY <1>4, <2>1, AnswerPushed
<1> QED
  BY <1>1, <1>2, <1>3, <1>4, WhatErr

\* A step keeps an answer true of its node, or still to be made true.
LEMMA AnswerStep ==
    ASSUME Types, Lifecycle, StacksFit, NotArmed, NEW a \in Actors, Step(a),
           NEW t \in Threads, NEW n \in Nodes, KindOf[n] # "value", Answer(t, n),
           NEW r \in 1..Len(code[t]), code[t][r].op = "return", code'[t] # <<>>,
           code'[t] \in Seq(Frame)
    PROVE  Answer(t, n)'
<1>0. t # Top(a).node \/ ~ArmStarts(a)
  BY ArmStacks, NoneIsNoParent DEF Actors
<1>a. t \in Actors /\ code[t] # <<>>
  BY DEF Actors
<1>1. CASE cause[n] # None
  BY <1>1, StickyCause DEF Answer
<1>2. CASE t # a
  <2>1. code'[t] = code[t] /\ reg'[t] = reg[t]
    BY <1>0, <1>a, <1>2, OtherStack, StepReg
  <2> QED
    BY <1>1, <2>1 DEF Answer
<1>3. ASSUME NEW j \in 1..Len(code[t]), code[t][j].op \in AskFor, code[t][j].node = n,
             t = a, j # 1
      PROVE  Answer(t, n)'
  <2>1. \E i \in 1..Len(code'[t]) : code'[t][i] = code[t][j]
    BY <1>0, <1>a, <1>3, FrameStays
  <2> QED
    BY <1>3, <2>1 DEF Answer
<1>4. ASSUME t = a, code[a][1].op \in AskFor, code[a][1].node = n, cause[n] = None
      PROVE  Answer(t, n)'
  <2>0. Top(a) = code[a][1]
    BY <1>a, <1>4, TopIsFirst
  <2>1. CASE Top(a).op = "err"
    <3>1. Err(a)
      BY <2>1, HeadOnly
    <3> QED
      BY <1>4, <2>0, <3>1, ErrAnswer
  <2>2. CASE Top(a).op = "inherit"
    <3>1. Inherit(a) /\ reg' = reg
      BY <2>2, HeadOnly, WhatInherit
    <3>2. CASE reg[a] = None
      <4>1. 1 \in 1..Len(code'[a])
        BY <1>4
      <4>2. code'[a][1].op # "err"
        BY <1>a, <1>4, <2>2, <4>1, ErrHead
      <4> QED
        BY <1>4, <3>1, <3>2, <4>2 DEF Answer
    <3>3. CASE reg[a] # None
      <4>1. reg[a] \in Causes /\ Moves(a, MarkCanceled(n, reg[a]))
        BY <1>4, <2>0, <3>1, <3>3, WhatInherit
      <4> QED
        BY <1>4, <4>1, AnswerPushed
    <3> QED
      BY <3>2, <3>3
  <2>3. CASE Top(a).op = "mark"
    <3>1. Mark(a)
      BY <2>3, HeadOnly
    <3>2. cause' = [cause EXCEPT ![n] = Top(a).arg] /\ Top(a).arg \in Causes
      BY <1>4, <2>0, <3>1, WhatMark
    <3>3. cause'[n] \in Causes
      BY <3>2 DEF Types
    <3> QED
      BY <3>3, NoneNoCause DEF Answer
  <2> QED
    BY <1>4, <2>0, <2>1, <2>2, <2>3 DEF AskFor
<1>5. ASSUME t = a, reg[a] = None, code[a][1].op # "err"
      PROVE  Answer(t, n)'
  <2>0. Top(a) = code[a][1] /\ 1 \in 1..Len(code[a])
    BY <1>a, <1>5, TopIsFirst
  <2>1. reg' = reg
    BY <1>5, <2>0, StepReg, HeadOf
  <2>2. Top(a).op # "attach"
    BY <1>5, <2>0 DEF StacksFit, StackFits, FrameFits
  <2>3. 1 \in 1..Len(code'[a])
    BY <1>5
  <2>4. code'[a][1].op # "err"
    BY <1>a, <1>5, <2>0, <2>2, <2>3, ErrHead
  <2> QED
    BY <1>5, <2>1, <2>4 DEF Answer
<1> QED
  BY <1>1, <1>2, <1>3, <1>4, <1>5 DEF Answer

\* A step keeps every answer so.
LEMMA AnsweredStep ==
    ASSUME Types, Lifecycle, StacksFit, NotArmed, Types', Answered, NEW a \in Actors, Step(a)
    PROVE  Answered'
<1> SUFFICES ASSUME NEW t \in Threads, NEW i \in 1..Len(code'[t]), NEW n \in Nodes,
                    code'[t][i].op = "return", code'[t][i].node = n, KindOf[n] # "value"
             PROVE  Answer(t, n)'
  BY DEF Answered
<1>0. t \in Actors
  BY DEF Actors
<1>1. ~NewFrame(a, code'[t][i], i)
  BY DEF NewFrame, PushOps, FreeOps, TimerOps
<1>2. ~TaskFrame(a, t, code'[t][i])
  BY DEF TaskFrame, F
<1>3. PICK k \in 1..Len(code[t]) : code[t][k] = code'[t][i]
  BY <1>0, <1>1, <1>2, FrameFrom DEF OldFrame
<1>4. Answer(t, n)
  BY <1>3 DEF Answered
<1>5. code'[t] # <<>> /\ code'[t] \in Seq(Frame)
  BY <1>0 DEF Types
<1> QED
  BY <1>3, <1>4, <1>5, AnswerStep

\* So does a call.
LEMMA AnsweredCall ==
    ASSUME Types, Answered, NEW t \in Threads, Call(t)
    PROVE  Answered'
<1>1. PICK n \in Nodes, fs \in Seq(Frame) : Starts(t, n, fs)
  BY CallStarts
<1>2. /\ t \in Actors /\ code'[t] = fs /\ UNCHANGED <<cause, reg>>
      /\ \A b \in Actors : b # t => code'[b] = code[b]
      /\ \A i \in 1..Len(fs) : fs[i].node = n
  BY <1>1, CallStarts, StartLife
<1>3. ASSUME NEW i \in 1..Len(fs), fs[i].op = "return" PROVE Answer(t, n)'
  <2>1. fs = <<F("err", n), F("return", n)>>
    BY <1>1, <1>3 DEF Starts, Makes, Borrows, Queries, Destroys, FA
  <2>2. 1 \in 1..Len(fs) /\ fs[1].op = "err" /\ fs[1].node = n
    BY <2>1 DEF F
  <2> QED
    BY <1>2, <2>2 DEF Answer, AskFor
<1>4. ASSUME NEW u \in Threads, u # t, NEW i \in 1..Len(code'[u]), NEW m \in Nodes,
             code'[u][i].op = "return", code'[u][i].node = m, KindOf[m] # "value"
      PROVE  Answer(u, m)'
  <2>1. code'[u] = code[u]
    BY <1>2, <1>4 DEF Actors
  <2>2. Answer(u, m)
    BY <1>4, <2>1 DEF Answered
  <2> QED
    BY <1>2, <2>1, <2>2 DEF Answer
<1> QED
  BY <1>2, <1>3, <1>4 DEF Answered

\* So does every step.
LEMMA NextAnswered ==
    ASSUME Trees, Locks, Types', Answered, [Next]_vars
    PROVE  Answered'
<1>0. Types /\ Lifecycle /\ StacksFit /\ NotArmed
  BY DEF Trees, Locks
<1>1. CASE \E a \in Actors : Step(a)
  BY <1>0, <1>1, AnsweredStep
<1>2. CASE \E t \in Threads : Call(t)
  BY <1>0, <1>2, AnsweredCall
<1>3. CASE UNCHANGED <<cause, code, reg>>
  BY <1>3 DEF Answered, Answer
<1> QED
  BY <1>1, <1>2, <1>3, NextCases

\* When err() returns nothing is left to do for its answer.
LEMMA AnswerIsKept == Types /\ StacksFit /\ Answered => ErrImpliesCanceled
<1> SUFFICES ASSUME Types, StacksFit, Answered, NEW t \in Threads, At(t, "return"),
                    reg[t] # None, KindOf[Top(t).node] # "value"
             PROVE  cause[Top(t).node] # None
  BY DEF ErrImpliesCanceled
<1>1. t \in Actors /\ code[t] # <<>> /\ Top(t).op = "return"
  BY DEF Actors, At, Top
<1>2. 1 \in 1..Len(code[t]) /\ Top(t) = code[t][1]
  BY <1>1, TopIsFirst
<1>3. Len(code[t]) = 1
  <2>1. FrameFits(t, code[t], 1) /\ code[t][1].op = "return"
    BY <1>1, <1>2 DEF StacksFit, StackFits
  <2> QED
    BY <2>1 DEF FrameFits
<1>4. Answer(t, Top(t).node)
  BY <1>1, <1>2, FramesNode DEF Answered
<1> QED
  BY <1>1, <1>2, <1>3, <1>4 DEF Answer, AskFor

-----------------------------------------------------------------------------
(***************************************************************************)
(* No deadline is early.                                                   *)
(***************************************************************************)
\* A deadline above n, or of a node that is gone, has passed.
Bounded(n) ==
    \E m \in Timers : /\ DeadlineOf[m] <= now
                      /\ m \in UpFrom(n) \/ state[m] \in {"detached", "freed"}
CleanNew == \A n \in Nodes : state[n] \in {"fresh", "init"} /\ parent[n] = None => cause[n] = None
EarlyCause == \A n \in Nodes : parent[n] # None /\ cause[n] = DeadlineExceeded => Bounded(n)

\* Only the timer task writes its locals, and no step moves the clock.
LEMMA StepLocal ==
    ASSUME Types, StacksFit, NEW a \in Actors, Step(a)
    PROVE  now' = now /\ (tlocal' = tlocal \/ (a \in Nodes /\ Timer(a)))
<1>1. CASE Locking(a)
  BY <1>1 DEF Locking, RequestExclusive, Share, Unshare, timerVars, clientVars
<1>2. CASE Walk(a)
  BY <1>2 DEF Walk, Mark, Broadcast, Fire, NextKid, Stop, timerVars, clientVars
<1>3. CASE Asks(a)
  BY <1>3 DEF Asks, Err, Inherit, Return, timerVars, clientVars
<1>4. CASE Creating(a)
  BY <1>4 DEF Creating, Attach, Adopt, Arm, Ready, timerVars, clientVars
<1>5. CASE Links(a)
  BY <1>5 DEF Links, Bind, Unbind, Join, Detach, Free, timerVars, clientVars
<1>6. CASE Wait(a) \/ WaitTimeout(a)
  BY <1>6 DEF Wait, WaitTimeout, timerVars, clientVars
<1>7. CASE a \in Nodes /\ Timer(a)
  BY <1>7, WhatTimer
<1> QED
  BY <1>1, <1>2, <1>3, <1>4, <1>5, <1>6, <1>7 DEF Step

\* A node that has left the tree does not come back.
LEMMA GoneStays ==
    ASSUME Types, Lifecycle, StacksFit, NEW a \in Actors, Step(a), NEW m \in Nodes,
           state[m] \in {"detached", "freed"}
    PROVE  state'[m] \in {"detached", "freed"}
  BY StepState

\* What is above a node stays above it, but for a node that leaves the tree.
LEMMA UpStays ==
    ASSUME Trees, Locks, NEW a \in Actors, Step(a), NEW n \in Nodes, NEW m \in UpFrom(n),
           Detach(a) => n # Top(a).node
    PROVE  m \in UpFrom(n)' \/ (Detach(a) /\ m = Top(a).node)
<1>0. Types /\ StacksFit /\ Rooted
  BY DEF Trees, Locks
<1>1. CASE Attach(a)
  BY <1>1, AttachUp
<1>2. CASE Detach(a)
  BY <1>0, <1>2, DetachUp
<1>3. CASE parent' = parent
  BY <1>3, UpSame
<1> QED
  BY <1>0, <1>1, <1>2, <1>3, StepTree, WhatReady

\* A passed deadline above a node stays there for it, or has been detached.
LEMMA BoundedKept ==
    ASSUME Trees, Locks, NEW a \in Actors, Step(a), NEW n \in Nodes, Bounded(n),
           Detach(a) => n # Top(a).node
    PROVE  Bounded(n)'
<1>0. Types /\ Lifecycle /\ StacksFit
  BY DEF Trees
<1>1. PICK m \in Timers : /\ DeadlineOf[m] <= now
                          /\ m \in UpFrom(n) \/ state[m] \in {"detached", "freed"}
  BY DEF Bounded
<1>2. m \in Nodes /\ now' = now
  BY <1>0, StepLocal DEF Timers
<1>3. ASSUME m \in UpFrom(n) PROVE m \in UpFrom(n)' \/ state'[m] \in {"detached", "freed"}
  <2>1. m \in UpFrom(n)' \/ (Detach(a) /\ m = Top(a).node)
    BY <1>3, UpStays
  <2>2. Detach(a) => state'[Top(a).node] = "detached"
    BY <1>0, StepState
  <2> QED
    BY <2>1, <2>2
<1>4. ASSUME state[m] \in {"detached", "freed"} PROVE state'[m] \in {"detached", "freed"}
  BY <1>0, <1>2, <1>4, GoneStays
<1> QED
  BY <1>1, <1>2, <1>3, <1>4 DEF Bounded

\* The same when no step of an actor is made.
LEMMA BoundedStays ==
    ASSUME Types, Types', parent' = parent, now' = now \/ now' = now + 1,
           \A m \in Nodes : state[m] \in {"detached", "freed"} => state'[m] = state[m],
           NEW n \in Nodes, Bounded(n)
    PROVE  Bounded(n)'
<1>1. PICK m \in Timers : /\ DeadlineOf[m] <= now
                          /\ m \in UpFrom(n) \/ state[m] \in {"detached", "freed"}
  BY DEF Bounded
<1>2. m \in Nodes /\ DeadlineOf[m] \in Int
  BY ContextAssumption DEF Timers
<1>a. now \in Nat
  BY DEF Types
<1>3. DeadlineOf[m] <= now'
  BY <1>1, <1>2, <1>a
<1>4. UpFrom(n)' = UpFrom(n)
  BY UpSame
<1> QED
  BY <1>1, <1>2, <1>3, <1>4 DEF Bounded

\* A deadline above a node above n is above n.
LEMMA BoundedBelow ==
    ASSUME NEW n, NEW m \in UpFrom(n), Bounded(m)
    PROVE  Bounded(n)
  BY UpAbove DEF Bounded

\* An expired node has such a deadline.
LEMMA ExpiredBounds ==
    ASSUME NEW n, Expired(n)
    PROVE  Bounded(n)
<1>1. PICK d \in Deadlines(n) : d <= now
  BY DEF Expired
<1>2. PICK m \in {k \in UpFrom(n) : KindOf[k] = "deadline"} : d = DeadlineOf[m]
  BY <1>1 DEF Deadlines
<1>3. m \in Timers
  BY <1>2, UpNodes DEF Timers
<1> QED
  BY <1>1, <1>2, <1>3 DEF Bounded

\* The nodes above another one are in the tree.
LEMMA AboveInTree ==
    ASSUME TreeWellFormed, Types, Rooted, NEW n \in Nodes, NEW m \in UpFrom(n), m # n
    PROVE  m \in Nodes /\ state[m] \in {"live", "closing"} /\ parent[m] # None
<1> DEFINE S == {n} \cup {k \in Nodes : state[k] \in {"live", "closing"}}
<1>1. \A k \in S : parent[k] \in Nodes => parent[k] \in S
  BY DEF TreeWellFormed, ParentsHeld
<1>2. UpFrom(n) \subseteq S
  <2>1. S \in SUBSET Nodes /\ n \in S
    OBVIOUS
  <2> HIDE DEF S
  <2>2. ClosedUp(S)
    BY <1>1 DEF ClosedUp
  <2> QED
    BY <2>1, <2>2, UpLeast
<1> QED
  BY <1>2 DEF Rooted

\* A frame's node that is being created or in use is in the tree, once it has
\* been attached.
LEMMA FrameInTree ==
    ASSUME Trees, Locks, Pointers, NEW a \in Actors, NEW i \in 1..Len(code[a]),
           NEW n \in Nodes, code[a][i].node = n, code[a][1].op \notin LifeOps,
           state[n] \in {"fresh", "init", "live"}
    PROVE  parent[n] # None
<1>0. /\ Types /\ Lifecycle /\ StacksFit /\ TreeWellFormed /\ TimerHome /\ Rooted
      /\ Borrow /\ AskSafe /\ Held
  BY DEF Trees, Locks, Pointers
<1>1. code[a] # <<>> /\ code[a] \in Seq(Frame) /\ HeldAt(a, i)
  BY <1>0 DEF Held, Types
<1>2. CASE state[n] = "live"
  BY <1>0, <1>2 DEF Rooted
<1>3. ASSUME a \in Threads, n \in uses[a], state[n] # "live" PROVE parent[n] # None
  <2>1. PICK f \in LifeIn(code[a]) : f.node = n
    BY <1>0, <1>1, <1>3 DEF Borrow
  <2>2. f = code[a][Len(code[a])] /\ f.op \in LifeOps /\ Len(code[a]) \in 1..Len(code[a])
    BY <1>1, <2>1 DEF LifeIn
  <2>3. LifeFrameOK(a, f)
    BY <1>0, <2>1 DEF Lifecycle
  <2>4. f.op # "attach"
    BY <1>0, <2>2 DEF StacksFit, StackFits, FrameFits, LifeOps
  <2>5. f.op \in {"adopt", "ready"}
    BY <2>1, <2>2, <2>3, <2>4 DEF LifeFrameOK, LifeOps
  <2> QED
    BY <1>0, <2>1, <2>5 DEF Rooted
<1>4. CASE Borrowed(a, code[a][i])
  BY <1>2, <1>3, <1>4 DEF Borrowed
<1>5. CASE Own(a, code[a][i])
  BY <1>0, <1>1, <1>5 DEF Own, TimerHome
<1>6. CASE InTree(a, i)
  BY <1>6 DEF InTree
<1>7. CASE Upward(a, i)
  <2>1. PICK u \in uses[a] : n \in UpFrom(u)
    BY <1>7, NoneIsNoParent DEF Upward, OnChain
  <2>2. a \in Threads /\ u \in Nodes
    BY <1>0, <1>7, <2>1 DEF Upward, Types
  <2>3. CASE n = u
    BY <1>2, <1>3, <2>1, <2>2, <2>3
  <2>4. CASE n # u
    BY <1>0, <2>1, <2>2, <2>4, AboveInTree
  <2> QED
    BY <2>3, <2>4
<1> QED
  BY <1>1, <1>4, <1>5, <1>6, <1>7 DEF HeldAt

\* A node without a parent gets none but from attachChild.
LEMMA ParentGained ==
    ASSUME Types, Lifecycle, StacksFit, Rooted, LinksAgree, NEW a \in Actors, Step(a),
           NEW n \in Nodes
    PROVE  /\ parent[n] = None => parent'[n] = None \/ (Attach(a) /\ n = Top(a).node)
           /\ parent[n] # None => parent'[n] # None \/ (Detach(a) /\ n = Top(a).node)
<1>1. CASE Attach(a)
  <2>1. parent' = [parent EXCEPT ![Top(a).node] = Top(a).arg] /\ Top(a).arg \in Parents
    BY <1>1, WhatAttach
  <2>2. Top(a).arg # None /\ parent \in [Nodes -> Parents \cup {None}]
    BY <2>1, NoneIsNoParent DEF Types
  <2> QED
    BY <1>1, <2>1, <2>2
<1>2. CASE Detach(a)
  <2>1. PICK x \in Nodes : x = Top(a).node
    BY <1>2, DetachParents
  <2>2. n \in children[x] => parent[n] = x
    BY <2>1 DEF LinksAgree, Parents
  <2>3. x # None
    BY NoneIsNoParent DEF Parents
  <2> QED
    BY <1>2, <2>1, <2>2, <2>3, DetachParents
<1>3. CASE parent' = parent
  BY <1>3
<1> QED
  BY <1>1, <1>2, <1>3, StepTree, WhatReady

\* A step keeps a node that is not linked yet without a cause.
LEMMA CleanStep ==
    ASSUME Trees, Locks, Pointers, CleanNew, NEW a \in Actors, Step(a)
    PROVE  CleanNew'
<1> SUFFICES ASSUME NEW n \in Nodes, state'[n] \in {"fresh", "init"}, parent'[n] = None,
                    cause'[n] # None
             PROVE  FALSE
  BY DEF CleanNew
<1>0. Types /\ Lifecycle /\ StacksFit /\ Rooted /\ LinksAgree
  BY DEF Trees, Locks, TreeWellFormed
<1>1. state[n] = state'[n]
  BY <1>0, StepState
<1>2. ~(Detach(a) /\ n = Top(a).node)
  <2>1. Detach(a) => state'[Top(a).node] = "detached"
    BY <1>0, StepState
  <2> QED
    BY <2>1
<1>3. parent[n] = None
  BY <1>0, <1>2, ParentGained
<1>4. cause[n] = None
  BY <1>1, <1>3 DEF CleanNew
<1>5. Mark(a)
  <2>1. cause' # cause
    BY <1>4
  <2>2. ~Fire(a)
    BY <1>0, <2>1, WhatFire
  <2>3. ~(Bind(a) \/ Unbind(a))
    BY <1>0, <2>1, WhatBind
  <2>4. cause' = cause \/ Mark(a) \/ Fire(a) \/ Bind(a) \/ Unbind(a)
    BY <1>0, StepMarks
  <2> QED
    BY <2>1, <2>2, <2>3, <2>4
<1>6. Top(a).node = n /\ Top(a).op = "mark" /\ Top(a) = code[a][1] /\ 1 \in 1..Len(code[a])
  <2>1. Head1(a, {"mark"})
    BY <1>0, <1>5, WhatMark
  <2>2. cause' = cause \/ cause' = [cause EXCEPT ![Top(a).node] = Top(a).arg]
    BY <1>0, <1>5, WhatMark
  <2>3. DOMAIN cause = Nodes
    BY <1>0 DEF Types
  <2>4. Top(a).node = n
    BY <1>4, <2>2, <2>3
  <2> QED
    BY <2>1, <2>4 DEF Head1
<1>7. parent[n] # None
  BY <1>1, <1>6, FrameInTree DEF LifeOps
<1> QED
  BY <1>3, <1>7

-----------------------------------------------------------------------------
(***************************************************************************)
(* The frames of an err() that goes up stand on each other as their nodes  *)
(* hang below each other.                                                  *)
(***************************************************************************)
Above(x, y) == x = Root \/ x \in UpFrom(y)
ChainUp ==
    \A a \in Actors : \A i, j \in 1..Len(code[a]) : \A x, y \in Parents :
        /\ i < j
        /\ code[a][i].op \in {"err", "inherit"} /\ code[a][i].node = x
        /\ code[a][j].op \in {"inherit", "adopt"} /\ code[a][j].node = y
        => Above(x, y)

\* Two frames of the stack that makes a step were two frames of it before, in
\* the same order, or the upper one or both have just been pushed.
LEMMA PairFrom ==
    ASSUME Types, Lifecycle, StacksFit, NEW a \in Actors, Step(a),
           NEW i \in 1..Len(code'[a]), NEW j \in 1..Len(code'[a]), i < j
    PROVE  \/ \E k, l \in 1..Len(code[a]) :
                  k < l /\ code[a][k] = code'[a][i] /\ code[a][l] = code'[a][j]
           \/ /\ NewFrame(a, code'[a][i], i)
              /\ \E l \in 2..Len(code[a]) : code[a][l] = code'[a][j]
           \/ NewFrame(a, code'[a][i], i) /\ NewFrame(a, code'[a][j], j)
<1>1. CASE code'[a] = code[a]
  BY <1>1
<1>2. CASE code[a] # <<>> /\ code'[a] = Tail(code[a])
  <2>1. /\ i + 1 \in 2..Len(code[a]) /\ code'[a][i] = code[a][i + 1]
        /\ j + 1 \in 2..Len(code[a]) /\ code'[a][j] = code[a][j + 1]
    BY <1>2, PopFrames
  <2>2. i + 1 \in 1..Len(code[a]) /\ j + 1 \in 1..Len(code[a]) /\ i + 1 < j + 1
    BY <2>1
  <2> QED
    BY <2>1, <2>2
<1>3. ASSUME NEW fs \in Seq(Frame), Pushes(a, fs)
      PROVE  \/ \E k, l \in 1..Len(code[a]) :
                    k < l /\ code[a][k] = code'[a][i] /\ code[a][l] = code'[a][j]
             \/ /\ NewFrame(a, code'[a][i], i)
                /\ \E l \in 2..Len(code[a]) : code[a][l] = code'[a][j]
             \/ NewFrame(a, code'[a][i], i) /\ NewFrame(a, code'[a][j], j)
  <2>0. Moves(a, fs) /\ Len(fs) \in Nat /\ Len(code[a]) \in Nat
    BY <1>3 DEF Pushes, Moves, Types
  <2>1. ASSUME NEW h \in 1..Len(code'[a])
        PROVE  \/ h \in 1..Len(fs) /\ NewFrame(a, code'[a][h], h)
               \/ \E k \in 2..Len(code[a]) : h = k - 1 + Len(fs) /\ code'[a][h] = code[a][k]
    <3>1. \/ h \in 1..Len(fs) /\ code'[a][h] = fs[h]
          \/ \E k \in 2..Len(code[a]) : h = k - 1 + Len(fs) /\ code'[a][h] = code[a][k]
      BY <2>0, MovedFrames
    <3> QED
      BY <1>3, <3>1 DEF Pushes
  <2>2. ASSUME NEW k \in 2..Len(code[a]), i = k - 1 + Len(fs), code'[a][i] = code[a][k]
        PROVE  \E l \in 2..Len(code[a]) :
                   l \in 1..Len(code[a]) /\ k \in 1..Len(code[a]) /\ k < l
                   /\ code'[a][j] = code[a][l]
    <3>1. j \notin 1..Len(fs)
      BY <2>0, <2>2
    <3>2. PICK l \in 2..Len(code[a]) : j = l - 1 + Len(fs) /\ code'[a][j] = code[a][l]
      BY <2>1, <3>1
    <3> QED
      BY <2>0, <2>2, <3>2
  <2> QED
    BY <2>1, <2>2
<1>4. Takes(a) \/ Gives(a) \/ ArmStarts(a) => code[a] # <<>> /\ code'[a] = Tail(code[a])
  BY PopWhat, ArmStacks DEF Takes, Gives, ArmStarts, Head1
<1> QED
  BY <1>1, <1>2, <1>3, <1>4, StepStack

\* What is above a frame's node stays above another frame's.
LEMMA AboveKept ==
    ASSUME Trees, Locks, Pointers, NEW a \in Actors, Step(a),
           NEW b \in Actors, NEW k \in 1..Len(code[b]), NEW l \in 1..Len(code[b]),
           code[b][k].op # "detach", code[b][l].op # "detach",
           NEW x, NEW y \in Nodes, code[b][k].node = x, code[b][l].node = y, Above(x, y)
    PROVE  Above(x, y)'
<1>1. Detach(a) => /\ Top(a).op = "detach" /\ Top(a) = code[a][1]
  BY WhatDetach DEF Trees, Head1
<1>2. ASSUME Detach(a) PROVE x # Top(a).node /\ y # Top(a).node
  BY <1>1, <1>2, DetachAlone
<1>3. x = Root => Above(x, y)'
  BY DEF Above
<1>4. x \in UpFrom(y) => x \in UpFrom(y)'
  BY <1>2, UpStays
<1> QED
  BY <1>3, <1>4 DEF Above

\* The parent of a node above y is above y.
LEMMA AboveParent ==
    ASSUME Types, NEW n \in Nodes, NEW y \in Nodes, Above(n, y), NEW p \in Parents, p = parent[n]
    PROVE  Above(p, y)
<1>1. n \in UpFrom(y)
  BY NoneIsNoParent DEF Above
<1>2. p \in Nodes => p \in UpFrom(y)
  BY <1>1, UpParent DEF ClosedUp
<1> QED
  BY <1>2 DEF Above, Parents

\* A step keeps the node a query has reached on the chain it started from.
LEMMA ChainUpStep ==
    ASSUME Trees, Locks, Pointers, ChainUp, Types', NEW a \in Actors, Step(a)
    PROVE  ChainUp'
<1> SUFFICES ASSUME NEW b \in Actors, NEW i \in 1..Len(code'[b]), NEW j \in 1..Len(code'[b]),
                    NEW x \in Parents, NEW y \in Parents, i < j,
                    code'[b][i].op \in {"err", "inherit"}, code'[b][i].node = x,
                    code'[b][j].op \in {"inherit", "adopt"}, code'[b][j].node = y
             PROVE  Above(x, y)'
  BY DEF ChainUp
<1>0. Types /\ Lifecycle /\ StacksFit
  BY DEF Trees
<1>1. y \in Nodes
  <2>1. code'[b][j] \in Frame
    BY DEF Types
  <2>2. code'[b][j].op # "err"
    OBVIOUS
  <2> QED
    BY <2>1, <2>2, FrameFields
<1>2. ASSUME NEW k \in 1..Len(code[b]), NEW l \in 1..Len(code[b]), k < l,
             code[b][k] = code'[b][i], code[b][l] = code'[b][j]
      PROVE  Above(x, y)'
  <2>1. Above(x, y)
    BY <1>2 DEF ChainUp
  <2>2. code[b][k].op # "detach" /\ code[b][l].op # "detach"
    BY <1>2
  <2> QED
    BY <1>1, <1>2, <2>1, <2>2, AboveKept
<1>3. CASE code'[b] = code[b]
  BY <1>2, <1>3
<1>4. CASE b # a
  <2>1. CASE b = Top(a).node /\ ArmStarts(a)
    <3>1. code'[b] = <<F("tTop", b)>>
      BY <1>0, <2>1, ArmStacks
    <3>2. Len(code'[b]) = 1
      BY <3>1
    <3> QED
      BY <3>2
  <2> QED
    BY <1>0, <1>3, <1>4, <2>1, OtherStack
<1>5. ASSUME b = a, code'[a] # code[a], NewFrame(a, code'[a][i], i), Top(a).op = "err",
             NEW n \in Nodes, n = Top(a).node, Above(n, y)
      PROVE  Above(x, y)'
  <2>1. parent' = parent
    BY <1>0, <1>5, HeadOnly, WhatErr
  <2>2. CASE code'[a][i].op = "inherit"
    <3>1. x = n
      BY <1>5, <2>2 DEF NewFrame
    <3> QED
      BY <1>5, <2>1, <3>1, UpSame DEF Above
  <2>3. CASE code'[a][i].op = "err"
    <3>1. x = parent[n]
      BY <1>5, <2>3 DEF NewFrame
    <3>2. Above(x, y)
      BY <1>0, <1>1, <1>5, <3>1, AboveParent
    <3> QED
      BY <2>1, <3>2, UpSame DEF Above
  <2> QED
    BY <1>5, <2>2, <2>3
<1>6. ASSUME b = a, code'[a] # code[a], NewFrame(a, code'[a][i], i),
             NEW l \in 2..Len(code[a]), code[a][l] = code'[a][j]
      PROVE  Above(x, y)'
  <2>1. 1 \in 1..Len(code[a]) /\ l \in 1..Len(code[a]) /\ 1 < l /\ Len(code[a]) # 1
    BY <1>0, <1>6 DEF Types
  <2>2. code[a] # <<>>
    BY <1>0, <2>1
  <2>3. Top(a) = code[a][1]
    BY <1>0, <2>2, TopIsFirst
  <2>4. Top(a).op # "attach"
    BY <1>0, <2>1, <2>3 DEF StacksFit, StackFits, FrameFits
  <2>5. Top(a).op = "err"
    BY <1>6, <2>4 DEF NewFrame
  <2>6. Top(a).node \in Nodes
    <3>1. CASE code'[a][i].op = "err"
      BY <1>6, <2>4, <3>1 DEF NewFrame
    <3>2. CASE code'[a][i].op = "inherit"
      <4>1. code'[a][i] \in Frame
        BY <1>6 DEF Types
      <4> QED
        BY <1>6, <3>2, <4>1, FrameFields DEF NewFrame
    <3> QED
      BY <1>6, <3>1, <3>2
  <2>7. Above(Top(a).node, y)
    <3>1. Top(a).node \in Parents
      BY <2>6 DEF Parents
    <3> QED
      BY <1>6, <2>1, <2>3, <2>5, <3>1 DEF ChainUp
  <2> QED
    BY <1>5, <1>6, <2>5, <2>6, <2>7
<1>7. ASSUME b = a, code'[a] # code[a],
             NewFrame(a, code'[a][i], i), NewFrame(a, code'[a][j], j)
      PROVE  Above(x, y)'
  <2>1. CASE Top(a).op = "err"
    <3>1. y = Top(a).node
      BY <1>7, <2>1 DEF NewFrame
    <3>2. Above(y, y)
      BY <1>1, UpItself DEF Above
    <3> QED
      BY <1>1, <1>5, <1>7, <2>1, <3>1, <3>2
  <2>2. CASE Top(a).op = "attach"
    <3>1. code'[a][i].op = "err" /\ x = Top(a).arg /\ y = Top(a).node
      BY <1>7, <2>2 DEF NewFrame
    <3>2. Attach(a)
      BY <1>7, <2>2, HeadOnly DEF RequestExclusive
    <3>3. parent' = [parent EXCEPT ![Top(a).node] = Top(a).arg]
      BY <1>0, <3>2, WhatAttach
    <3>4. parent'[y] = x
      BY <1>0, <1>1, <3>1, <3>3 DEF Types
    <3>5. x \in Nodes => x \in UpFrom(y)'
      BY <1>1, <3>4, UpFactsNext
    <3> QED
      BY <3>5 DEF Above, Parents
  <2> QED
    BY <1>7, <2>1, <2>2 DEF NewFrame
<1>8. CASE b = a /\ code'[a] # code[a]
  <2>1. \/ \E k, l \in 1..Len(code[a]) :
               k < l /\ code[a][k] = code'[a][i] /\ code[a][l] = code'[a][j]
        \/ /\ NewFrame(a, code'[a][i], i)
           /\ \E l \in 2..Len(code[a]) : code[a][l] = code'[a][j]
        \/ NewFrame(a, code'[a][i], i) /\ NewFrame(a, code'[a][j], j)
    BY <1>0, <1>8, PairFrom
  <2>2. CASE \E k, l \in 1..Len(code[a]) :
                 k < l /\ code[a][k] = code'[a][i] /\ code[a][l] = code'[a][j]
    BY <1>2, <1>8, <2>2
  <2>3. CASE /\ NewFrame(a, code'[a][i], i)
             /\ \E l \in 2..Len(code[a]) : code[a][l] = code'[a][j]
    BY <1>6, <1>8, <2>3
  <2>4. CASE NewFrame(a, code'[a][i], i) /\ NewFrame(a, code'[a][j], j)
    BY <1>7, <1>8, <2>4
  <2> QED
    BY <2>1, <2>2, <2>3, <2>4
<1> QED
  BY <1>3, <1>4, <1>8

\* So does a call.
LEMMA ChainUpCall ==
    ASSUME Types, ChainUp, NEW t \in Threads, Call(t)
    PROVE  ChainUp'
<1>1. PICK n \in Nodes, fs \in Seq(Frame) : Starts(t, n, fs)
  BY CallStarts
<1>a. \A i \in 1..Len(fs) : fs[i].op \in CallOps
  BY <1>1 DEF Starts, OnNode
<1>b. /\ t \in Actors /\ code'[t] = fs /\ parent' = parent
      /\ \A b \in Actors : b # t => code'[b] = code[b]
  BY <1>1, CallStarts, StartLife
<1>2. /\ t \in Actors /\ code'[t] = fs /\ parent' = parent
      /\ \A b \in Actors : b # t => code'[b] = code[b]
      /\ \A i \in 1..Len(fs) : fs[i].op \in CallOps
  BY <1>a, <1>b
<1> SUFFICES ASSUME NEW b \in Actors, NEW i \in 1..Len(code'[b]), NEW j \in 1..Len(code'[b]),
                    NEW x \in Parents, NEW y \in Parents, i < j,
                    code'[b][i].op \in {"err", "inherit"}, code'[b][i].node = x,
                    code'[b][j].op \in {"inherit", "adopt"}, code'[b][j].node = y
             PROVE  Above(x, y)'
  BY DEF ChainUp
<1>3. b # t
  BY <1>2 DEF CallOps
<1>4. code'[b] = code[b]
  BY <1>2, <1>3
<1>5. Above(x, y)
  BY <1>4 DEF ChainUp
<1> QED
  BY <1>2, <1>5, UpSame DEF Above

\* So does a step that changes neither code nor parents.
LEMMA ChainUpSame ==
    ASSUME ChainUp, code' = code, parent' = parent
    PROVE  ChainUp'
<1>1. \A x, y : Above(x, y)' <=> Above(x, y)
  BY UpSame DEF Above
<1> QED
  BY <1>1 DEF ChainUp

-----------------------------------------------------------------------------
\* The frame goes on as if a deadline above its node had passed.
Hurries(a, i) ==
    \/ code[a][i].op \in {"mark", "fire", "kids"} /\ code[a][i].arg = DeadlineExceeded
    \/ /\ code[a][i].op \in {"inherit", "adopt"} /\ reg[a] = DeadlineExceeded
       /\ code[a][1].op # "err"
    \/ code[a][i].op = "tCheck" /\ tlocal[a].at = {}
    \/ code[a][i].op = "tExpire"
EarlyFrame ==
    \A a \in Actors : \A i \in 1..Len(code[a]) : \A n \in Nodes :
        Hurries(a, i) /\ code[a][i].node = n => Bounded(n)
Early == CleanNew /\ EarlyCause /\ ChainUp /\ EarlyFrame

\* DeadlineExceeded is a cause.
LEMMA DeadlineIsCause == DeadlineExceeded \in Causes /\ DeadlineExceeded # None
  BY NoneNoCause DEF Causes

\* The answer of a chain of value nodes is the cause of a node above.
LEMMA AnswerAbove ==
    ASSUME NEW n, ErrNoLock(n) # None
    PROVE  \E m \in UpFrom(n) : cause[m] = ErrNoLock(n)
<1> DEFINE found == {cause[m] : m \in Asked(n)} \ {None}
<1>1. found # {} /\ ErrNoLock(n) = CHOOSE c \in found : TRUE
  BY DEF ErrNoLock
<1>2. ErrNoLock(n) \in found
  BY <1>1
<1>3. Asked(n) \subseteq UpFrom(n)
  BY DEF Asked, UpFrom, Chain
<1> QED
  BY <1>2, <1>3

\* The node that err() asks is in the tree.
LEMMA AskedInTree ==
    ASSUME Trees, Locks, Pointers, NEW a \in Actors, Head1(a, {"err"}),
           NEW n \in Nodes, n = Top(a).node
    PROVE  parent[n] # None
<1>0. /\ Types /\ StacksFit /\ AskSafe /\ Held
  BY DEF Trees, Pointers
<1>1. /\ 1 \in 1..Len(code[a]) /\ code[a][1].op = "err" /\ code[a][1].node = n
      /\ a \in Threads /\ a \notin Nodes
  BY <1>0, UserHead DEF Head1, UserOps
<1>2. Asking(a) /\ HeldAt(a, 1)
  BY <1>0, <1>1, AskFrame DEF AskOps, Held
<1>3. CASE Borrowed(a, code[a][1])
  <2>1. n \in uses[a] /\ n \in UpFrom(n)
    BY <1>1, <1>3, UpItself DEF Borrowed
  <2>2. state[n] \in {"init", "live"}
    BY <1>0, <1>1, <1>2, <2>1 DEF AskSafe
  <2> QED
    BY <1>1, <2>2, FrameInTree DEF LifeOps
<1>4. CASE Upward(a, 1)
  <2>1. PICK u \in uses[a] : n \in UpFrom(u)
    BY <1>1, <1>4, NoneIsNoParent DEF Upward, OnChain
  <2>2. state[n] \in {"init", "live"}
    BY <1>0, <1>1, <1>2, <2>1 DEF AskSafe
  <2> QED
    BY <1>1, <2>2, FrameInTree DEF LifeOps
<1>5. CASE InTree(a, 1)
  BY <1>1, <1>5 DEF InTree
<1> QED
  BY <1>1, <1>2, <1>3, <1>4, <1>5 DEF HeldAt, Own

\* err() answers DeadlineExceeded only below a deadline that has passed.
LEMMA ErrBounded ==
    ASSUME Trees, Locks, Pointers, EarlyCause, NEW a \in Actors, Err(a),
           reg'[a] = DeadlineExceeded, code'[a][1].op # "err"
    PROVE  Top(a).node \in Nodes /\ Bounded(Top(a).node)
<1>0. Types /\ TreeWellFormed /\ Rooted /\ Head1(a, {"err"}) /\ reg \in [Actors -> Causes \cup {None}]
  BY WhatErr DEF Trees, Locks, Types
<1>1. ASSUME NEW n \in Nodes, n = Top(a).node, NEW m \in UpFrom(n), cause[m] = DeadlineExceeded
      PROVE  Bounded(n)
  <2>1. m = n => parent[m] # None
    BY <1>0, <1>1, AskedInTree
  <2>2. m # n => parent[m] # None
    BY <1>0, <1>1, AboveInTree
  <2>3. m \in Nodes
    BY <1>1, UpNodes
  <2>4. Bounded(m)
    BY <1>1, <2>1, <2>2, <2>3 DEF EarlyCause
  <2> QED
    BY <2>4, BoundedBelow
<1>2. CASE Top(a).node = Root
  <2>1. reg' = [reg EXCEPT ![a] = None]
    BY <1>0, <1>2, WhatErr, NoneIsNoParent
  <2> QED
    BY <1>0, <2>1, DeadlineIsCause
<1>3. ASSUME NEW n \in Nodes, n = Top(a).node, reg' = [reg EXCEPT ![a] = cause[n]]
      PROVE  Bounded(n)
  <2>1. cause[n] = DeadlineExceeded
    BY <1>0, <1>3
  <2> QED
    BY <1>1, <1>3, <2>1, UpItself
<1>4. ASSUME NEW n \in Nodes, n = Top(a).node, reg' = [reg EXCEPT ![a] = ErrNoLock(n)]
      PROVE  Bounded(n)
  <2>1. ErrNoLock(n) = DeadlineExceeded
    BY <1>0, <1>4
  <2>2. PICK m \in UpFrom(n) : cause[m] = DeadlineExceeded
    BY <2>1, AnswerAbove, DeadlineIsCause
  <2> QED
    BY <1>1, <1>4, <2>2
<1>5. ASSUME NEW x \in Frame, x.op = "err", NEW y \in Frame, Moves(a, <<x, y>>)
      PROVE  FALSE
  <2> DEFINE fs == <<x, y>>
  <2>1. fs \in Seq(Frame) /\ Len(fs) = 2 /\ fs[1] = x /\ Moves(a, fs)
    BY <1>5
  <2> HIDE DEF fs
  <2>2. 1 \in 1..Len(fs)
    BY <2>1
  <2>3. code'[a][1] = x
    BY <1>0, <2>1, <2>2, MovedFrames
  <2> QED
    BY <1>5, <2>3
<1>6. ASSUME NEW p, F("err", p) \in Frame, NEW y \in Frame, Moves(a, <<F("err", p), y>>)
      PROVE  FALSE
  <2>1. F("err", p).op = "err"
    BY DEF F
  <2> QED
    BY <1>5, <1>6, <2>1
<1>7. CASE Expired(Top(a).node) /\ Top(a).node \in Nodes
  BY <1>7, ExpiredBounds
<1> QED
  BY <1>0, <1>2, <1>3, <1>4, <1>6, <1>7, WhatErr

\* After linking, the parent is asked next.
LEMMA AttachHead ==
    ASSUME Types, NEW a \in Actors, Attach(a)
    PROVE  code'[a][1].op = "err"
<1> DEFINE x == F("err", Top(a).arg)
           y == F("adopt", Top(a).node)
           fs == <<x, y>>
<1>1. x.op = "err"
  BY DEF F
<1>2. Moves(a, fs) /\ x \in Frame /\ y \in Frame
  BY WhatAttach
<1> HIDE DEF x, y
<1>3. fs \in Seq(Frame) /\ Len(fs) = 2 /\ fs[1] = x
  BY <1>2
<1> HIDE DEF fs
<1>4. 1 \in 1..Len(fs)
  BY <1>3
<1>5. code'[a][1] = x
  BY <1>2, <1>3, <1>4, MovedFrames
<1> QED
  BY <1>1, <1>5

\* A frame that was there before.
LEMMA OldHurries ==
    ASSUME Trees, Locks, Pointers, Early, NEW a \in Actors, Step(a), NEW b \in Actors,
           NEW i \in 1..Len(code'[b]), NEW k \in 1..Len(code[b]), code[b][k] = code'[b][i],
           NEW n \in Nodes, code'[b][i].node = n, Hurries(b, i)'
    PROVE  Bounded(n)
<1>0. Types /\ Lifecycle /\ StacksFit /\ EarlyFrame /\ ChainUp /\ EarlyCause
  BY DEF Trees, Early
<1> DEFINE f == code[b][k]
<1>1. ASSUME Hurries(b, k) PROVE Bounded(n)
  BY <1>0, <1>1 DEF EarlyFrame
<1>2. CASE f.op \in {"mark", "fire", "kids"}
  <2>1. Hurries(b, k)
    BY <1>2 DEF Hurries
  <2> QED
    BY <1>1, <2>1
<1>3. CASE f.op = "tExpire"
  <2>1. Hurries(b, k)
    BY <1>3 DEF Hurries
  <2> QED
    BY <1>1, <2>1
<1>4. CASE f.op = "tCheck"
  <2>1. FrameFits(b, code[b], k)
    BY <1>0 DEF StacksFit, StackFits
  <2>2. b \in Nodes /\ Len(code[b]) = 1
    BY <1>4, <2>1 DEF FrameFits, TimerOps
  <2>3. k = 1 /\ code[b] # <<>>
    BY <2>2
  <2>4. Top(b).op = "tCheck"
    BY <1>0, <1>4, <2>3, TopIsFirst
  <2>5. tlocal'[b] = tlocal[b]
    <3>1. CASE tlocal' = tlocal
      BY <3>1
    <3>2. CASE a \in Nodes /\ Timer(a)
      BY <1>0, <2>2, <2>4, <3>2, WhatTimer
    <3> QED
      BY <1>0, <3>1, <3>2, StepLocal
  <2>6. Hurries(b, k)
    BY <1>4, <2>5 DEF Hurries
  <2> QED
    BY <1>1, <2>6
<1>5. ASSUME f.op \in {"inherit", "adopt"}, b # a PROVE Bounded(n)
  <2>1. CASE b = Top(a).node /\ ArmStarts(a)
    <3>1. code'[b] = <<F("tTop", b)>>
      BY <1>0, <2>1, ArmStacks
    <3>2. Len(code'[b]) = 1 /\ code'[b][1] = F("tTop", b)
      BY <3>1
    <3>3. i = 1
      BY <3>2
    <3> QED
      BY <1>5, <3>2, <3>3 DEF F
  <2>2. CASE code'[b] = code[b]
    <3>1. reg'[b] = reg[b]
      BY <1>0, <1>5, StepReg
    <3>2. Hurries(b, k)
      BY <1>5, <2>2, <3>1 DEF Hurries
    <3> QED
      BY <1>1, <3>2
  <2> QED
    BY <1>0, <1>5, <2>1, <2>2, OtherStack
<1>6. ASSUME f.op \in {"inherit", "adopt"}, b = a PROVE Bounded(n)
  <2>1. reg'[a] = DeadlineExceeded /\ code'[a][1].op # "err"
    BY <1>6 DEF Hurries
  <2>2. code[a] # <<>> /\ Len(code[a]) \in Nat
    BY <1>0, <1>6 DEF Types
  <2>3. Top(a) = code[a][1] /\ 1 \in 1..Len(code[a])
    BY <1>0, <2>2, TopIsFirst
  <2>4. CASE Top(a).op = "err"
    <3>1. Err(a)
      BY <2>4, HeadOnly
    <3>2. Top(a).node \in Nodes /\ Bounded(Top(a).node)
      BY <1>0, <2>1, <3>1, ErrBounded
    <3>3. 1 < k
      BY <1>6, <2>2, <2>3, <2>4
    <3>4. Above(Top(a).node, n)
      BY <1>0, <1>6, <2>3, <2>4, <3>2, <3>3 DEF ChainUp, Parents
    <3>5. Top(a).node \in UpFrom(n)
      BY <3>2, <3>4, NoneIsNoParent DEF Above
    <3> QED
      BY <3>2, <3>5, BoundedBelow
  <2>5. CASE Top(a).op # "err"
    <3>1. reg' = reg
      BY <1>0, <2>5, StepReg, HeadOf
    <3>2. Hurries(a, k)
      BY <1>6, <2>1, <2>3, <2>5, <3>1 DEF Hurries
    <3> QED
      BY <1>1, <1>6, <3>2
  <2> QED
    BY <2>4, <2>5
<1> QED
  BY <1>2, <1>3, <1>4, <1>5, <1>6 DEF Hurries

-----------------------------------------------------------------------------
\* Only a deadline that has passed is reported as one.
OwnCause == DeadlineExceeded \notin UserCauses \cup {Canceled, SpawnError}

\* A frame that has just been pushed.
LEMMA NewHurries ==
    ASSUME Trees, Locks, Pointers, Early, OwnCause, NEW a \in Actors, Step(a), code' # code,
           NEW i \in 1..Len(code'[a]), NewFrame(a, code'[a][i], i), code[a] # <<>>,
           NEW n \in Nodes, code'[a][i].node = n, Hurries(a, i)'
    PROVE  Bounded(n)
<1>0. /\ Types /\ StacksFit /\ EarlyFrame /\ EarlyCause /\ LinksAgree /\ TodoHeld /\ TimerHome
      /\ Top(a) = code[a][1] /\ 1 \in 1..Len(code[a])
  BY TopIsFirst DEF Trees, Locks, Early, TreeWellFormed
<1> DEFINE f == code'[a][i]
<1>1. ASSUME Bounded(Top(a).node), f.op # "err" PROVE Bounded(n)
  <2>1. CASE n = Top(a).node
    BY <1>1, <2>1
  <2>2. CASE Top(a).op = "kids" /\ n \in Top(a).todo
    <3>1. PICK p \in Nodes : p = Top(a).node
      BY <1>0, <2>2, FramesNode
    <3>2. n \in children[p]
      BY <1>0, <2>2, <3>1 DEF TodoHeld
    <3>3. parent[n] = p
      BY <1>0, <3>2 DEF LinksAgree, Parents
    <3>4. p \in UpFrom(n)
      BY <3>3, UpItself, UpParent DEF ClosedUp
    <3> QED
      BY <1>1, <3>1, <3>4, BoundedBelow
  <2> QED
    BY <1>1, <2>1, <2>2 DEF NewFrame
<1>2. ASSUME Hurries(a, 1), Top(a).node \in Nodes PROVE Bounded(Top(a).node)
  BY <1>0, <1>2 DEF EarlyFrame
<1>3. Top(a).op # "err" => Top(a).node \in Nodes
  BY <1>0, FramesNode
<1>4. ASSUME CauseFrom(a, DeadlineExceeded) PROVE Bounded(Top(a).node)
  <2>1. CASE Top(a).op \in {"mark", "fire", "kids"} /\ DeadlineExceeded = Top(a).arg
    <3>1. Hurries(a, 1)
      BY <1>0, <2>1 DEF Hurries
    <3> QED
      BY <1>2, <1>3, <2>1, <3>1
  <2>2. CASE Expired(Top(a).node)
    BY <2>2, ExpiredBounds
  <2>3. CASE Top(a).op \in {"inherit", "adopt"} /\ DeadlineExceeded = reg[a]
    <3>1. Hurries(a, 1)
      BY <1>0, <2>3 DEF Hurries
    <3> QED
      BY <1>2, <1>3, <2>3, <3>1
  <2>4. CASE Top(a).op = "tExpire"
    <3>1. Hurries(a, 1)
      BY <1>0, <2>4 DEF Hurries
    <3> QED
      BY <1>2, <1>3, <2>4, <3>1
  <2> QED
    BY <1>4, <2>1, <2>2, <2>3, <2>4 DEF CauseFrom, OwnCause
<1>5. CASE f.op \in {"mark", "fire", "kids"}
  <2>1. f.arg = DeadlineExceeded
    BY <1>5 DEF Hurries
  <2>2. CauseFrom(a, DeadlineExceeded)
    BY <1>5, <2>1 DEF NewFrame
  <2> QED
    BY <1>1, <1>4, <1>5, <2>2
<1>6. CASE f.op = "inherit"
  <2>1. Err(a) /\ n = Top(a).node
    BY <1>6, HeadOnly DEF NewFrame
  <2>2. reg'[a] = DeadlineExceeded /\ code'[a][1].op # "err"
    BY <1>6 DEF Hurries
  <2> QED
    BY <1>0, <2>1, <2>2, ErrBounded
<1>7. CASE f.op = "adopt"
  <2>1. Attach(a)
    BY <1>7, HeadOnly DEF NewFrame, RequestExclusive
  <2>2. code'[a][1].op # "err"
    BY <1>7 DEF Hurries
  <2> QED
    BY <1>0, <2>1, <2>2, AttachHead
<1>8. CASE f.op = "tCheck"
  <2>1. Top(a).op = "tEffective" /\ a \in Nodes /\ Timer(a)
    BY <1>8, HeadOnly DEF NewFrame, TimerOps
  <2>2. /\ tlocal' = [tlocal EXCEPT ![a].at = IF Expired(a) THEN {} ELSE Deadlines(a)]
        /\ Top(a).node = a
    BY <1>0, <2>1, WhatTimer
  <2>3. tlocal \in [Nodes -> [gen : Nat, at : SUBSET Nat]]
    BY <1>0 DEF Types
  <2>4. tlocal'[a].at = IF Expired(a) THEN {} ELSE Deadlines(a)
    BY <2>1, <2>2, <2>3
  <2>5. tlocal'[a].at = {}
    BY <1>8 DEF Hurries
  <2>6. DeadlineOf[a] \in Deadlines(a)
    BY <1>0, <2>1, UpItself DEF Deadlines, TimerHome
  <2>7. Expired(a)
    BY <2>4, <2>5, <2>6
  <2> QED
    BY <1>1, <1>8, <2>2, <2>7, ExpiredBounds
<1>9. CASE f.op = "tExpire"
  <2>1. Top(a).op = "tCheck" /\ tlocal[a].at = {}
    BY <1>9 DEF NewFrame
  <2>2. Hurries(a, 1)
    BY <1>0, <2>1 DEF Hurries
  <2> QED
    BY <1>1, <1>2, <1>3, <1>9, <2>1, <2>2
<1> QED
  BY <1>5, <1>6, <1>7, <1>8, <1>9 DEF Hurries

\* A step at a frame: what held the node is still there.
LEMMA EarlyFrameStep ==
    ASSUME Trees, Locks, Pointers, Early, OwnCause, Types', NEW a \in Actors, Step(a)
    PROVE  EarlyFrame'
<1> SUFFICES ASSUME NEW b \in Actors, NEW i \in 1..Len(code'[b]), NEW n \in Nodes,
                    Hurries(b, i)', code'[b][i].node = n
             PROVE  Bounded(n)'
  BY DEF EarlyFrame
<1>0. Types /\ Lifecycle /\ StacksFit
  BY DEF Trees
<1>1. ASSUME NEW k \in 1..Len(code[b]), code[b][k] = code'[b][i] PROVE Bounded(n)'
  <2>1. Bounded(n)
    BY <1>1, OldHurries
  <2>2. code[b][k].op # "detach"
    BY <1>1 DEF Hurries
  <2>3. Detach(a) => Top(a).op = "detach" /\ Top(a) = code[a][1]
    BY <1>0, WhatDetach DEF Head1
  <2>4. Detach(a) => n # Top(a).node
    BY <1>1, <2>2, <2>3, DetachAlone
  <2> QED
    BY <2>1, <2>4, BoundedKept
<1>2. ASSUME b = a, NewFrame(a, code'[a][i], i), code' # code PROVE Bounded(n)'
  <2>1. code[a] # <<>>
    <3>1. Moves(a, <<>>) \/ ArmStarts(a) \/ (\E fs \in Seq(Frame) : Pushes(a, fs))
      BY <1>0, <1>2, StepStack DEF Takes, Gives
    <3> QED
      BY <3>1 DEF Moves, ArmStarts, Pushes, Head1
  <2>2. Bounded(n)
    BY <1>2, <2>1, NewHurries
  <2>3. ~Detach(a)
    <3> SUFFICES ASSUME Detach(a) PROVE FALSE
      OBVIOUS
    <3>1. Top(a).op = "detach"
      BY HeadOf
    <3> QED
      BY <1>2, <3>1 DEF NewFrame, Hurries, CauseFrom, TimerOps
  <2> QED
    BY <2>2, <2>3, BoundedKept
<1>3. CASE code' = code
  BY <1>1, <1>3
<1>4. ~TaskFrame(a, b, code'[b][i])
  BY DEF TaskFrame, F, Hurries
<1>5. \/ \E k \in 1..Len(code[b]) : code[b][k] = code'[b][i]
      \/ b = a /\ NewFrame(a, code'[b][i], i)
  BY <1>0, <1>4, FrameFrom DEF OldFrame
<1> QED
  BY <1>1, <1>2, <1>3, <1>5

\* A step that cancels a node as late has a passed deadline above it.
LEMMA EarlyCauseStep ==
    ASSUME Trees, Locks, Pointers, Early, NEW a \in Actors, Step(a)
    PROVE  EarlyCause'
<1> SUFFICES ASSUME NEW n \in Nodes, parent'[n] # None, cause'[n] = DeadlineExceeded
             PROVE  Bounded(n)'
  BY DEF EarlyCause
<1>0. /\ Types /\ Lifecycle /\ StacksFit /\ Rooted /\ LinksAgree /\ TreeWellFormed
      /\ CleanNew /\ EarlyCause /\ EarlyFrame
  BY DEF Trees, Locks, Early, TreeWellFormed
<1>1. CASE cause[n] = DeadlineExceeded
  <2>1. parent[n] # None
    <3> SUFFICES ASSUME parent[n] = None PROVE FALSE
      OBVIOUS
    <3>1. Attach(a) /\ n = Top(a).node
      BY <1>0, ParentGained
    <3>2. state[n] = "init"
      BY <3>1, AttachUp
    <3> QED
      BY <1>0, <1>1, <3>2, DeadlineIsCause DEF CleanNew
  <2>2. Bounded(n)
    BY <1>0, <1>1, <2>1 DEF EarlyCause
  <2>3. Detach(a) => n # Top(a).node
    <3> SUFFICES ASSUME Detach(a), n = Top(a).node PROVE FALSE
      OBVIOUS
    <3>1. n \notin children[n]
      <4>1. n \in children[n] => parent[n] = n
        BY <1>0 DEF LinksAgree, Parents
      <4>2. {n} \in SUBSET Nodes /\ {n} # {}
        OBVIOUS
      <4>3. \E m \in {n} : parent[m] \notin {n}
        BY <1>0, <4>2 DEF TreeWellFormed, Acyclic
      <4> QED
        BY <4>1, <4>3
    <3>2. parent'[n] = None
      BY <1>0, <3>1, DetachParents
    <3> QED
      BY <3>2
  <2> QED
    BY <2>2, <2>3, BoundedKept
<1>2. CASE cause[n] # DeadlineExceeded
  <2>1. Mark(a)
    BY <1>0, <1>2, StepMarks, WhatFire, WhatBind
  <2>2. /\ n = Top(a).node /\ Top(a).arg = DeadlineExceeded /\ Top(a).op = "mark"
        /\ Top(a) = code[a][1] /\ 1 \in 1..Len(code[a])
    <3>1. Head1(a, {"mark"})
      BY <1>0, <2>1, WhatMark
    <3>2. cause \in [Nodes -> Causes \cup {None}]
      BY <1>0 DEF Types
    <3>3. n = Top(a).node /\ Top(a).arg = DeadlineExceeded
      BY <1>0, <1>2, <2>1, <3>2, WhatMark
    <3> QED
      BY <3>1, <3>3 DEF Head1
  <2>3. Hurries(a, 1)
    BY <2>2 DEF Hurries
  <2>4. Bounded(n)
    BY <1>0, <2>2, <2>3 DEF EarlyFrame
  <2>5. ~Detach(a)
    BY <2>2, HeadOf
  <2> QED
    BY <2>4, <2>5, BoundedKept
<1> QED
  BY <1>1, <1>2

\* What a call and the clock leave alone.
LEMMA EarlyStays ==
    ASSUME Types, Types', Early, UNCHANGED <<parent, cause, reg, tlocal>>,
           now' = now \/ now' = now + 1,
           \A m \in Nodes : \/ state'[m] = state[m]
                            \/ state[m] = "fresh" /\ state'[m] = "init"
                            \/ state[m] = "live" /\ state'[m] = "closing",
           \A b \in Actors : \/ code'[b] = code[b]
                             \/ \A i \in 1..Len(code'[b]) : ~Hurries(b, i)',
           ChainUp'
    PROVE  Early'
<1>0. CleanNew /\ EarlyCause /\ EarlyFrame
  BY DEF Early
<1>1. ASSUME NEW n \in Nodes, Bounded(n) PROVE Bounded(n)'
  <2>1. \A m \in Nodes : state[m] \in {"detached", "freed"} => state'[m] = state[m]
    OBVIOUS
  <2> QED
    BY <1>1, <2>1, BoundedStays
<1>2. CleanNew'
  BY <1>0 DEF CleanNew
<1>3. EarlyCause'
  BY <1>0, <1>1 DEF EarlyCause
<1>4. EarlyFrame'
  <2> SUFFICES ASSUME NEW b \in Actors, NEW i \in 1..Len(code'[b]), NEW n \in Nodes,
                      Hurries(b, i)', code'[b][i].node = n
               PROVE  Bounded(n)'
    BY DEF EarlyFrame
  <2>1. code'[b] = code[b]
    OBVIOUS
  <2>2. Hurries(b, i)
    BY <2>1 DEF Hurries
  <2> QED
    BY <1>0, <1>1, <2>1, <2>2 DEF EarlyFrame
<1> QED
  BY <1>2, <1>3, <1>4 DEF Early

\* A call keeps causes and frames from being early.
LEMMA EarlyCall ==
    ASSUME Types, Types', Early, OwnCause, NEW t \in Threads, Call(t)
    PROVE  Early'
<1>1. PICK n \in Nodes, fs \in Seq(Frame) : Starts(t, n, fs)
  BY CallStarts
<1>2. \A i \in 1..Len(fs) : /\ fs[i].op \in CallOps
                            /\ fs[i].op = "mark" => fs[i].arg \in UserCauses \cup {Canceled}
  BY <1>1 DEF Starts, OnNode
<1>3. /\ t \in Actors /\ code'[t] = fs
      /\ \A b \in Actors : b # t => code'[b] = code[b]
  BY <1>1, StartLife
<1>4. UNCHANGED <<parent, cause, reg, tlocal, now>>
  BY CallStarts
<1>5. \A i \in 1..Len(code'[t]) : ~Hurries(t, i)'
  BY <1>2, <1>3 DEF Hurries, CallOps, OwnCause
<1>6. \A m \in Nodes : \/ state'[m] = state[m]
                       \/ state[m] = "fresh" /\ state'[m] = "init"
                       \/ state[m] = "live" /\ state'[m] = "closing"
  <2>1. \/ state' = state
        \/ state[n] = "fresh" /\ state' = [state EXCEPT ![n] = "init"]
        \/ state[n] = "live" /\ state' = [state EXCEPT ![n] = "closing"]
    BY <1>1 DEF Starts, Makes, Borrows, Queries, Destroys
  <2>2. DOMAIN state = Nodes
    BY DEF Types
  <2> QED
    BY <2>1, <2>2
<1>7. ChainUp'
  BY ChainUpCall DEF Early
<1> QED
  BY <1>3, <1>4, <1>5, <1>6, <1>7, EarlyStays

\* So does every step.
LEMMA NextEarly ==
    ASSUME Trees, Locks, Pointers, Early, OwnCause, Types', [Next]_vars
    PROVE  Early'
<1>0. Types /\ ChainUp
  BY DEF Trees, Early
<1>1. ASSUME NEW a \in Actors, Step(a) PROVE Early'
  <2>1. CleanNew'
    BY <1>1, CleanStep DEF Early
  <2>2. EarlyCause'
    BY <1>1, EarlyCauseStep
  <2>3. ChainUp'
    BY <1>0, <1>1, ChainUpStep
  <2>4. EarlyFrame'
    BY <1>1, EarlyFrameStep
  <2> QED
    BY <2>1, <2>2, <2>3, <2>4 DEF Early
<1>2. ASSUME NEW t \in Threads, Call(t) PROVE Early'
  BY <1>0, <1>2, EarlyCall
<1>3. CASE /\ UNCHANGED <<state, parent, children, cause, binding, fired, code, reg, uses,
                          shares, tlocal>>
           /\ now' = now \/ now' = now + 1
  <2>1. ChainUp'
    BY <1>0, <1>3, ChainUpSame
  <2>2. \A b \in Actors : code'[b] = code[b]
    BY <1>3
  <2>3. \A m \in Nodes : state'[m] = state[m]
    BY <1>3
  <2> QED
    BY <1>0, <1>3, <2>1, <2>2, <2>3, EarlyStays
<1> QED
  BY <1>1, <1>2, <1>3, NextCases

\* At the start nothing is canceled.
LEMMA InitCauses == Init => Spread /\ Answered /\ Early
<1> SUFFICES ASSUME Init PROVE Spread /\ Answered /\ Early
  OBVIOUS
<1>1. \A n \in Nodes : cause[n] = None
  BY DEF Init
<1>2. \A b \in Actors : code[b] = <<>> \/ code[b] = <<F("tTop", b)>>
  BY DEF Init
<1>3. ASSUME NEW b \in Actors, NEW i \in 1..Len(code[b])
      PROVE  code[b][i].op = "tTop" /\ i = 1 /\ Len(code[b]) = 1
  <2>1. code[b] = <<F("tTop", b)>>
    BY <1>2, <1>3
  <2>2. Len(code[b]) = 1 /\ code[b][1] = F("tTop", b)
    BY <2>1
  <2>3. i = 1
    BY <2>2
  <2> QED
    BY <2>2, <2>3 DEF F
<1>4. Spread
  BY <1>1 DEF Spread, Due
<1>5. Answered
  BY <1>3 DEF Answered, Actors
<1>6. CleanNew /\ EarlyCause
  BY <1>1, DeadlineIsCause DEF CleanNew, EarlyCause
<1>7. ChainUp
  BY <1>3 DEF ChainUp
<1>8. EarlyFrame
  BY <1>3 DEF EarlyFrame, Hurries
<1> QED
  BY <1>4, <1>5, <1>6, <1>7, <1>8 DEF Early

\* Which is that no deadline is early.
LEMMA NothingEarly == EarlyCause => NoEarlyExpiry
  BY DEF EarlyCause, Bounded, NoEarlyExpiry

\* Cancellation reaches every descendant, err() keeps what it answers and no
\* deadline is early, when the clients keep err() and a deinit above it apart
\* and leave DeadlineExceeded to the deadlines.
THEOREM CausesStayRight ==
    ErrDuringDeinit = FALSE /\ DeadlineExceeded \notin UserCauses \cup {Canceled, SpawnError}
        => (Spec => []CausesAgree)
<1> SUFFICES ASSUME ErrDuringDeinit = FALSE, OwnCause PROVE Spec => []CausesAgree
  BY DEF OwnCause
<1> DEFINE Inv == Trees /\ Locks /\ Pointers /\ Spread /\ Answered /\ Early
<1>1. Init => Inv
  BY InitLocks, InitPointers, InitCauses
<1>2. Inv /\ [Next]_vars => Inv'
  <2> SUFFICES ASSUME Inv, [Next]_vars PROVE Inv'
    OBVIOUS
  <2>1. Trees' /\ Locks'
    BY NextLocks
  <2>2. Types'
    BY <2>1 DEF Trees
  <2>3. Pointers'
    BY <2>1, NextPointers
  <2>4. Spread'
    BY <2>2, NextSpread
  <2>5. Answered'
    BY <2>2, NextAnswered
  <2>6. Early'
    BY <2>2, NextEarly
  <2> QED
    BY <2>1, <2>3, <2>4, <2>5, <2>6
<1>3. Inv => CausesAgree
  <2> SUFFICES ASSUME Inv PROVE CausesAgree
    OBVIOUS
  <2>1. Types /\ StacksFit /\ EarlyCause
    BY DEF Trees, Early
  <2> QED
    BY <2>1, SpreadReaches, AnswerIsKept, NothingEarly DEF CausesAgree
<1> HIDE DEF Inv
<1> QED
  BY <1>1, <1>2, <1>3, PTL DEF Spec
=============================================================================
