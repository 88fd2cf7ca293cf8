--------------------------- MODULE ChannelProofs ---------------------------
(***************************************************************************)
(* Theorems about the channel, for every capacity, every finite set of     *)
(* threads and every number of calls.                                      *)
(***************************************************************************)
EXTENDS Channel, FiniteSetTheorems, SequenceTheorems, TLAPS

(***************************************************************************)
(* The ring's arithmetic.                                                  *)
(***************************************************************************)
Wrap(x, C) == IF x < C THEN x ELSE x - C

LEMMA ModWrap ==
    ASSUME NEW C \in Nat \ {0}, NEW x \in 0..(2 * C - 1)
    PROVE  x % C = Wrap(x, C)
<1>1. CASE x < C
  BY <1>1, SMT DEF Wrap
<1>2. CASE x >= C
  BY <1>2, SMT DEF Wrap
<1> QED BY <1>1, <1>2

\* Two offsets below C lead to different slots.
LEMMA ModDistinct ==
    ASSUME NEW C \in Nat \ {0}, NEW h \in 0..(C - 1),
           NEW i \in 0..(C - 1), NEW j \in 0..(C - 1), i # j
    PROVE  (h + i) % C # (h + j) % C
<1>1. h + i \in 0..(2 * C - 1) /\ h + j \in 0..(2 * C - 1)
  OBVIOUS
<1>2. (h + i) % C = Wrap(h + i, C)
  BY <1>1, ModWrap, Zenon
<1>3. (h + j) % C = Wrap(h + j, C)
  BY <1>1, ModWrap, Zenon
<1> QED BY <1>2, <1>3 DEF Wrap

\* Moving the head by one shifts every offset by one, and so does moving the
\* slot that an offset leads to.
LEMMA ModShift ==
    ASSUME NEW C \in Nat \ {0}, NEW h \in 0..(C - 1), NEW i \in 0..(C - 1)
    PROVE  /\ (h + 1) % C \in 0..(C - 1)
           /\ (h + i) % C \in 0..(C - 1)
           /\ (((h + 1) % C) + i) % C = (h + i + 1) % C
           /\ (((h + i) % C) + 1) % C = (h + i + 1) % C
<1> DEFINE k == (h + 1) % C
           m == (h + i) % C
<1>1. /\ h + 1 \in 0..(2 * C - 1)
      /\ h + i \in 0..(2 * C - 1)
      /\ h + i + 1 \in 0..(2 * C - 1)
  OBVIOUS
<1>2. k = Wrap(h + 1, C)
  BY <1>1, ModWrap, Zenon
<1>3. m = Wrap(h + i, C)
  BY <1>1, ModWrap, Zenon
<1>4. (h + i + 1) % C = Wrap(h + i + 1, C)
  BY <1>1, ModWrap, Zenon
<1> HIDE DEF k, m
<1>5. k \in 0..(C - 1) /\ m \in 0..(C - 1)
  BY <1>2, <1>3 DEF Wrap
<1>6. k + i \in 0..(2 * C - 1) /\ m + 1 \in 0..(2 * C - 1)
  BY <1>5
<1>7. (k + i) % C = Wrap(k + i, C)
  BY <1>6, ModWrap, Zenon
<1>8. (m + 1) % C = Wrap(m + 1, C)
  BY <1>6, ModWrap, Zenon
<1>9. (k + i) % C = (h + i + 1) % C
  BY <1>2, <1>4, <1>5, <1>7 DEF Wrap
<1>10. (m + 1) % C = (h + i + 1) % C
  BY <1>3, <1>4, <1>5, <1>8 DEF Wrap
<1> QED BY <1>5, <1>9, <1>10 DEF k, m

(***************************************************************************)
(* The inductive invariant.                                                *)
(***************************************************************************)
\* where a call can be while it waits, and who holds send_mutex
Placed ==
    /\ \A t \in asleep \cup expired : phase[t] \in {"send", "handed", "recv"}
    /\ asleep \cap expired = {}
    /\ \A t \in timed : phase[t] # "idle"
    /\ \A t \in Threads : phase[t] # "idle" => calls[t] \in 1..MaxCalls
    /\ Buffered => \A t \in Threads : phase[t] \notin {"lock", "handed"}
    /\ ~Buffered => \A t \in Threads : phase[t] \in {"send", "handed"} <=> sendMutex = t

\* the indices of the ring, and what lies between them
At(i) == (head + i) % Capacity
RingOK ==
    /\ Buffered => head \in 0..(Capacity - 1)
    /\ Buffered => tail = At(len)
    /\ Buffered => \A i \in 0..(len - 1) : ring[At(i)] \in Msgs
    /\ ~Buffered => len = 0

\* a full slot holds the value of the sender that waits for its receiver
SlotOK ==
    slotFull => /\ ~Buffered
                /\ ~closed
                /\ sendMutex \in Senders
                /\ phase[sendMutex] = "handed"
                /\ slot = Msg(sendMutex)

Basic == TypeOK /\ Placed /\ RingOK /\ SlotOK

LEMMA InitBasic == Init => Basic
<1> SUFFICES ASSUME Init PROVE Basic
  OBVIOUS
<1> USE ChannelAssumption DEF Init
<1>1. TypeOK
  <2>1. \A t \in Threads : phase[t] = "idle" /\ calls[t] = 0
    OBVIOUS
  <2>2. phase \in [Threads -> Phases] /\ calls \in [Threads -> 0..MaxCalls]
    BY DEF Phases
  <2>3. ring \in [0..(Capacity - 1) -> Msgs \cup {None}]
    OBVIOUS
  <2>4. got \in Seq(Msgs)
    OBVIOUS
  <2>5. head \in Nat /\ tail \in Nat /\ len \in 0..Capacity
    OBVIOUS
  <2>6. timed \subseteq Threads /\ late \subseteq timed /\ expired \subseteq late /\ asleep \subseteq Threads
    OBVIOUS
  <2>7. acked \subseteq Msgs /\ failed \subseteq Msgs
    OBVIOUS
  <2>8. slot \in Msgs \cup {None} /\ slotFull \in BOOLEAN /\ closed \in BOOLEAN /\ sendMutex \in Senders \cup {None}
    OBVIOUS
  <2> HIDE DEF Init
  <2> QED BY <2>1, <2>2, <2>3, <2>4, <2>5, <2>6, <2>7, <2>8 DEF TypeOK
<1>2. Placed
  <2>1. \A t \in Threads : None # t
    OBVIOUS
  <2> QED BY <2>1 DEF Placed
<1>3. RingOK
  <2>1. CASE Buffered
    <3>1. 0 % Capacity = 0
      BY <2>1, SMT DEF Buffered
    <3> QED BY <2>1, <3>1 DEF RingOK, Buffered, At
  <2>2. CASE ~Buffered
    BY <2>2 DEF RingOK
  <2> QED BY <2>1, <2>2
<1>4. SlotOK
  BY DEF SlotOK
<1> QED BY <1>1, <1>2, <1>3, <1>4 DEF Basic

\* what an action that leaves the ring alone keeps of it
LEMMA RingFrame ==
    ASSUME RingOK, UNCHANGED bufferVars
    PROVE  RingOK'
BY DEF RingOK, bufferVars, At

LEMMA SleepBasic ==
    ASSUME Basic, NEW t \in Threads, Sleep(t)
    PROVE  Basic'
<1> USE ChannelAssumption DEF Basic, Threads, historyVars, slotVars, bufferVars
<1>1. TypeOK'
  BY DEF Sleep, Checks, Runs, Resume, TypeOK
<1>2. Placed'
  BY DEF Sleep, Checks, Runs, MustWait, Resume, TypeOK, Placed, SlotOK
<1>3. RingOK'
  BY RingFrame DEF Sleep, Checks, Runs, MustWait, Resume
<1>4. SlotOK'
  BY DEF Sleep, Checks, Runs, MustWait, Resume, TypeOK, Placed, SlotOK, Msg
<1> QED BY <1>1, <1>2, <1>3, <1>4

LEMMA PassDeadlineBasic ==
    ASSUME Basic, NEW t \in Threads, PassDeadline(t)
    PROVE  Basic'
<1> USE ChannelAssumption DEF Basic, Threads, historyVars, slotVars, bufferVars
<1>1. TypeOK'
  BY DEF PassDeadline, TypeOK
<1>2. Placed'
  BY DEF PassDeadline, TypeOK, Placed, SlotOK
<1>3. RingOK'
  BY RingFrame DEF PassDeadline
<1>4. SlotOK'
  BY DEF PassDeadline, TypeOK, Placed, SlotOK, Msg
<1> QED BY <1>1, <1>2, <1>3, <1>4

LEMMA ExpireBasic ==
    ASSUME Basic, NEW t \in Threads, Expire(t)
    PROVE  Basic'
<1> USE ChannelAssumption DEF Basic, Threads, historyVars, slotVars, bufferVars
<1>1. TypeOK'
  BY DEF Expire, TypeOK
<1>2. Placed'
  BY DEF Expire, TypeOK, Placed, SlotOK
<1>3. RingOK'
  BY RingFrame DEF Expire
<1>4. SlotOK'
  BY DEF Expire, TypeOK, Placed, SlotOK, Msg
<1> QED BY <1>1, <1>2, <1>3, <1>4

LEMMA WakeSpuriouslyBasic ==
    ASSUME Basic, NEW t \in Threads, WakeSpuriously(t)
    PROVE  Basic'
<1> USE ChannelAssumption DEF Basic, Threads, historyVars, slotVars, bufferVars
<1>1. TypeOK'
  BY DEF WakeSpuriously, Resume, TypeOK, Phases, Placed, SlotOK, Msgs
<1>2. Placed'
  BY DEF WakeSpuriously, Resume, TypeOK, Placed, SlotOK
<1>3. RingOK'
  BY RingFrame DEF WakeSpuriously, Resume
<1>4. SlotOK'
  BY DEF WakeSpuriously, Resume, TypeOK, Placed, SlotOK, Msg
<1> QED BY <1>1, <1>2, <1>3, <1>4

LEMMA TimeOutBasic ==
    ASSUME Basic, NEW t \in Threads, TimeOut(t)
    PROVE  Basic'
<1> USE ChannelAssumption DEF Basic, Threads, historyVars, slotVars, bufferVars
<1>1. TypeOK'
  <2>1. t \in Senders => Msg(t) \in Msgs
    BY DEF TimeOut, Runs, Msg, Msgs, TypeOK, Placed
  <2> QED BY <2>1 DEF TimeOut, Return, TypeOK, Phases
<1>2. Placed'
  BY DEF TimeOut, Runs, Return, MustWait, Msg, TypeOK, Placed, SlotOK
<1>3. RingOK'
  BY RingFrame DEF TimeOut, Runs, Return, MustWait, Msg
<1>4. SlotOK'
  BY DEF TimeOut, Runs, Return, MustWait, Msg, TypeOK, Placed, SlotOK, Msg
<1> QED BY <1>1, <1>2, <1>3, <1>4

LEMMA LockSendBasic ==
    ASSUME Basic, NEW t \in Senders, LockSend(t)
    PROVE  Basic'
<1> USE ChannelAssumption DEF Basic, Threads, historyVars, slotVars, bufferVars
<1>1. TypeOK'
  BY DEF LockSend, TypeOK, Phases, Placed, SlotOK, Msgs
<1>2. Placed'
  BY DEF LockSend, TypeOK, Placed, SlotOK
<1>3. RingOK'
  BY RingFrame DEF LockSend
<1>4. SlotOK'
  BY DEF LockSend, TypeOK, Placed, SlotOK, Msg
<1> QED BY <1>1, <1>2, <1>3, <1>4

LEMMA OfferBasic ==
    ASSUME Basic, NEW t \in Senders, Offer(t)
    PROVE  Basic'
<1> USE ChannelAssumption DEF Basic, Threads
<1> DEFINE stays == /\ slotFull' = TRUE
                    /\ phase' = [phase EXCEPT ![t] = "handed"]
                    /\ asleep' \subseteq asleep \cup {t}
                    /\ UNCHANGED <<sendMutex, timed, late, expired, failed>>
           leaves == /\ slotFull' = FALSE
                     /\ asleep' \subseteq asleep
                     /\ failed' = failed \cup {Msg(t)}
                     /\ Return(t)
<1>1. /\ Runs(t) /\ t \notin expired /\ phase[t] = "send" /\ ~Buffered /\ ~closed
      /\ slot' = Msg(t)
      /\ UNCHANGED <<bufferVars, closed, calls, got, acked>>
      /\ stays \/ leaves
  BY DEF Offer, Checks, Signal, WakeOne
<1>2. RingOK'
  BY <1>1, RingFrame
<1>3. Msg(t) \in Msgs /\ Msg(t)' = Msg(t)
  BY <1>1 DEF Msg, Msgs, Placed
<1>4. bufferVars' = bufferVars /\ closed' = closed /\ calls' = calls /\ got' = got /\ acked' = acked
  BY <1>1
<1>5. CASE stays
  <2>1. TypeOK'
    <3>a. phase \in [Threads -> Phases] /\ asleep \subseteq Threads /\ phase' = [phase EXCEPT ![t] = "handed"]
          /\ "handed" \in Phases
      BY <1>5 DEF TypeOK, Phases
    <3>1. slot' \in Msgs /\ slotFull' \in BOOLEAN /\ phase' \in [Threads -> Phases] /\ asleep' \subseteq Threads
      BY <1>1, <1>3, <1>5, <3>a
    <3>2. UNCHANGED <<sendMutex, timed, late, expired, failed>>
      BY <1>5
    <3> HIDE DEF stays, leaves
    <3> QED BY <1>4, <3>a, <3>1, <3>2 DEF TypeOK, bufferVars
  <2>2. Placed'
    BY <1>1, <1>4, <1>5 DEF TypeOK, Placed, Runs
  <2>3. SlotOK'
    BY <1>1, <1>3, <1>4, <1>5 DEF TypeOK, Placed, SlotOK
  <2> QED BY <1>2, <2>1, <2>2, <2>3
<1>6. CASE leaves
  <2>1. TypeOK'
    <3>a. phase \in [Threads -> Phases] /\ asleep \subseteq Threads /\ "idle" \in Phases
      BY DEF TypeOK, Phases
    <3>1. /\ slot' \in Msgs /\ slotFull' \in BOOLEAN /\ phase' \in [Threads -> Phases] /\ asleep' \subseteq Threads
          /\ phase' = [phase EXCEPT ![t] = "idle"] /\ failed' = failed \cup {Msg(t)}
      BY <1>1, <1>3, <1>6, <3>a DEF Return
    <3>2. /\ sendMutex' \in {sendMutex, None} /\ expired' = expired \ {t} /\ timed' = timed \ {t} /\ late' = late \ {t}
      BY <1>6 DEF Return
    <3> HIDE DEF stays, leaves
    <3> QED BY <1>3, <1>4, <3>a, <3>1, <3>2 DEF TypeOK, bufferVars
  <2>2. Placed'
    BY <1>1, <1>4, <1>6 DEF TypeOK, Placed, Runs, Return
  <2>3. SlotOK'
    BY <1>6 DEF SlotOK
  <2> QED BY <1>2, <2>1, <2>2, <2>3
<1> QED BY <1>1, <1>5, <1>6

LEMMA HandedBasic ==
    ASSUME Basic, NEW t \in Senders, Handed(t)
    PROVE  Basic'
<1> USE ChannelAssumption DEF Basic, Threads, historyVars, slotVars, bufferVars
<1>1. TypeOK'
  <2>1. Msg(t) \in Msgs
    BY DEF Handed, Checks, Runs, Msg, Msgs, TypeOK, Placed
  <2> QED BY <2>1 DEF Handed, Return, TypeOK, Phases
<1>2. Placed'
  BY DEF Handed, Checks, Runs, Return, MustWait, Msg, TypeOK, Placed, SlotOK
<1>3. RingOK'
  BY RingFrame DEF Handed, Checks, Runs, Return, MustWait, Msg
<1>4. SlotOK'
  BY DEF Handed, Checks, Runs, Return, MustWait, Msg, TypeOK, Placed, SlotOK, Msg
<1> QED BY <1>1, <1>2, <1>3, <1>4

LEMMA SendClosedBasic ==
    ASSUME Basic, NEW t \in Senders, SendClosed(t)
    PROVE  Basic'
<1> USE ChannelAssumption DEF Basic, Threads, historyVars, slotVars, bufferVars
<1>1. TypeOK'
  <2>1. Msg(t) \in Msgs
    BY DEF SendClosed, Checks, Runs, Msg, Msgs, TypeOK, Placed
  <2> QED BY <2>1 DEF SendClosed, Return, TypeOK, Phases
<1>2. Placed'
  BY DEF SendClosed, Checks, Runs, Return, Msg, TypeOK, Placed, SlotOK
<1>3. RingOK'
  BY RingFrame DEF SendClosed, Checks, Runs, Return, Msg
<1>4. SlotOK'
  BY DEF SendClosed, Checks, Runs, Return, Msg, TypeOK, Placed, SlotOK, Msg
<1> QED BY <1>1, <1>2, <1>3, <1>4

LEMMA PickBasic ==
    ASSUME Basic, NEW t \in Receivers, Pick(t)
    PROVE  Basic'
<1> USE ChannelAssumption DEF Basic, Threads, historyVars, slotVars, bufferVars
<1>1. TypeOK'
  <2>1. slot \in Msgs
    BY DEF Pick, SlotOK, TypeOK, Placed, Msg, Msgs
  <2>2. Append(got, slot) \in Seq(Msgs)
    BY <2>1 DEF TypeOK
  <2>3. got' \in Seq(Msgs)
    BY <2>2 DEF Pick
  <2>4. asleep' \subseteq asleep
    BY DEF Pick, Signal, WakeOne
  <2> QED BY <2>3, <2>4 DEF Pick, Checks, Runs, Return, TypeOK, Phases
<1>2. Placed'
  BY DEF Pick, Checks, Runs, Return, Signal, WakeOne, Msg, TypeOK, Placed, SlotOK
<1>3. RingOK'
  BY RingFrame DEF Pick, Checks, Runs, Return, Signal, WakeOne, Msg
<1>4. SlotOK'
  BY DEF Pick, Checks, Runs, Return, Signal, WakeOne, Msg, TypeOK, Placed, SlotOK, Msg
<1> QED BY <1>1, <1>2, <1>3, <1>4

LEMMA RecvClosedBasic ==
    ASSUME Basic, NEW t \in Receivers, RecvClosed(t)
    PROVE  Basic'
<1> USE ChannelAssumption DEF Basic, Threads, historyVars, slotVars, bufferVars
<1>1. TypeOK'
  BY DEF RecvClosed, Checks, Runs, Return, TypeOK, Phases, Placed, SlotOK, Msgs
<1>2. Placed'
  BY DEF RecvClosed, Checks, Runs, Return, TypeOK, Placed, SlotOK
<1>3. RingOK'
  BY RingFrame DEF RecvClosed, Checks, Runs, Return
<1>4. SlotOK'
  BY DEF RecvClosed, Checks, Runs, Return, TypeOK, Placed, SlotOK, Msg
<1> QED BY <1>1, <1>2, <1>3, <1>4

LEMMA CallBasic ==
    ASSUME Basic, NEW t \in Threads, NEW start, NEW d \in BOOLEAN, Call(t, d, start),
           \/ t \in Senders /\ start = IF Buffered THEN "send" ELSE "lock"
           \/ t \in Receivers /\ start = "recv"
    PROVE  Basic'
<1> USE ChannelAssumption DEF Basic, Threads, historyVars, slotVars, bufferVars
<1>1. TypeOK'
  BY DEF Call, TypeOK, Phases
<1>2. Placed'
  BY DEF Call, TypeOK, Placed
<1>3. RingOK'
  BY RingFrame DEF Call
<1>4. SlotOK'
  BY DEF Call, TypeOK, Placed, SlotOK, Msg
<1> QED BY <1>1, <1>2, <1>3, <1>4

LEMMA CloseBasic ==
    ASSUME Basic, Close
    PROVE  Basic'
<1> USE ChannelAssumption DEF Basic, Threads, historyVars, slotVars, bufferVars
<1>1. TypeOK'
  BY DEF Close, Resume, TypeOK, Phases
<1>2. Placed'
  BY DEF Close, Resume, TypeOK, Placed
<1>3. RingOK'
  BY RingFrame DEF Close
<1>4. SlotOK'
  BY DEF Close, SlotOK
<1> QED BY <1>1, <1>2, <1>3, <1>4

\* One more item: the slot behind the last one is filled, the others are kept.
LEMMA PushBasic ==
    ASSUME Basic, NEW t \in Senders, Push(t)
    PROVE  Basic'
<1> USE ChannelAssumption DEF Basic, Threads
<1>1. /\ Buffered /\ Runs(t) /\ phase[t] = "send" /\ ~closed /\ len # Capacity
      /\ ring' = [ring EXCEPT ![tail] = Msg(t)]
      /\ tail' = (tail + 1) % Capacity
      /\ len' = len + 1
      /\ acked' = acked \cup {Msg(t)}
      /\ Return(t)
      /\ head' = head /\ slot' = slot /\ slotFull' = slotFull /\ closed' = closed
      /\ calls' = calls /\ got' = got /\ failed' = failed
  BY DEF Push, Checks, MustWait, slotVars
<1>2. asleep' \subseteq asleep
  BY DEF Push, Signal, WakeOne
<1>3. Capacity \in Nat \ {0} /\ head \in 0..(Capacity - 1) /\ len \in 0..(Capacity - 1)
  BY <1>1 DEF TypeOK, RingOK, Buffered
<1>4. Msg(t) \in Msgs
  BY <1>1 DEF Msg, Msgs, Placed, Runs
<1>5. /\ tail = At(len)
      /\ tail \in 0..(Capacity - 1)
      /\ tail' = (head + len + 1) % Capacity
      /\ tail' \in Nat
  <2>1. tail = At(len)
    BY <1>1 DEF RingOK
  <2>2. /\ At(len) \in 0..(Capacity - 1)
        /\ (At(len) + 1) % Capacity = (head + len + 1) % Capacity
    BY <1>3, ModShift, Zenon DEF At
  <2>3. head + len + 1 \in Nat
    BY <1>3
  <2>4. (head + len + 1) % Capacity \in Nat
    BY <1>3, <2>3, SMT
  <2> QED BY <1>1, <2>1, <2>2, <2>4
<1>6. RingOK'
  <2>1. tail' = (head' + len') % Capacity
    <3>1. head + len + 1 = head' + len'
      BY <1>1, <1>3
    <3> QED BY <1>5, <3>1
  <2>2. ASSUME NEW i \in 0..len
        PROVE  ring'[At(i)] \in Msgs
    <3>1. i \in 0..(Capacity - 1)
      BY <1>3
    <3>2. At(i) \in 0..(Capacity - 1)
      BY <1>3, <3>1, ModShift, Zenon DEF At
    <3>3. CASE i = len
      BY <1>1, <1>4, <1>5, <3>3 DEF TypeOK
    <3>4. CASE i # len
      <4>1. i \in 0..(len - 1)
        BY <1>3, <3>4
      <4>2. At(i) # tail
        BY <1>3, <1>5, <3>1, <3>4, ModDistinct, Zenon DEF At
      <4> QED BY <1>1, <1>5, <3>2, <4>1, <4>2 DEF TypeOK, RingOK
    <3> QED BY <3>3, <3>4
  <2>3. \A i \in 0..(len' - 1) : ring'[At(i)] \in Msgs
    BY <1>1, <1>3, <2>2
  <2> QED BY <1>1, <1>3, <2>1, <2>3 DEF RingOK, At
<1>7. TypeOK'
  <2>1. ring' \in [0..(Capacity - 1) -> Msgs \cup {None}]
    BY <1>1, <1>4 DEF TypeOK
  <2>2. tail' \in Nat /\ len' \in 0..Capacity
    BY <1>1, <1>3, <1>5
  <2> QED BY <1>1, <1>2, <1>4, <2>1, <2>2 DEF TypeOK, Phases, Return
<1>8. Placed'
  BY <1>1, <1>2 DEF TypeOK, Placed, Runs, Return
<1>9. SlotOK'
  BY <1>1 DEF SlotOK
<1> QED BY <1>6, <1>7, <1>8, <1>9

\* One item less: the head moves, and with it every offset.
LEMMA TakeBasic ==
    ASSUME Basic, NEW t \in Receivers, Take(t)
    PROVE  Basic'
<1> USE ChannelAssumption DEF Basic, Threads
<1>1. /\ Buffered /\ Runs(t) /\ len > 0
      /\ got' = Append(got, ring[head])
      /\ head' = (head + 1) % Capacity
      /\ len' = len - 1
      /\ Return(t)
      /\ ring' = ring /\ tail' = tail /\ slot' = slot /\ slotFull' = slotFull
      /\ closed' = closed /\ calls' = calls /\ acked' = acked /\ failed' = failed
  BY DEF Take, Checks, slotVars
<1>2. asleep' \subseteq asleep
  BY DEF Take, Signal, WakeOne
<1>3. Capacity \in Nat \ {0} /\ head \in 0..(Capacity - 1) /\ len \in 1..Capacity
  BY <1>1 DEF TypeOK, RingOK, Buffered
<1>4. \A i \in 0..(Capacity - 1) : /\ head' \in 0..(Capacity - 1)
                                   /\ (head' + i) % Capacity = (head + i + 1) % Capacity
  BY <1>1, <1>3, ModShift, Zenon
<1>5. At(0) = head
  <2>1. head + 0 = head /\ head \in 0..(2 * Capacity - 1) /\ Wrap(head, Capacity) = head
    BY <1>3 DEF Wrap
  <2> QED BY <1>3, <2>1, ModWrap, Zenon DEF At
<1>6. ring[head] \in Msgs
  <2>1. 0 \in 0..(len - 1)
    BY <1>3
  <2> QED BY <1>1, <1>5, <2>1 DEF RingOK
<1>7. RingOK'
  <2>1. ASSUME NEW i \in 0..(len' - 1)
        PROVE  ring'[At(i)'] \in Msgs
    <3>1. i \in 0..(Capacity - 1) /\ i + 1 \in 0..(len - 1) /\ head + i + 1 = head + (i + 1)
      BY <1>1, <1>3
    <3>2. At(i)' = At(i + 1)
      BY <1>4, <3>1 DEF At
    <3> QED BY <1>1, <3>1, <3>2 DEF RingOK
  <2>2. tail' = (head' + len') % Capacity
    <3>1. len - 1 \in 0..(Capacity - 1) /\ head + (len - 1) + 1 = head + len
      BY <1>3
    <3> QED BY <1>1, <1>4, <3>1 DEF RingOK, At
  <2>3. head' \in 0..(Capacity - 1)
    BY <1>3, <1>4
  <2> QED BY <1>1, <2>1, <2>2, <2>3 DEF RingOK, At
<1>8. TypeOK'
  <2>1. Append(got, ring[head]) \in Seq(Msgs)
    BY <1>6 DEF TypeOK
  <2>2. head' \in Nat /\ len' \in 0..Capacity
    BY <1>1, <1>3, <1>4
  <2> QED BY <1>1, <1>2, <2>1, <2>2 DEF TypeOK, Phases, Return
<1>9. Placed'
  BY <1>1, <1>2 DEF TypeOK, Placed, Runs, Return
<1>10. SlotOK'
  BY <1>1 DEF SlotOK
<1> QED BY <1>7, <1>8, <1>9, <1>10

LEMMA NextBasic ==
    ASSUME Basic, [Next]_vars
    PROVE  Basic'
<1>1. ASSUME NEW t \in Threads, Step(t)
      PROVE  Basic'
  BY <1>1, SleepBasic, TimeOutBasic, LockSendBasic, PushBasic, OfferBasic, HandedBasic,
     SendClosedBasic, TakeBasic, PickBasic, RecvClosedBasic
     DEF Step, WaitStep, SendStep, RecvStep
<1>2. ASSUME NEW t \in Senders, CallSend(t)
      PROVE  Basic'
  BY <1>2, CallBasic DEF CallSend, Threads
<1>3. ASSUME NEW t \in Receivers, CallRecv(t)
      PROVE  Basic'
  BY <1>3, CallBasic DEF CallRecv, Threads
<1>4. CASE UNCHANGED vars
  <2>1. RingOK'
    BY <1>4, RingFrame DEF vars, Basic
  <2>2. TypeOK' /\ Placed' /\ SlotOK'
    BY <1>4 DEF vars, bufferVars, slotVars, historyVars, Basic, TypeOK, Placed, SlotOK, Msg
  <2> QED BY <2>1, <2>2 DEF Basic
<1> QED BY <1>1, <1>2, <1>3, <1>4, PassDeadlineBasic, ExpireBasic, WakeSpuriouslyBasic,
          CloseBasic DEF Next, Done

\* Every variable keeps its type: in particular the values in the ring and in
\* a full slot are messages of a send that is or was in progress.
THEOREM ChannelTypes == Spec => []TypeOK
<1>1. Init => Basic
  BY InitBasic
<1>2. Basic /\ [Next]_vars => Basic'
  BY NextBasic
<1>3. Basic => TypeOK
  BY DEF Basic
<1> QED BY <1>1, <1>2, <1>3, PTL DEF Spec

(***************************************************************************)
(* No lost wakeup.  Each side is an inductive invariant next to Basic: a   *)
(* step either adds to the awake threads, or it takes no more from them    *)
(* than from what they can do.                                             *)
(***************************************************************************)
ClosedIsAwake == closed => asleep = {}

LEMMA ClosedIsAwakeStep ==
    ASSUME Basic, ClosedIsAwake, [Next]_vars
    PROVE  ClosedIsAwake'
<1>1. CASE UNCHANGED vars
  BY <1>1 DEF vars, ClosedIsAwake
<1>2. CASE Close
  BY <1>2 DEF Close, ClosedIsAwake
<1>3. ASSUME NEW t \in Threads, Step(t)
      PROVE  ClosedIsAwake'
  <2>1. closed' = closed /\ (closed => asleep' \subseteq asleep)
    BY <1>3 DEF Step, WaitStep, SendStep, RecvStep, Sleep, TimeOut, LockSend, Push, Offer,
       Handed, SendClosed, Take, Pick, RecvClosed, MustWait, Signal, WakeOne, slotVars
  <2> QED BY <2>1 DEF ClosedIsAwake
<1>4. ASSUME NEW t \in Threads, PassDeadline(t) \/ Expire(t) \/ WakeSpuriously(t)
      PROVE  ClosedIsAwake'
  BY <1>4 DEF PassDeadline, Expire, WakeSpuriously, ClosedIsAwake
<1>5. ASSUME NEW t, NEW d, NEW start, Call(t, d, start)
      PROVE  ClosedIsAwake'
  BY <1>5 DEF Call, ClosedIsAwake
<1> QED BY <1>1, <1>2, <1>3, <1>4, <1>5 DEF Next, Done, CallSend, CallRecv

LEMMA SubsetCardinality ==
    ASSUME NEW S, IsFiniteSet(S), NEW A \in SUBSET S, NEW B \in SUBSET S
    PROVE  /\ Cardinality(A) \in Nat
           /\ A \subseteq B => Cardinality(A) <= Cardinality(B)
           /\ \A x \in S : x \notin A => Cardinality(A \cup {x}) = Cardinality(A) + 1
           /\ \A x \in A : Cardinality(A \ {x}) = Cardinality(A) - 1
<1>1. IsFiniteSet(A) /\ IsFiniteSet(B)
  BY FS_Subset
<1> QED BY <1>1, FS_Subset, FS_CardinalityType, FS_AddElement, FS_RemoveElement

LEMMA ItemsFrame ==
    ASSUME Basic, Basic', WakeupsCoverItems,
           \/ Items' = 0
           \/ asleep' \cap Receivers = {}
           \/ /\ Items' = Items
              /\ AwakeReceivers \subseteq AwakeReceivers'
              /\ asleep' \cap Receivers # {} => asleep \cap Receivers # {}
    PROVE  WakeupsCoverItems'
<1>1. /\ IsFiniteSet(Receivers)
      /\ AwakeReceivers \in SUBSET Receivers
      /\ AwakeReceivers' \in SUBSET Receivers
  BY ChannelAssumption DEF AwakeReceivers
<1>2. /\ Cardinality(AwakeReceivers) \in Nat
      /\ Cardinality(AwakeReceivers') \in Nat
      /\ AwakeReceivers \subseteq AwakeReceivers' =>
             Cardinality(AwakeReceivers) <= Cardinality(AwakeReceivers')
  BY <1>1, SubsetCardinality
<1>3. Items \in Nat
  BY DEF Items, Basic, TypeOK
<1> QED BY <1>2, <1>3 DEF WakeupsCoverItems

LEMMA ItemsStep ==
    ASSUME Basic, Basic', ClosedIsAwake, WakeupsCoverItems, [Next]_vars
    PROVE  WakeupsCoverItems'
<1> USE ChannelAssumption DEF Basic, Threads
<1> DEFINE Keeps == /\ Items' = Items
                    /\ AwakeReceivers \subseteq AwakeReceivers'
                    /\ asleep' \cap Receivers # {} => asleep \cap Receivers # {}
<1>1. CASE UNCHANGED vars
  <2>1. Keeps
    BY <1>1 DEF vars, bufferVars, slotVars, Items, AwakeReceivers
  <2> QED BY <2>1, ItemsFrame
<1>2. CASE Close
  BY <1>2, ItemsFrame DEF Close
<1>3. ASSUME NEW t \in Threads, NEW d, NEW start, Call(t, d, start)
      PROVE  WakeupsCoverItems'
  <2>1. Keeps
    BY <1>3 DEF Call, bufferVars, slotVars, Items, AwakeReceivers, TypeOK
  <2> QED BY <2>1, ItemsFrame
<1>4. ASSUME NEW t \in Threads, PassDeadline(t) \/ Expire(t) \/ WakeSpuriously(t)
      PROVE  WakeupsCoverItems'
  <2>1. Keeps
    BY <1>4 DEF PassDeadline, Expire, WakeSpuriously, Resume, bufferVars, slotVars, Items,
       AwakeReceivers, TypeOK, Placed
  <2> QED BY <2>1, ItemsFrame
<1>5. ASSUME NEW t \in Threads, Sleep(t)
      PROVE  WakeupsCoverItems'
  <2>1. Items' = Items
    BY <1>5 DEF Sleep, bufferVars, slotVars, Items
  <2>2. CASE phase[t] = "recv"
    BY <1>5, <2>1, <2>2, ItemsFrame DEF Sleep, MustWait
  <2>3. CASE phase[t] # "recv"
    <3>1. t \notin Receivers
      BY <1>5, <2>3 DEF Sleep, Checks, Runs, TypeOK, MustWait
    <3>2. Keeps
      BY <1>5, <2>1, <3>1 DEF Sleep, Resume, AwakeReceivers
    <3> QED BY <3>2, ItemsFrame
  <2> QED BY <2>2, <2>3
<1>6. ASSUME NEW t \in Threads, TimeOut(t)
      PROVE  WakeupsCoverItems'
  <2>1. CASE t \in Senders
    <3>1. Items' = Items \/ Items' = 0
      BY <1>6 DEF TimeOut, bufferVars, Items, TypeOK
    <3>2. AwakeReceivers \subseteq AwakeReceivers' /\ asleep' = asleep
      BY <1>6, <2>1 DEF TimeOut, Return, AwakeReceivers, TypeOK
    <3> QED BY <3>1, <3>2, ItemsFrame
  <2>2. CASE t \in Receivers
    <3>1. phase[t] = "recv"
      BY <1>6, <2>2 DEF TimeOut, Runs, TypeOK, Phases
    <3>2. Items' = Items /\ asleep' = asleep
      BY <1>6, <3>1 DEF TimeOut, bufferVars, Items, TypeOK
    <3>3. CASE t \in expired
      <4>1. AwakeReceivers \subseteq AwakeReceivers'
        BY <1>6, <3>3 DEF TimeOut, Return, AwakeReceivers, TypeOK
      <4> QED BY <3>2, <4>1, ItemsFrame
    <3>4. CASE t \notin expired
      BY <1>6, <3>1, <3>2, <3>4, ItemsFrame DEF TimeOut, MustWait
    <3> QED BY <3>3, <3>4
  <2> QED BY <2>1, <2>2
<1>7. ASSUME NEW t \in Senders, LockSend(t) \/ Handed(t) \/ SendClosed(t)
      PROVE  WakeupsCoverItems'
  <2>1. Keeps
    BY <1>7 DEF LockSend, Handed, SendClosed, Return, bufferVars, slotVars, Items,
       AwakeReceivers, TypeOK
  <2> QED BY <2>1, ItemsFrame
<1>8. ASSUME NEW t \in Senders, Push(t)
      PROVE  WakeupsCoverItems'
  <2>1. /\ Buffered /\ Items' = Items + 1 /\ Items \in Nat
        /\ phase' = [phase EXCEPT ![t] = "idle"] /\ expired' = expired \ {t}
        /\ Signal(Receivers)
    BY <1>8 DEF Push, Return, Items, TypeOK
  <2>2. CASE asleep \cap Receivers = {} /\ asleep' = asleep
    BY <2>2 DEF WakeupsCoverItems
  <2>3. ASSUME NEW r \in asleep \cap Receivers, asleep' = asleep \ {r}
        PROVE  WakeupsCoverItems'
    <3>1. phase[r] = "recv" /\ r \notin expired /\ r # t
      BY <2>3 DEF Placed, TypeOK
    <3>2. AwakeReceivers' = AwakeReceivers \cup {r} /\ r \notin AwakeReceivers
      <4>1. DOMAIN phase = Threads /\ r \in Receivers /\ t \notin Receivers
        BY <2>3, ChannelAssumption DEF TypeOK
      <4>2. ASSUME NEW x \in Receivers PROVE x \in AwakeReceivers' <=> x \in AwakeReceivers \/ x = r
        <5>1. phase'[x] = phase[x] /\ (x \in expired' <=> x \in expired)
          BY <2>1, <4>1, <4>2
        <5> QED BY <2>3, <3>1, <5>1 DEF AwakeReceivers
      <4>3. r \notin AwakeReceivers
        BY <2>3 DEF AwakeReceivers
      <4> QED BY <4>1, <4>2, <4>3 DEF AwakeReceivers
    <3>3. AwakeReceivers \in SUBSET Receivers
      BY DEF AwakeReceivers
    <3>4. /\ Cardinality(AwakeReceivers') = Cardinality(AwakeReceivers) + 1
          /\ Cardinality(AwakeReceivers) \in Nat
      BY <2>3, <3>2, <3>3, SubsetCardinality
    <3> QED BY <2>1, <2>3, <3>4 DEF WakeupsCoverItems
  <2> QED BY <2>1, <2>2, <2>3 DEF Signal, WakeOne
<1>9. ASSUME NEW t \in Senders, Offer(t)
      PROVE  WakeupsCoverItems'
  <2>1. CASE asleep' \cap Receivers = {} \/ Items' = 0
    BY <2>1, ItemsFrame
  <2>2. CASE asleep' \cap Receivers # {} /\ Items' # 0
    <3>1. ~Buffered /\ slotFull' = TRUE /\ phase' = [phase EXCEPT ![t] = "handed"] /\ expired' = expired
      BY <1>9, <2>2 DEF Offer, Items, bufferVars, Buffered
    <3>2. PICK r \in asleep \cap Receivers : asleep' = (asleep \ {r}) \cup {t}
      BY <1>9, <2>2, <3>1 DEF Offer, WakeOne
    <3>3. r \in AwakeReceivers'
      BY <3>1, <3>2 DEF AwakeReceivers, Placed, TypeOK
    <3>4. AwakeReceivers' \in SUBSET Receivers /\ {r} \in SUBSET Receivers /\ {r} \subseteq AwakeReceivers'
      BY <3>3 DEF AwakeReceivers
    <3>5. Cardinality({r}) <= Cardinality(AwakeReceivers') /\ Cardinality(AwakeReceivers') \in Nat
      BY <3>4, SubsetCardinality
    <3>6. Cardinality({r}) = 1 /\ Items' = 1
      BY <2>2, <3>1, FS_Singleton DEF Items, Buffered
    <3> QED BY <3>5, <3>6 DEF WakeupsCoverItems
  <2> QED BY <2>1, <2>2
<1>10. ASSUME NEW t \in Receivers, Take(t)
       PROVE  WakeupsCoverItems'
  <2>1. /\ Buffered /\ Items' = Items - 1 /\ Items \in Nat
        /\ phase[t] = "recv" /\ t \notin asleep /\ t \notin expired
        /\ phase' = [phase EXCEPT ![t] = "idle"] /\ expired' = expired \ {t}
        /\ asleep' \cap Receivers = asleep \cap Receivers
    <3>1. /\ Buffered /\ Items' = Items - 1 /\ Items \in Nat
          /\ phase[t] = "recv" /\ t \notin asleep /\ t \notin expired
      BY <1>10 DEF Take, Checks, Runs, Items, TypeOK
    <3>2. phase' = [phase EXCEPT ![t] = "idle"] /\ expired' = expired \ {t} /\ Signal(Senders)
      BY <1>10 DEF Take, Return
    <3>3. asleep' \cap Receivers = asleep \cap Receivers
      BY <3>2, ChannelAssumption DEF Signal, WakeOne
    <3> QED BY <3>1, <3>2, <3>3
  <2>2. AwakeReceivers' = AwakeReceivers \ {t} /\ t \in AwakeReceivers
    <3>1. DOMAIN phase = Threads
      BY DEF TypeOK
    <3>2. ASSUME NEW x \in Receivers PROVE x \in AwakeReceivers' <=> x \in AwakeReceivers /\ x # t
      <4>1. CASE x = t
        BY <2>1, <3>1, <4>1 DEF AwakeReceivers
      <4>2. CASE x # t
        <5>1. phase'[x] = phase[x] /\ (x \in expired' <=> x \in expired) /\ (x \in asleep' <=> x \in asleep)
          BY <2>1, <3>1, <3>2, <4>2
        <5> QED BY <4>2, <5>1 DEF AwakeReceivers
      <4> QED BY <4>1, <4>2
    <3>3. t \in AwakeReceivers
      BY <2>1 DEF AwakeReceivers
    <3> QED BY <3>2, <3>3 DEF AwakeReceivers
  <2>3. AwakeReceivers \in SUBSET Receivers
    BY DEF AwakeReceivers
  <2>4. /\ Cardinality(AwakeReceivers') = Cardinality(AwakeReceivers) - 1
        /\ Cardinality(AwakeReceivers) \in Nat
    BY <2>2, <2>3, SubsetCardinality
  <2> QED BY <2>1, <2>4 DEF WakeupsCoverItems
<1>11. ASSUME NEW t \in Receivers, Pick(t) \/ RecvClosed(t)
       PROVE  WakeupsCoverItems'
  <2>1. Items' = 0
    BY <1>11 DEF Pick, RecvClosed, Items, bufferVars, slotVars, Buffered
  <2> QED BY <2>1, ItemsFrame
<1> QED BY <1>1, <1>2, <1>3, <1>4, <1>5, <1>6, <1>7, <1>8, <1>9, <1>10, <1>11
        DEF Next, Done, Step, WaitStep, SendStep, RecvStep, CallSend, CallRecv

\* However many threads share the channel and whatever its capacity: as long as
\* a receiver sleeps, at least as many receivers as there are items are awake.
THEOREM NoLostReceiverWakeup == Spec => []WakeupsCoverItems
<1> DEFINE I == Basic /\ ClosedIsAwake /\ WakeupsCoverItems
<1>1. Init => I
  <2>1. Init => asleep = {}
    BY DEF Init
  <2> QED BY <2>1, InitBasic DEF ClosedIsAwake, WakeupsCoverItems
<1>2. I /\ [Next]_vars => I'
  BY NextBasic, ClosedIsAwakeStep, ItemsStep
<1>3. I => WakeupsCoverItems
  OBVIOUS
<1> QED BY <1>1, <1>2, <1>3, PTL DEF Spec

(***************************************************************************)
(* The senders' side: free slots of the ring, and the one sender that      *)
(* waits for its value to be taken out of the slot.                        *)
(***************************************************************************)
LEMMA SpaceFrame ==
    ASSUME Basic, Basic', Buffered, WakeupsCoverSpace,
           \/ len' = Capacity
           \/ asleep' \cap Senders = {}
           \/ /\ len' = len
              /\ AwakeSenders \subseteq AwakeSenders'
              /\ asleep' \cap Senders # {} => asleep \cap Senders # {}
    PROVE  WakeupsCoverSpace'
<1>1. /\ IsFiniteSet(Senders)
      /\ AwakeSenders \in SUBSET Senders
      /\ AwakeSenders' \in SUBSET Senders
  BY ChannelAssumption DEF AwakeSenders
<1>2. /\ Cardinality(AwakeSenders) \in Nat
      /\ Cardinality(AwakeSenders') \in Nat
      /\ AwakeSenders \subseteq AwakeSenders' =>
             Cardinality(AwakeSenders) <= Cardinality(AwakeSenders')
  BY <1>1, SubsetCardinality
<1>3. len \in 0..Capacity /\ Capacity \in Nat
  BY ChannelAssumption DEF Basic, TypeOK
<1> QED BY <1>2, <1>3 DEF WakeupsCoverSpace, Buffered

LEMMA BufferedSpaceStep ==
    ASSUME Basic, Basic', Buffered, ClosedIsAwake, WakeupsCoverSpace, [Next]_vars
    PROVE  WakeupsCoverSpace'
<1> USE ChannelAssumption DEF Basic, Threads
<1> DEFINE Keeps == /\ len' = len
                    /\ AwakeSenders \subseteq AwakeSenders'
                    /\ asleep' \cap Senders # {} => asleep \cap Senders # {}
<1>1. CASE UNCHANGED vars
  <2>1. Keeps
    BY <1>1 DEF vars, bufferVars, AwakeSenders
  <2> QED BY <2>1, SpaceFrame
<1>2. CASE Close
  BY <1>2, SpaceFrame DEF Close
<1>3. ASSUME NEW t \in Threads, NEW d, NEW start, Call(t, d, start)
      PROVE  WakeupsCoverSpace'
  <2>1. Keeps
    BY <1>3 DEF Call, bufferVars, AwakeSenders, TypeOK
  <2> QED BY <2>1, SpaceFrame
<1>4. ASSUME NEW t \in Threads, PassDeadline(t) \/ Expire(t) \/ WakeSpuriously(t)
      PROVE  WakeupsCoverSpace'
  <2>1. Keeps
    BY <1>4 DEF PassDeadline, Expire, WakeSpuriously, Resume, bufferVars, AwakeSenders,
       TypeOK, Placed
  <2> QED BY <2>1, SpaceFrame
<1>5. ASSUME NEW t \in Threads, Sleep(t)
      PROVE  WakeupsCoverSpace'
  <2>1. CASE phase[t] = "send"
    BY <1>5, <2>1, SpaceFrame DEF Sleep, MustWait, bufferVars
  <2>2. CASE phase[t] # "send"
    <3>1. t \notin Senders
      BY <1>5, <2>2 DEF Sleep, Checks, Runs, TypeOK, Phases, Placed
    <3>2. Keeps
      BY <1>5, <3>1 DEF Sleep, Resume, bufferVars, AwakeSenders
    <3> QED BY <3>2, SpaceFrame
  <2> QED BY <2>1, <2>2
<1>6. ASSUME NEW t \in Threads, TimeOut(t)
      PROVE  WakeupsCoverSpace'
  <2>1. len' = len /\ asleep' = asleep
    BY <1>6 DEF TimeOut, bufferVars
  <2>2. CASE t \in AwakeSenders
    <3>1. len = Capacity
      BY <1>6, <2>2 DEF TimeOut, MustWait, AwakeSenders
    <3> QED BY <2>1, <3>1, SpaceFrame
  <2>3. CASE t \notin AwakeSenders
    <3>1. AwakeSenders \subseteq AwakeSenders'
      BY <1>6, <2>3 DEF TimeOut, Return, AwakeSenders, TypeOK
    <3> QED BY <2>1, <3>1, SpaceFrame
  <2> QED BY <2>2, <2>3
<1>7. ASSUME NEW t \in Receivers, RecvClosed(t)
      PROVE  WakeupsCoverSpace'
  <2>1. Keeps
    BY <1>7 DEF RecvClosed, Return, bufferVars, AwakeSenders, TypeOK
  <2> QED BY <2>1, SpaceFrame
<1>8. ASSUME NEW t \in Senders, SendClosed(t)
      PROVE  WakeupsCoverSpace'
  BY <1>8, SpaceFrame DEF SendClosed, ClosedIsAwake
<1>9. ASSUME NEW t \in Senders, Push(t)
      PROVE  WakeupsCoverSpace'
  <2>1. /\ len' = len + 1 /\ len \in Nat
        /\ phase[t] = "send" /\ t \notin asleep /\ t \notin expired
        /\ phase' = [phase EXCEPT ![t] = "idle"] /\ expired' = expired \ {t}
        /\ asleep' \cap Senders = asleep \cap Senders
    BY <1>9 DEF Push, Checks, Runs, Return, TypeOK, Signal, WakeOne
  <2>2. AwakeSenders' = AwakeSenders \ {t} /\ t \in AwakeSenders
    BY <2>1 DEF AwakeSenders, TypeOK
  <2>3. AwakeSenders \in SUBSET Senders
    BY DEF AwakeSenders
  <2>4. /\ Cardinality(AwakeSenders') = Cardinality(AwakeSenders) - 1
        /\ Cardinality(AwakeSenders) \in Nat
    BY <2>2, <2>3, SubsetCardinality
  <2> QED BY <2>1, <2>4 DEF WakeupsCoverSpace
<1>10. ASSUME NEW t \in Receivers, Take(t)
       PROVE  WakeupsCoverSpace'
  <2>1. /\ len' = len - 1 /\ len \in Nat
        /\ phase' = [phase EXCEPT ![t] = "idle"] /\ expired' = expired \ {t}
        /\ Signal(Senders)
    BY <1>10 DEF Take, Return, TypeOK
  <2>2. CASE asleep \cap Senders = {} /\ asleep' = asleep
    BY <2>2 DEF WakeupsCoverSpace
  <2>3. ASSUME NEW s \in asleep \cap Senders, asleep' = asleep \ {s}
        PROVE  WakeupsCoverSpace'
    <3>1. phase[s] = "send" /\ s \notin expired /\ s # t
      BY <2>3 DEF Placed, TypeOK
    <3>2. AwakeSenders' = AwakeSenders \cup {s} /\ s \notin AwakeSenders
      BY <2>1, <2>3, <3>1 DEF AwakeSenders, TypeOK
    <3>3. AwakeSenders \in SUBSET Senders
      BY DEF AwakeSenders
    <3>4. /\ Cardinality(AwakeSenders') = Cardinality(AwakeSenders) + 1
          /\ Cardinality(AwakeSenders) \in Nat
      BY <2>3, <3>2, <3>3, SubsetCardinality
    <3> QED BY <2>1, <2>3, <3>4 DEF WakeupsCoverSpace
  <2> QED BY <2>1, <2>2, <2>3 DEF Signal, WakeOne
<1>11. ASSUME NEW t \in Threads, LockSend(t) \/ Handed(t) \/ Offer(t) \/ Pick(t)
       PROVE  FALSE
  BY <1>11 DEF LockSend, Handed, Offer, Pick, Placed
<1> QED BY <1>1, <1>2, <1>3, <1>4, <1>5, <1>6, <1>7, <1>8, <1>9, <1>10, <1>11
        DEF Next, Done, Step, WaitStep, SendStep, RecvStep, CallSend, CallRecv

\* At most one sender sleeps on an unbuffered channel: the holder of send_mutex,
\* whose value is in the slot.
LEMMA UnbufferedSpaceStep ==
    ASSUME Basic, Basic', ~Buffered, ClosedIsAwake, WakeupsCoverSpace, [Next]_vars
    PROVE  WakeupsCoverSpace'
<1> USE ChannelAssumption DEF Basic, Threads
<1>1. \A s \in asleep \cap Senders :
          phase[s] = "handed" /\ slotFull /\ slot = Msg(s) /\ sendMutex = s
  BY DEF WakeupsCoverSpace, Placed
<1>2. ASSUME asleep' \cap Senders \subseteq asleep, UNCHANGED <<slot, slotFull, calls>>,
             \A s \in asleep' \cap Senders : phase'[s] = phase[s]
      PROVE  WakeupsCoverSpace'
  BY <1>1, <1>2 DEF WakeupsCoverSpace, Msg
<1>3. CASE UNCHANGED vars
  BY <1>2, <1>3 DEF vars, slotVars
<1>4. CASE Close
  BY <1>4 DEF Close, WakeupsCoverSpace
<1>5. ASSUME NEW t \in Threads, NEW d, NEW start, Call(t, d, start)
      PROVE  WakeupsCoverSpace'
  <2>1. \A s \in asleep \cap Senders : s # t
    BY <1>1, <1>5 DEF Call
  <2>2. \A s \in asleep' \cap Senders : phase'[s] = phase[s] /\ calls'[s] = calls[s]
    BY <1>5, <2>1 DEF Call, TypeOK
  <2> QED BY <1>1, <1>5, <2>2 DEF Call, slotVars, WakeupsCoverSpace, Msg
<1>6. ASSUME NEW t \in Threads, PassDeadline(t) \/ Expire(t) \/ WakeSpuriously(t)
      PROVE  WakeupsCoverSpace'
  BY <1>2, <1>6 DEF PassDeadline, Expire, WakeSpuriously, Resume, slotVars
<1>7. ASSUME NEW t \in Threads, Sleep(t)
      PROVE  WakeupsCoverSpace'
  <2>1. asleep' = asleep \cup {t} /\ UNCHANGED <<phase, slot, slotFull, calls>>
    BY <1>7 DEF Sleep, Resume, slotVars
  <2>2. CASE t \in Receivers
    <3>1. asleep' \cap Senders = asleep \cap Senders
      BY <2>1, <2>2
    <3> QED BY <1>2, <2>1, <3>1
  <2>3. CASE t \in Senders
    <3>1. slotFull /\ phase[t] \in {"send", "handed"} /\ sendMutex = t
      BY <1>7, <2>3 DEF Sleep, Checks, Runs, MustWait, TypeOK, Phases, Placed
    <3>2. phase[t] = "handed" /\ slot = Msg(t)
      BY <3>1 DEF SlotOK
    <3> QED BY <1>1, <2>1, <3>1, <3>2 DEF WakeupsCoverSpace, Msg
  <2> QED BY <2>2, <2>3
<1>8. ASSUME NEW t \in Threads, TimeOut(t)
      PROVE  WakeupsCoverSpace'
  <2>1. t \notin asleep /\ asleep' = asleep /\ UNCHANGED <<slot, calls>>
        /\ slotFull' = (slotFull /\ phase[t] # "handed")
        /\ phase' = [phase EXCEPT ![t] = "idle"]
    BY <1>8 DEF TimeOut, Runs, Return
  <2>2. CASE phase[t] = "handed"
    <3>1. asleep' \cap Senders = {}
      BY <1>1, <2>1, <2>2 DEF Placed
    <3> QED BY <3>1 DEF WakeupsCoverSpace
  <2>3. CASE phase[t] # "handed"
    <3>1. \A s \in asleep' \cap Senders : phase'[s] = phase[s]
      BY <2>1 DEF TypeOK
    <3>2. slotFull' = slotFull
      BY <2>1, <2>3 DEF TypeOK
    <3> QED BY <1>2, <2>1, <3>1, <3>2
  <2> QED BY <2>2, <2>3
<1>9. ASSUME NEW t \in Senders, LockSend(t) \/ Handed(t) \/ SendClosed(t)
      PROVE  WakeupsCoverSpace'
  <2>1. /\ asleep' = asleep /\ UNCHANGED <<slot, slotFull, calls>>
        /\ \A s \in Threads : s # t => phase'[s] = phase[s]
    BY <1>9 DEF LockSend, Handed, SendClosed, Return, slotVars, TypeOK
  <2>2. t \notin asleep
    BY <1>9 DEF LockSend, Handed, SendClosed, Checks, Runs, Placed
  <2> QED BY <1>2, <2>1, <2>2
<1>10. ASSUME NEW t \in Senders, Offer(t)
       PROVE  WakeupsCoverSpace'
  <2>1. sendMutex = t /\ t \notin asleep /\ phase[t] = "send"
    BY <1>10 DEF Offer, Checks, Runs, Placed
  <2>2. asleep \cap Senders = {}
    BY <1>1, <2>1
  <2>3. asleep' \cap Senders \subseteq {t}
    BY <1>10, <2>2 DEF Offer, Signal, WakeOne
  <2>4. CASE slotFull'
    BY <1>10, <2>3, <2>4 DEF Offer, WakeupsCoverSpace, Msg, TypeOK
  <2>5. CASE ~slotFull'
    <3>1. asleep' \cap Senders = {}
      BY <1>10, <2>2, <2>5 DEF Offer, Signal, WakeOne
    <3> QED BY <3>1 DEF WakeupsCoverSpace
  <2> QED BY <2>4, <2>5
<1>11. ASSUME NEW t \in Receivers, Pick(t)
       PROVE  WakeupsCoverSpace'
  <2>1. Signal(Senders)
    BY <1>11 DEF Pick
  <2>2. asleep' \cap Senders = {}
    BY <1>1, <2>1 DEF Signal, WakeOne
  <2> QED BY <2>2 DEF WakeupsCoverSpace
<1>12. ASSUME NEW t \in Receivers, RecvClosed(t)
       PROVE  WakeupsCoverSpace'
  <2>1. asleep' \cap Senders \subseteq asleep /\ UNCHANGED <<slot, slotFull, calls>>
        /\ \A s \in asleep' \cap Senders : phase'[s] = phase[s]
    BY <1>12 DEF RecvClosed, Return, slotVars, TypeOK
  <2> QED BY <1>2, <2>1
<1>13. ASSUME NEW t \in Threads, Push(t) \/ Take(t)
       PROVE  FALSE
  BY <1>13 DEF Push, Take
<1> QED BY <1>3, <1>4, <1>5, <1>6, <1>7, <1>8, <1>9, <1>10, <1>11, <1>12, <1>13
        DEF Next, Done, Step, WaitStep, SendStep, RecvStep, CallSend, CallRecv

\* As long as a sender sleeps on a ring, at least as many senders as there are
\* free slots are awake; a sender sleeps on an unbuffered channel only while the
\* slot holds its own value.
THEOREM NoLostSenderWakeup == Spec => []WakeupsCoverSpace
<1> DEFINE I == Basic /\ ClosedIsAwake /\ WakeupsCoverSpace
<1>1. Init => I
  <2>1. Init => asleep = {}
    BY DEF Init
  <2> QED BY <2>1, InitBasic DEF ClosedIsAwake, WakeupsCoverSpace
<1>2. I /\ [Next]_vars => I'
  BY NextBasic, ClosedIsAwakeStep, BufferedSpaceStep, UnbufferedSpaceStep
<1>3. I => WakeupsCoverSpace
  OBVIOUS
<1> QED BY <1>1, <1>2, <1>3, PTL DEF Spec

(***************************************************************************)
(* The channel implements the bounded queue.                               *)
(***************************************************************************)
\* the contents as a sequence
ContentsOK ==
    /\ Contents \in Seq(Msgs)
    /\ Len(Contents) = Items
    /\ Buffered => \A i \in 1..len : Contents[i] = ring[At(i - 1)]
    /\ ~Buffered /\ slotFull => Contents = <<slot>>
    /\ ~Buffered /\ ~slotFull => Contents = <<>>

LEMMA ContentsIsSeq == Basic => ContentsOK
<1> SUFFICES ASSUME Basic PROVE ContentsOK
  OBVIOUS
<1>1. CASE Buffered
  <2>1. len \in Nat /\ head \in Nat
    BY DEF Basic, TypeOK
  <2>2. \A i \in 1..len : head + i - 1 = head + (i - 1) /\ i - 1 \in 0..(len - 1)
    BY <2>1
  <2>3. \A i \in 1..len : ring[(head + i - 1) % Capacity] = ring[At(i - 1)]
    BY <2>2 DEF At
  <2>4. \A i \in 1..len : ring[(head + i - 1) % Capacity] \in Msgs
    BY <1>1, <2>2, <2>3 DEF Basic, RingOK
  <2>5. Contents = [i \in 1..len |-> ring[(head + i - 1) % Capacity]]
    BY <1>1 DEF Contents
  <2>6. Contents \in Seq(Msgs) /\ Len(Contents) = len
    BY <2>1, <2>4, <2>5
  <2>7. \A i \in 1..len : Contents[i] = ring[At(i - 1)]
    BY <2>3, <2>5
  <2> QED BY <1>1, <2>6, <2>7 DEF Items, ContentsOK
<1>2. CASE ~Buffered /\ slotFull
  <2>1. slot \in Msgs
    BY <1>2 DEF Basic, TypeOK, Placed, SlotOK, Msg, Msgs, Threads
  <2> QED BY <1>2, <2>1 DEF Contents, Items, ContentsOK
<1>3. CASE ~Buffered /\ ~slotFull
  BY <1>3 DEF Contents, Items, ContentsOK
<1> QED BY <1>1, <1>2, <1>3

LEMMA ContentsIsSeqNext == Basic' => ContentsOK'
<1>1. Basic => ContentsOK
  BY ContentsIsSeq
<1> QED BY <1>1, PTL

\* a step that leaves the buffer and the history alone is a stutter
LEMMA ContentsFrame ==
    ASSUME UNCHANGED <<bufferVars, slotVars, got, closed>>
    PROVE  UNCHANGED Abstract!qvars
BY DEF bufferVars, slotVars, Contents, Abstract!qvars

LEMMA PushRefines ==
    ASSUME Basic, Basic', NEW t \in Senders, Push(t)
    PROVE  Abstract!Put(Msg(t))
<1>1. /\ Buffered /\ ~closed /\ len # Capacity
      /\ ring' = [ring EXCEPT ![tail] = Msg(t)]
      /\ len' = len + 1 /\ head' = head /\ got' = got /\ closed' = closed
  BY DEF Push, MustWait, Checks, Placed, Runs
<1>2. Capacity \in Nat \ {0} /\ head \in 0..(Capacity - 1) /\ len \in 0..(Capacity - 1)
  BY <1>1, ChannelAssumption DEF Basic, TypeOK, RingOK, Buffered
<1>3. Msg(t) \in Msgs
  BY DEF Push, Checks, Runs, Msg, Msgs, Basic, Placed, TypeOK, Threads
<1>4. tail = At(len) /\ tail \in 0..(Capacity - 1)
  <2>1. tail = At(len)
    BY <1>1 DEF Basic, RingOK
  <2>2. At(len) \in 0..(Capacity - 1)
    BY <1>2, ModShift, Zenon DEF At
  <2> QED BY <2>1, <2>2
<1>5. /\ Contents \in Seq(Msgs) /\ Len(Contents) = len
      /\ Contents' \in Seq(Msgs) /\ Len(Contents') = len + 1
  BY <1>1, ContentsIsSeq, ContentsIsSeqNext DEF Items, ContentsOK
<1>6. Append(Contents, Msg(t)) \in Seq(Msgs) /\ Len(Append(Contents, Msg(t))) = len + 1
  BY <1>3, <1>5
<1>7. ASSUME NEW i \in 1..(len + 1)
      PROVE  Contents'[i] = Append(Contents, Msg(t))[i]
  <2>1. At(i - 1)' = At(i - 1)
    BY <1>1 DEF At
  <2>2. Contents'[i] = ring'[At(i - 1)]
    BY <1>1, <2>1, ContentsIsSeqNext DEF ContentsOK
  <2>3. CASE i = len + 1
    <3>1. i - 1 = len
      BY <1>2, <2>3
    <3> QED BY <1>1, <1>3, <1>4, <1>5, <2>2, <2>3, <3>1 DEF Basic, TypeOK
  <2>4. CASE i # len + 1
    <3>1. i - 1 \in 0..(Capacity - 1) /\ i - 1 # len /\ i \in 1..len
      BY <1>2, <2>4
    <3>2. At(i - 1) # tail
      BY <1>2, <1>4, <3>1, ModDistinct, Zenon DEF At
    <3>3. At(i - 1) \in 0..(Capacity - 1)
      BY <1>2, <3>1, ModShift, Zenon DEF At
    <3>4. ring'[At(i - 1)] = ring[At(i - 1)]
      BY <1>1, <3>2, <3>3 DEF Basic, TypeOK
    <3>5. Contents[i] = ring[At(i - 1)]
      BY <1>1, <3>1, ContentsIsSeq DEF ContentsOK
    <3> QED BY <1>3, <1>5, <2>2, <3>1, <3>4, <3>5
  <2> QED BY <2>3, <2>4
<1>8. Contents' = Append(Contents, Msg(t))
  BY <1>5, <1>6, <1>7, SeqEqual
<1>9. Len(Contents) < Abstract!Bound
  BY <1>2, <1>5 DEF Abstract!Bound
<1> QED BY <1>1, <1>8, <1>9 DEF Abstract!Put

LEMMA TakeRefines ==
    ASSUME Basic, Basic', NEW t \in Receivers, Take(t)
    PROVE  Abstract!Take
<1>1. /\ Buffered /\ len > 0 /\ ring' = ring
      /\ head' = (head + 1) % Capacity
      /\ len' = len - 1 /\ got' = Append(got, ring[head]) /\ closed' = closed
  BY DEF Take
<1>2. Capacity \in Nat \ {0} /\ head \in 0..(Capacity - 1) /\ len \in 1..Capacity
  BY <1>1, ChannelAssumption DEF Basic, TypeOK, RingOK, Buffered
<1>3. /\ Contents \in Seq(Msgs) /\ Len(Contents) = len /\ Contents # <<>>
      /\ Contents' \in Seq(Msgs) /\ Len(Contents') = len - 1
  BY <1>1, <1>2, ContentsIsSeq, ContentsIsSeqNext DEF Items, ContentsOK
<1>4. Tail(Contents) \in Seq(Msgs) /\ Len(Tail(Contents)) = len - 1
  BY <1>2, <1>3
<1>5. ASSUME NEW i \in 1..(len - 1)
      PROVE  Contents'[i] = Tail(Contents)[i]
  <2>1. i - 1 \in 0..(Capacity - 1) /\ i + 1 \in 1..len /\ (i + 1) - 1 = i
        /\ head + (i - 1) + 1 = head + i
    BY <1>2
  <2>2. (head' + (i - 1)) % Capacity = (head + (i - 1) + 1) % Capacity
    BY <1>1, <1>2, <2>1, ModShift, Zenon
  <2>3. At(i - 1)' = At(i)
    BY <2>1, <2>2 DEF At
  <2>4. Contents'[i] = ring[At(i)]
    BY <1>1, <2>3, ContentsIsSeqNext DEF ContentsOK
  <2>5. Contents[i + 1] = ring[At(i)]
    BY <1>1, <2>1, ContentsIsSeq DEF ContentsOK
  <2>6. Tail(Contents)[i] = Contents[i + 1]
    BY <1>2, <1>3
  <2> QED BY <2>4, <2>5, <2>6
<1>6. Contents' = Tail(Contents)
  BY <1>3, <1>4, <1>5, SeqEqual
<1>7. Head(Contents) = ring[head]
  <2>1. head + 0 = head /\ head \in 0..(2 * Capacity - 1) /\ Wrap(head, Capacity) = head
    BY <1>2 DEF Wrap
  <2>2. At(0) = head
    BY <1>2, <2>1, ModWrap, Zenon DEF At
  <2>3. Contents[1] = ring[At(1 - 1)]
    BY <1>1, <1>2, ContentsIsSeq DEF ContentsOK
  <2> QED BY <1>2, <1>3, <2>2, <2>3
<1> QED BY <1>1, <1>3, <1>6, <1>7 DEF Abstract!Take

\* the hand-over: the slot is a queue of at most one value
LEMMA OfferRefines ==
    ASSUME Basic, Basic', NEW t \in Senders, Offer(t)
    PROVE  Abstract!Put(Msg(t)) \/ UNCHANGED Abstract!qvars
<1>1. /\ ~Buffered /\ ~closed /\ ~slotFull
      /\ slot' = Msg(t) /\ slotFull' \in BOOLEAN
      /\ got' = got /\ closed' = closed
  BY DEF Offer, Checks, Runs, MustWait
<1>2. Contents = <<>> /\ Capacity = 0
  BY <1>1, ContentsIsSeq, ChannelAssumption DEF Buffered, ContentsOK
<1>3. CASE slotFull'
  <2>1. Contents' = <<Msg(t)>>
    BY <1>1, <1>3 DEF Contents
  <2> QED BY <1>1, <1>2, <2>1 DEF Abstract!Put, Abstract!Bound
<1>4. CASE ~slotFull'
  <2>1. Contents' = <<>>
    BY <1>1, <1>4 DEF Contents
  <2> QED BY <1>1, <1>2, <2>1 DEF Abstract!qvars
<1> QED BY <1>1, <1>3, <1>4

LEMMA PickRefines ==
    ASSUME Basic, NEW t \in Receivers, Pick(t)
    PROVE  Abstract!Take
<1>1. ~Buffered /\ slotFull /\ slotFull' = FALSE /\ got' = Append(got, slot) /\ closed' = closed
  BY DEF Pick
<1>2. Contents = <<slot>> /\ Contents' = <<>>
  BY <1>1 DEF Contents
<1> QED BY <1>1, <1>2 DEF Abstract!Take

\* the sender that gives up takes its own value back, if it is still there
LEMMA TimeOutRefines ==
    ASSUME Basic, NEW t \in Threads, TimeOut(t)
    PROVE  Abstract!Withdraw \/ UNCHANGED Abstract!qvars
<1>1. UNCHANGED <<bufferVars, slot, closed, got>> /\ slotFull' = (slotFull /\ phase[t] # "handed")
  BY DEF TimeOut
<1>2. CASE slotFull' = slotFull
  BY <1>1, <1>2, ContentsFrame DEF slotVars
<1>3. CASE slotFull' # slotFull
  <2>1. slotFull /\ ~slotFull' /\ ~Buffered /\ Capacity = 0
    BY <1>1, <1>3, ChannelAssumption DEF Basic, TypeOK, SlotOK, Buffered
  <2>2. Contents = <<slot>> /\ Contents' = <<>>
    BY <2>1 DEF Contents
  <2> QED BY <1>1, <2>1, <2>2 DEF Abstract!Withdraw
<1> QED BY <1>2, <1>3

LEMMA CloseRefines ==
    ASSUME Basic, Close
    PROVE  Abstract!Close
<1>1. closed' = TRUE /\ slotFull' = FALSE /\ UNCHANGED bufferVars /\ got' = got
  BY DEF Close, historyVars
<1>2. CASE Buffered
  <2>1. Contents' = Contents
    BY <1>1, <1>2 DEF Contents, bufferVars
  <2> QED BY <1>1, <1>2, <2>1 DEF Abstract!Close, Buffered
<1>3. CASE ~Buffered
  <2>1. Contents' = <<>> /\ Capacity = 0
    BY <1>1, <1>3, ChannelAssumption DEF Contents, Buffered
  <2> QED BY <1>1, <2>1 DEF Abstract!Close
<1> QED BY <1>2, <1>3

LEMMA StepRefines ==
    ASSUME Basic, Basic', [Next]_vars
    PROVE  [Abstract!QNext]_(Abstract!qvars)
<1>1. ASSUME NEW t \in Threads,
             \/ Sleep(t) \/ PassDeadline(t) \/ Expire(t) \/ WakeSpuriously(t)
             \/ LockSend(t) \/ Handed(t) \/ SendClosed(t) \/ RecvClosed(t)
             \/ \E d \in BOOLEAN, start \in Phases : Call(t, d, start)
      PROVE  UNCHANGED Abstract!qvars
  BY <1>1, ContentsFrame DEF Sleep, PassDeadline, Expire, WakeSpuriously, LockSend, Handed,
     SendClosed, RecvClosed, Call, historyVars
<1>2. ASSUME NEW t \in Senders, Push(t) \/ Offer(t)
      PROVE  Abstract!QNext \/ UNCHANGED Abstract!qvars
  <2>1. Msg(t) \in Msgs
    BY <1>2 DEF Push, Offer, Checks, Runs, Msg, Msgs, Basic, Placed, TypeOK, Threads
  <2> QED BY <1>2, <2>1, PushRefines, OfferRefines DEF Abstract!QNext
<1>3. ASSUME NEW t \in Receivers, Take(t) \/ Pick(t)
      PROVE  Abstract!QNext
  BY <1>3, TakeRefines, PickRefines DEF Abstract!QNext
<1>4. ASSUME NEW t \in Threads, TimeOut(t)
      PROVE  Abstract!QNext \/ UNCHANGED Abstract!qvars
  BY <1>4, TimeOutRefines DEF Abstract!QNext
<1>5. CASE Close
  BY <1>5, CloseRefines DEF Abstract!QNext
<1>6. CASE UNCHANGED vars
  BY <1>6, ContentsFrame DEF vars, historyVars
<1>7. ASSUME NEW t \in Threads, CallSend(t) \/ CallRecv(t)
      PROVE  UNCHANGED Abstract!qvars
  BY <1>1, <1>7 DEF CallSend, CallRecv, Phases
<1> QED BY <1>1, <1>2, <1>3, <1>4, <1>5, <1>6, <1>7
        DEF Next, Done, Step, WaitStep, SendStep, RecvStep, Threads

\* For every capacity, buffered or not, and any number of threads the channel
\* is a bounded first-in first-out queue: received once and in the order sent,
\* nothing lost but what a closed or timed-out unbuffered send takes back.
THEOREM ChannelIsQueue == Spec => ImplementsQueue
<1>1. Init => Abstract!QInit
  <2> SUFFICES ASSUME Init PROVE Abstract!QInit
    OBVIOUS
  <2>1. Basic
    BY InitBasic
  <2>2. Len(Contents) = 0 /\ Contents \in Seq(Msgs)
    BY <2>1, ContentsIsSeq DEF Init, Items, ContentsOK
  <2>3. Contents = <<>>
    BY <2>2
  <2> QED BY <2>3 DEF Init, Abstract!QInit
<1>2. Init => Basic
  BY InitBasic
<1>3. Basic /\ [Next]_vars => Basic'
  BY NextBasic
<1>4. Basic /\ Basic' /\ [Next]_vars => [Abstract!QNext]_(Abstract!qvars)
  BY StepRefines
<1> QED BY <1>1, <1>2, <1>3, <1>4, PTL DEF Spec, ImplementsQueue, Abstract!QSpec

(***************************************************************************)
(* What a send reported as delivered has been received or is in the ring.  *)
(***************************************************************************)
Among(q, m) == \E i \in DOMAIN q : q[i] = m
Safe(m)     == Among(got, m) \/ (Buffered /\ Among(Contents, m))

\* an unbuffered sender that waits and finds the slot empty has been received
HandedOver == \A s \in Senders : phase[s] = "handed" /\ ~closed /\ ~slotFull => Among(got, Msg(s))

\* Nothing goes missing from a sequence when something is put behind it, and
\* only the first when the rest is kept.
LEMMA AmongAppend ==
    ASSUME NEW S, NEW q \in Seq(S), NEW x \in S, NEW m
    PROVE  /\ Among(q, m) => Among(Append(q, x), m)
           /\ Among(Append(q, x), x)
<1>1. /\ Len(q) \in Nat /\ DOMAIN q = 1..Len(q) /\ DOMAIN Append(q, x) = 1..(Len(q) + 1)
      /\ Append(q, x)[Len(q) + 1] = x
      /\ \A i \in 1..Len(q) : Append(q, x)[i] = q[i]
  OBVIOUS
<1>2. Len(q) + 1 \in DOMAIN Append(q, x) /\ \A i \in DOMAIN q : i \in DOMAIN Append(q, x)
  BY <1>1
<1> QED BY <1>1, <1>2 DEF Among

LEMMA AmongTail ==
    ASSUME NEW S, NEW q \in Seq(S), q # <<>>, NEW m, Among(q, m), m # Head(q)
    PROVE  Among(Tail(q), m)
<1>1. PICK i \in DOMAIN q : q[i] = m
  BY DEF Among
<1>2. Len(q) \in Nat /\ DOMAIN q = 1..Len(q) /\ Head(q) = q[1] /\ i # 1
  BY <1>1
<1>3. i - 1 \in 1..(Len(q) - 1) /\ (i - 1) + 1 = i
  BY <1>2
<1>4. DOMAIN Tail(q) = 1..(Len(q) - 1) /\ \A j \in 1..(Len(q) - 1) : Tail(q)[j] = q[j + 1]
  OBVIOUS
<1> QED BY <1>1, <1>3, <1>4 DEF Among

\* The queue keeps its promise: a step takes a value out of the buffer only to
\* deliver it.
LEMMA SafeStep ==
    ASSUME Basic, Basic', [Next]_vars, NEW m, Safe(m)
    PROVE  Safe(m)'
<1>0. /\ Contents \in Seq(Msgs) /\ got \in Seq(Msgs)
      /\ Contents' \in Seq(Msgs) /\ got' \in Seq(Msgs) /\ Buffered' = Buffered
  BY ContentsIsSeq, ContentsIsSeqNext DEF ContentsOK, Basic, TypeOK, Buffered
<1>1. [Abstract!QNext]_(Abstract!qvars)
  BY StepRefines
<1>2. CASE UNCHANGED Abstract!qvars
  BY <1>0, <1>2 DEF Abstract!qvars, Safe
<1>3. ASSUME NEW x \in Msgs, Abstract!Put(x)
      PROVE  Safe(m)'
  <2>1. Contents' = Append(Contents, x) /\ got' = got
    BY <1>3 DEF Abstract!Put
  <2>2. Among(Contents, m) => Among(Append(Contents, x), m)
    BY <1>0, AmongAppend
  <2>3. Among(Contents, m) => Among(Contents, m)'
    BY <2>1, <2>2 DEF Among
  <2>4. Among(got, m)' <=> Among(got, m)
    BY <2>1 DEF Among
  <2> QED BY <1>0, <2>3, <2>4 DEF Safe
<1>4. CASE Abstract!Take
  <2>1. Contents # <<>> /\ got' = Append(got, Head(Contents)) /\ Contents' = Tail(Contents)
    BY <1>4 DEF Abstract!Take
  <2>2. Head(Contents) \in Msgs
    BY <1>0, <2>1
  <2>3. /\ Among(got, m) => Among(Append(got, Head(Contents)), m)
        /\ Among(Append(got, Head(Contents)), Head(Contents))
    BY <1>0, <2>2, AmongAppend
  <2>4. /\ Among(got, m) => Among(got, m)'
        /\ m = Head(Contents) => Among(got, m)'
    BY <2>1, <2>3 DEF Among
  <2>5. ASSUME Among(Contents, m), m # Head(Contents)
        PROVE  Among(Contents, m)'
    <3>1. Among(Tail(Contents), m)
      BY <1>0, <2>1, <2>5, AmongTail
    <3> QED BY <2>1, <3>1 DEF Among
  <2> QED BY <1>0, <2>4, <2>5 DEF Safe
<1>5. CASE Abstract!Withdraw \/ Abstract!Close
  <2>1. got' = got /\ (Buffered => Contents' = Contents)
    BY <1>5, ChannelAssumption DEF Abstract!Withdraw, Abstract!Close, Buffered
  <2> QED BY <1>0, <2>1 DEF Safe, Among
<1> QED BY <1>1, <1>2, <1>3, <1>4, <1>5 DEF Abstract!QNext

\* Nobody forgets what has been received.
LEMMA GotGrows ==
    ASSUME Basic, Basic', [Next]_vars, NEW m, Among(got, m)
    PROVE  Among(got, m)'
<1>0. Contents \in Seq(Msgs) /\ got \in Seq(Msgs)
  BY ContentsIsSeq DEF ContentsOK, Basic, TypeOK
<1>1. [Abstract!QNext]_(Abstract!qvars)
  BY StepRefines
<1>2. CASE got' = got
  BY <1>2 DEF Among
<1>3. CASE Abstract!Take
  <2>1. Contents # <<>> /\ got' = Append(got, Head(Contents))
    BY <1>3 DEF Abstract!Take
  <2>2. Head(Contents) \in Msgs
    BY <1>0, <2>1
  <2>3. Among(Append(got, Head(Contents)), m)
    BY <1>0, <2>2, AmongAppend
  <2> QED BY <2>1, <2>3 DEF Among
<1>4. got' = got \/ Abstract!Take
  BY <1>1 DEF Abstract!QNext, Abstract!qvars, Abstract!Put, Abstract!Withdraw, Abstract!Close
<1> QED BY <1>2, <1>3, <1>4

LEMMA HandedOverStep ==
    ASSUME Basic, Basic', HandedOver, [Next]_vars
    PROVE  HandedOver'
<1> SUFFICES ASSUME NEW s \in Senders, phase'[s] = "handed", ~closed', ~slotFull'
             PROVE  Among(got, Msg(s))'
  BY DEF HandedOver
<1> USE ChannelAssumption DEF Basic
<1>0. phase \in [Threads -> Phases] /\ calls \in [Threads -> 0..MaxCalls] /\ s \in Threads
  BY DEF TypeOK, Threads
\* most steps leave this sender's call and the slot alone
<1>1. ASSUME phase[s] = "handed", ~closed, ~slotFull, calls'[s] = calls[s]
      PROVE  Among(got, Msg(s))'
  <2>1. Among(got, Msg(s))
    BY <1>1 DEF HandedOver
  <2>2. PICK m : m = Msg(s)
    OBVIOUS
  <2>3. Among(got, m)'
    BY <2>1, <2>2, GotGrows
  <2>4. Msg(s)' = m
    BY <1>1, <2>2 DEF Msg
  <2> QED BY <2>3, <2>4 DEF Among
<1>2. ASSUME NEW t \in Threads,
             \/ Sleep(t) \/ PassDeadline(t) \/ Expire(t) \/ WakeSpuriously(t)
             \/ Handed(t) \/ SendClosed(t) \/ Take(t) \/ RecvClosed(t) \/ LockSend(t) \/ Push(t)
      PROVE  Among(got, Msg(s))'
  <2>1. slotFull' = slotFull /\ closed' = closed /\ calls' = calls
    BY <1>2 DEF Sleep, PassDeadline, Expire, WakeSpuriously, Handed, SendClosed, Take, RecvClosed, LockSend, Push, slotVars
  <2>2. phase' = phase \/ \E l \in {"idle", "send"} : phase' = [phase EXCEPT ![t] = l]
    BY <1>2 DEF Sleep, PassDeadline, Expire, WakeSpuriously, Handed, SendClosed, Take, RecvClosed, LockSend, Push,
       Return, Resume
  <2>3. phase[s] = "handed"
    BY <1>0, <2>2
  <2> QED BY <1>1, <2>1, <2>3
<1>3. ASSUME NEW t \in Threads, NEW d, NEW start \in {"send", "lock", "recv"}, Call(t, d, start)
      PROVE  Among(got, Msg(s))'
  <2>1. /\ slotFull' = slotFull /\ closed' = closed /\ phase[t] = "idle"
        /\ calls' = [calls EXCEPT ![t] = @ + 1] /\ phase' = [phase EXCEPT ![t] = start]
    BY <1>3 DEF Call, slotVars
  <2>2. s # t
    BY <1>0, <2>1
  <2> QED BY <1>0, <1>1, <2>1, <2>2
<1>4. ASSUME NEW t \in Senders, Offer(t)
      PROVE  Among(got, Msg(s))'
  <2>1. ~Buffered /\ phase[t] = "send" /\ phase' = [phase EXCEPT ![t] = "idle"]
    BY <1>4 DEF Offer, Checks, Return
  <2>2. s # t /\ phase[s] = "handed"
    BY <1>0, <2>1
  <2>3. sendMutex = s /\ sendMutex = t
    BY <1>0, <2>1, <2>2 DEF Placed, Threads
  <2> QED BY <2>2, <2>3
<1>5. ASSUME NEW t \in Threads, TimeOut(t)
      PROVE  Among(got, Msg(s))'
  <2>1. /\ slotFull' = (slotFull /\ phase[t] # "handed") /\ phase' = [phase EXCEPT ![t] = "idle"]
        /\ closed' = closed /\ calls' = calls
    BY <1>5 DEF TimeOut, Return
  <2>2. s # t /\ phase[s] = "handed"
    BY <1>0, <2>1
  <2>3. phase[t] # "handed"
    <3>1. ~Buffered
      BY <1>0, <2>2 DEF Placed
    <3> QED BY <1>0, <2>2, <3>1 DEF Placed
  <2>4. ~slotFull
    BY <2>1, <2>3
  <2> QED BY <1>1, <2>1, <2>2, <2>4
<1>6. ASSUME NEW t \in Receivers, Pick(t)
      PROVE  Among(got, Msg(s))'
  <2>1. /\ ~Buffered /\ slotFull /\ phase[t] = "recv" /\ phase' = [phase EXCEPT ![t] = "idle"]
        /\ got' = Append(got, slot) /\ calls' = calls
    BY <1>6 DEF Pick, Return, Checks
  <2>2. s # t /\ phase[s] = "handed"
    BY <1>0, <2>1
  <2>3. sendMutex = s /\ slot = Msg(s)
    BY <1>0, <2>1, <2>2 DEF Placed, SlotOK
  <2>4. Msg(s) \in Msgs
    BY <1>0, <2>2 DEF Placed, Msg, Msgs
  <2>5. Among(Append(got, slot), slot)
    BY <2>3, <2>4, AmongAppend DEF TypeOK
  <2>6. Msg(s)' = slot
    BY <2>1, <2>3 DEF Msg
  <2> QED BY <2>1, <2>5, <2>6 DEF Among
<1>7. CASE Close
  BY <1>7 DEF Close
<1>8. CASE UNCHANGED vars
  BY <1>1, <1>8 DEF vars, slotVars
<1>9. ASSUME NEW t \in Threads, CallSend(t) \/ CallRecv(t)
      PROVE  Among(got, Msg(s))'
  BY <1>3, <1>9 DEF CallSend, CallRecv
<1> QED BY <1>2, <1>4, <1>5, <1>6, <1>7, <1>8, <1>9
        DEF Next, Done, Step, WaitStep, SendStep, RecvStep, Threads

\* A send is acknowledged when its value enters the ring, or when it has been
\* handed over.
LEMMA AckedStep ==
    ASSUME Basic, Basic', HandedOver, [Next]_vars, NEW m \in acked', m \notin acked
    PROVE  Safe(m)'
<1>1. PICK t \in Senders : (Push(t) \/ Handed(t)) /\ m = Msg(t)
  <2>1. ASSUME ~\E t \in Senders : Push(t) \/ Handed(t)
        PROVE  acked' = acked
    BY <2>1 DEF Next, Done, vars, historyVars, Step, WaitStep, SendStep, RecvStep, Sleep, TimeOut, LockSend, Offer,
       SendClosed, Take, Pick, RecvClosed, PassDeadline, Expire, WakeSpuriously, CallSend, CallRecv, Call, Close
  <2>2. PICK t \in Senders : Push(t) \/ Handed(t)
    BY <2>1
  <2>3. acked' = acked \cup {Msg(t)}
    BY <2>2 DEF Push, Handed
  <2> QED BY <2>2, <2>3
<1>2. /\ Contents \in Seq(Msgs) /\ got \in Seq(Msgs) /\ Buffered' = Buffered
  BY ContentsIsSeq DEF ContentsOK, Basic, TypeOK, Buffered
<1>3. CASE Push(t)
  <2>1. Contents' = Append(Contents, m) /\ Buffered
    BY <1>1, <1>3, PushRefines DEF Abstract!Put, Push
  <2>2. m \in Msgs
    BY <1>1, <1>3 DEF Push, Checks, Runs, Msg, Msgs, Basic, Placed, TypeOK, Threads
  <2>3. Among(Append(Contents, m), m)
    BY <1>2, <2>2, AmongAppend
  <2> QED BY <1>2, <2>1, <2>3 DEF Safe, Among
<1>4. CASE Handed(t)
  <2>1. phase[t] = "handed" /\ ~closed /\ ~slotFull /\ got' = got
    BY <1>4 DEF Handed, Checks, MustWait
  <2>2. Among(got, m)
    BY <1>1, <2>1 DEF HandedOver
  <2> QED BY <2>1, <2>2 DEF Safe, Among
<1> QED BY <1>1, <1>3, <1>4

\* A send that returned ok was received; a buffered one was received or is in
\* the ring, after close, too.
THEOREM AckedStays == Spec => []AckedIsDelivered
<1> DEFINE Inv == Basic /\ HandedOver /\ AckedIsDelivered
<1>1. Init => Inv
  <2> SUFFICES ASSUME Init PROVE Inv
    OBVIOUS
  <2>1. Basic
    BY InitBasic
  <2>2. HandedOver
    BY DEF Init, HandedOver, Threads
  <2>3. AckedIsDelivered
    BY DEF Init, AckedIsDelivered
  <2> QED BY <2>1, <2>2, <2>3
<1>2. Inv /\ [Next]_vars => Inv'
  <2> SUFFICES ASSUME Inv, [Next]_vars PROVE Inv'
    OBVIOUS
  <2>1. Basic'
    BY NextBasic
  <2>2. HandedOver'
    BY <2>1, HandedOverStep
  <2>3. ASSUME NEW m \in acked' PROVE Safe(m)'
    <3>1. CASE m \in acked
      <4>1. Safe(m)
        BY <3>1 DEF AckedIsDelivered, Safe, Among
      <4> QED BY <2>1, <4>1, SafeStep
    <3>2. CASE m \notin acked
      BY <2>1, <2>3, <3>2, AckedStep
    <3> QED BY <3>1, <3>2
  <2>4. AckedIsDelivered'
    BY <2>3 DEF AckedIsDelivered, Safe, Among
  <2> QED BY <2>1, <2>2, <2>4
<1>3. Inv => AckedIsDelivered
  OBVIOUS
<1> QED BY <1>1, <1>2, <1>3, PTL DEF Spec
=============================================================================
