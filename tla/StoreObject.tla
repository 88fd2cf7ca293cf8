------------------------------ MODULE StoreObject ------------------------------
(* A state of the application's store, embed/lib/zux/store/Object.zig: set      *)
(* changes the running copy, tick publishes it as the released copy and tells   *)
(* the subscribers, outside the locks and one tick at a time.                   *)
EXTENDS Naturals, FiniteSets, TLAPS

CONSTANTS Values,       \* of the state
          Tickers,      \* tasks that tick
          Subscribers,
          MaxTicks      \* bound: ticks in a behaviour

VARIABLES obj,     \* running, released, subscribers, notifying, the number of ticks
          ticker,  \* where each tick is, and whom it still has to tell
          saw,     \* what each subscriber read when it was last told
          missed   \* subscribers a skipped notification was for
vars == <<obj, ticker, saw, missed>>

Idle == [pc |-> "idle", left |-> {}]

StoreTypeOK ==
    /\ obj.running \in Values /\ obj.released \in Values
    /\ obj.subscribers \subseteq Subscribers /\ obj.notifying \in BOOLEAN /\ obj.ticks \in 0..MaxTicks
    /\ ticker \in [Tickers -> [pc : {"idle", "publishes", "tells", "notifies"}, left : SUBSET Subscribers]]
    /\ saw \in [Subscribers -> Values] /\ missed \subseteq Subscribers

Init ==
    /\ \E v \in Values :
         /\ obj = [running |-> v, released |-> v, subscribers |-> {}, notifying |-> FALSE, ticks |-> 0]
         /\ saw = [s \in Subscribers |-> v]
    /\ ticker = [t \in Tickers |-> Idle] /\ missed = {}

\* set, invoke and patch
Set == \E v \in Values : obj' = [obj EXCEPT !.running = v] /\ UNCHANGED <<ticker, saw, missed>>

----------------------------------------------------------------------------
(* subscribe and unsubscribe panic during a notification: their callers have   *)
(* to know that there is none. A new subscriber has read the state itself.      *)
Subscribe(s) ==
    /\ ~obj.notifying /\ obj' = [obj EXCEPT !.subscribers = @ \cup {s}]
    /\ saw' = IF s \in obj.subscribers THEN saw ELSE [saw EXCEPT ![s] = obj.released]
    /\ UNCHANGED <<ticker, missed>>

Unsubscribe(s) ==
    /\ ~obj.notifying /\ s \in obj.subscribers
    /\ obj' = [obj EXCEPT !.subscribers = @ \ {s}] /\ missed' = missed \ {s} /\ UNCHANGED <<ticker, saw>>

----------------------------------------------------------------------------
(* tick.                                                                    *)
Goes(t, pc) == ticker' = [ticker EXCEPT ![t].pc = pc]

\* the number is taken before the locks
Count(t) ==
    /\ ticker[t].pc = "idle" /\ obj.ticks < MaxTicks
    /\ obj' = [obj EXCEPT !.ticks = @ + 1] /\ Goes(t, "publishes") /\ UNCHANGED <<saw, missed>>

\* both copies are locked; nothing changed, nothing is told
Publish(t) ==
    /\ ticker[t].pc = "publishes" /\ UNCHANGED <<saw, missed>>
    /\ obj' = [obj EXCEPT !.released = obj.running]
    /\ Goes(t, IF obj.released = obj.running THEN "idle" ELSE "tells")

\* mutant: the flag is not looked at
BeginAnyway(t) ==
    /\ ticker[t].pc = "tells" /\ UNCHANGED <<saw, missed>>
    /\ obj' = [obj EXCEPT !.notifying = TRUE]
    /\ ticker' = [ticker EXCEPT ![t] = [pc |-> "notifies", left |-> obj.subscribers]]

\* mutant: at most one subscriber is told
BeginFew(t) ==
    /\ ticker[t].pc = "tells" /\ ~obj.notifying /\ UNCHANGED <<saw, missed>>
    /\ obj' = [obj EXCEPT !.notifying = TRUE]
    /\ \E few \in SUBSET obj.subscribers :
         /\ Cardinality(few) <= 1 /\ ticker' = [ticker EXCEPT ![t] = [pc |-> "notifies", left |-> few]]

\* a notification under way is not joined: what was just published is not told
Begin(t) ==
    /\ ticker[t].pc = "tells" /\ UNCHANGED saw
    /\ \/ /\ ~obj.notifying /\ obj' = [obj EXCEPT !.notifying = TRUE] /\ UNCHANGED missed
          /\ ticker' = [ticker EXCEPT ![t] = [pc |-> "notifies", left |-> obj.subscribers]]
       \/ /\ obj.notifying /\ missed' = missed \cup obj.subscribers
          /\ Goes(t, "idle") /\ UNCHANGED obj

\* the subscriber reads the released copy in its callback; the list is not
\* copied, the flag keeps it as it is
Notify(t, s) ==
    /\ ticker[t].pc = "notifies" /\ s \in ticker[t].left /\ UNCHANGED obj
    /\ ticker' = [ticker EXCEPT ![t].left = @ \ {s}]
    /\ saw' = [saw EXCEPT ![s] = obj.released] /\ missed' = missed \ {s}

\* mutant: a notification of nobody leaves the flag
EndLeaving(t) ==
    /\ ticker[t].pc = "notifies" /\ ticker[t].left = {} /\ UNCHANGED <<saw, missed>>
    /\ obj' = [obj EXCEPT !.notifying = obj.subscribers = {}] /\ ticker' = [ticker EXCEPT ![t] = Idle]

End(t) ==
    /\ ticker[t].pc = "notifies" /\ ticker[t].left = {} /\ UNCHANGED <<saw, missed>>
    /\ obj' = [obj EXCEPT !.notifying = FALSE] /\ ticker' = [ticker EXCEPT ![t] = Idle]

Next == \/ Set
        \/ \E s \in Subscribers : Subscribe(s) \/ Unsubscribe(s)
        \/ \E t \in Tickers : Count(t) \/ Publish(t) \/ Begin(t) \/ End(t)
                              \/ \E s \in Subscribers : Notify(t, s)

Spec == Init /\ [][Next]_vars

----------------------------------------------------------------------------
\* The flag says that a notification is under way, and there is one at most; whom
\* it still has to tell is subscribed, though the list is not copied.
OneNotification ==
    /\ obj.notifying <=> \E t \in Tickers : ticker[t].pc = "notifies"
    /\ \A t, u \in Tickers : ticker[t].pc = "notifies" /\ ticker[u].pc = "notifies" => t = u
    /\ \A t \in Tickers : ticker[t].left \subseteq obj.subscribers

\* A subscriber has seen the released state, or a tick under way will tell it, or
\* a tick found a notification running and skipped its own (line 115), and the
\* subscriber has not been told since.
SubscribersCurrent ==
    \A s \in obj.subscribers :
        \/ saw[s] = obj.released \/ s \in missed
        \/ \E t \in Tickers : ticker[t].pc = "tells" \/ s \in ticker[t].left

----------------------------------------------------------------------------
(* The theorems, for every set of values, of subscribers and of tasks that tick. *)
TickerPcs == {"idle", "publishes", "tells", "notifies"}

StoreTypes ==
    /\ obj \in [running : Values, released : Values, subscribers : SUBSET Subscribers,
                notifying : BOOLEAN, ticks : Nat]
    /\ ticker \in [Tickers -> [pc : TickerPcs, left : SUBSET Subscribers]]
    /\ saw \in [Subscribers -> Values] /\ missed \in SUBSET Subscribers

\* Only a notification has somebody left to tell.
LeftIsNotified == \A t \in Tickers : ticker[t].pc # "notifies" => ticker[t].left = {}

StoreInv == StoreTypes /\ LeftIsNotified /\ OneNotification /\ SubscribersCurrent

LEMMA StoreInit == Init => StoreInv
BY DEF Init, Idle, StoreInv, StoreTypes, TickerPcs, LeftIsNotified, OneNotification, SubscribersCurrent

LEMMA SetStep == ASSUME StoreInv, Set PROVE StoreInv'
BY DEF Set, StoreInv, StoreTypes, LeftIsNotified, OneNotification, SubscribersCurrent

LEMMA SubscribeStep == ASSUME StoreInv, NEW s \in Subscribers, Subscribe(s) PROVE StoreInv'
<1> USE DEF StoreInv, StoreTypes
<1>1. StoreTypes'
  BY DEF Subscribe
<1>2. LeftIsNotified' /\ OneNotification'
  BY DEF Subscribe, LeftIsNotified, OneNotification
<1>3. SubscribersCurrent'
  BY DEF Subscribe, SubscribersCurrent
<1> QED BY <1>1, <1>2, <1>3

\* Nobody notifies, so that nobody is left to tell.
LEMMA UnsubscribeStep == ASSUME StoreInv, NEW s \in Subscribers, Unsubscribe(s) PROVE StoreInv'
<1> USE DEF StoreInv, StoreTypes
<1>1. StoreTypes'
  BY DEF Unsubscribe
<1>2. \A t \in Tickers : ticker[t].left = {}
  BY DEF Unsubscribe, OneNotification, LeftIsNotified
<1>3. LeftIsNotified' /\ OneNotification'
  BY <1>2 DEF Unsubscribe, LeftIsNotified, OneNotification
<1>4. SubscribersCurrent'
  BY DEF Unsubscribe, SubscribersCurrent
<1> QED BY <1>1, <1>3, <1>4

LEMMA CountStep == ASSUME StoreInv, NEW t \in Tickers, Count(t) PROVE StoreInv'
<1> USE DEF StoreInv, StoreTypes, TickerPcs
<1>1. StoreTypes'
  BY DEF Count, Goes
<1>2. /\ ticker'[t].pc = "publishes" /\ ticker'[t].left = ticker[t].left
      /\ \A u \in Tickers \ {t} : ticker'[u] = ticker[u]
      /\ ticker[t].pc = "idle"
      /\ obj'.notifying = obj.notifying /\ obj'.released = obj.released
      /\ obj'.subscribers = obj.subscribers /\ saw' = saw /\ missed' = missed
  BY DEF Count, Goes
<1>3. LeftIsNotified' /\ OneNotification'
  BY <1>2 DEF LeftIsNotified, OneNotification
<1>4. SubscribersCurrent'
  BY <1>2 DEF SubscribersCurrent
<1> QED BY <1>1, <1>3, <1>4

\* What changes is told by the tick that published it.
LEMMA PublishStep == ASSUME StoreInv, NEW t \in Tickers, Publish(t) PROVE StoreInv'
<1> USE DEF StoreInv, StoreTypes, TickerPcs
<1>1. StoreTypes'
  BY DEF Publish, Goes
<1>2. /\ ticker'[t].pc = (IF obj.released = obj.running THEN "idle" ELSE "tells")
      /\ ticker'[t].left = ticker[t].left
      /\ \A u \in Tickers \ {t} : ticker'[u] = ticker[u]
      /\ ticker[t].pc = "publishes"
      /\ obj'.notifying = obj.notifying /\ obj'.released = obj.running
      /\ obj'.subscribers = obj.subscribers /\ saw' = saw /\ missed' = missed
  BY DEF Publish, Goes
<1>3. LeftIsNotified' /\ OneNotification'
  <2>1. \A u \in Tickers : /\ ticker'[u].left = ticker[u].left
                             /\ ticker'[u].pc = "notifies" <=> ticker[u].pc = "notifies"
    BY ONLY <1>2
  <2>2. LeftIsNotified /\ OneNotification
    OBVIOUS
  <2> QED BY ONLY <1>2, <2>1, <2>2 DEF LeftIsNotified, OneNotification
<1>4. CASE obj.released = obj.running
  <2>1. \A u \in Tickers : /\ ticker[u].pc = "tells" => ticker'[u].pc = "tells"
                           /\ ticker'[u].left = ticker[u].left
    BY <1>2
  <2>2. obj'.released = obj.released
    BY <1>2, <1>4
  <2>3. SubscribersCurrent'
    BY <1>2, <2>1, <2>2, Zenon DEF SubscribersCurrent
  <2> QED BY <1>1, <1>3, <2>3
<1>5. CASE obj.released # obj.running
  <2>1. ticker'[t].pc = "tells"
    BY <1>2, <1>5
  <2>2. SubscribersCurrent'
    BY <2>1 DEF SubscribersCurrent
  <2> QED BY <1>1, <1>3, <2>2
<1> QED BY <1>1, <1>3, <1>4, <1>5

LEMMA BeginStep == ASSUME StoreInv, NEW t \in Tickers, Begin(t) PROVE StoreInv'
<1> USE DEF StoreInv, StoreTypes, TickerPcs
<1>1. ticker[t].pc = "tells" /\ saw' = saw
  BY DEF Begin
<1>2. CASE /\ ~obj.notifying /\ obj' = [obj EXCEPT !.notifying = TRUE] /\ UNCHANGED missed
           /\ ticker' = [ticker EXCEPT ![t] = [pc |-> "notifies", left |-> obj.subscribers]]
  <2>1. /\ ticker'[t].pc = "notifies" /\ ticker'[t].left = obj.subscribers
        /\ \A u \in Tickers \ {t} : ticker'[u] = ticker[u] /\ ticker[u].pc # "notifies"
        /\ obj'.notifying /\ obj'.released = obj.released /\ obj'.subscribers = obj.subscribers
    BY <1>2 DEF OneNotification
  <2>2. StoreTypes'
    BY <1>1, <1>2
  <2>3. LeftIsNotified' /\ OneNotification'
    BY <2>1 DEF LeftIsNotified, OneNotification
  <2>4. SubscribersCurrent'
    BY <1>1, <1>2, <2>1 DEF SubscribersCurrent
  <2> QED BY <2>2, <2>3, <2>4
<1>3. CASE /\ obj.notifying /\ missed' = missed \cup obj.subscribers
           /\ Goes(t, "idle") /\ UNCHANGED obj
  <2>1. /\ ticker'[t].pc = "idle" /\ ticker'[t].left = ticker[t].left
        /\ \A u \in Tickers \ {t} : ticker'[u] = ticker[u]
    BY <1>3 DEF Goes
  <2>2. StoreTypes'
    BY <1>1, <1>3 DEF Goes
  <2>3. LeftIsNotified' /\ OneNotification'
    BY <1>1, <1>3, <2>1 DEF LeftIsNotified, OneNotification
  <2>4. SubscribersCurrent'
    BY <1>3 DEF SubscribersCurrent
  <2> QED BY <2>2, <2>3, <2>4
<1> QED BY <1>2, <1>3 DEF Begin

LEMMA NotifyStep ==
    ASSUME StoreInv, NEW t \in Tickers, NEW s \in Subscribers, Notify(t, s) PROVE StoreInv'
<1> USE DEF StoreInv, StoreTypes, TickerPcs
<1>1. StoreTypes'
  BY DEF Notify
<1>2. /\ ticker[t].pc = "notifies" /\ ticker'[t].pc = "notifies" /\ ticker'[t].left = ticker[t].left \ {s}
      /\ \A u \in Tickers \ {t} : ticker'[u] = ticker[u]
      /\ obj' = obj /\ saw'[s] = obj.released /\ missed' = missed \ {s}
      /\ \A r \in Subscribers \ {s} : saw'[r] = saw[r]
  BY DEF Notify
<1>3. LeftIsNotified' /\ OneNotification'
  BY <1>2 DEF LeftIsNotified, OneNotification
<1>4. SubscribersCurrent'
  <2>1. ASSUME NEW r \in obj.subscribers, r # s
        PROVE  \/ saw'[r] = obj.released \/ r \in missed'
               \/ \E u \in Tickers : ticker'[u].pc = "tells" \/ r \in ticker'[u].left
    BY <1>2, <2>1 DEF SubscribersCurrent
  <2> QED BY <1>2, <2>1 DEF SubscribersCurrent
<1> QED BY <1>1, <1>3, <1>4

LEMMA EndStep == ASSUME StoreInv, NEW t \in Tickers, End(t) PROVE StoreInv'
<1> USE DEF StoreInv, StoreTypes, TickerPcs
<1>1. StoreTypes'
  BY DEF End, Idle
<1>2. /\ ticker[t].pc = "notifies" /\ ticker[t].left = {} /\ ticker'[t].pc = "idle" /\ ticker'[t].left = {}
      /\ \A u \in Tickers \ {t} : ticker'[u] = ticker[u]
      /\ obj'.notifying = FALSE /\ obj'.released = obj.released /\ obj'.subscribers = obj.subscribers
      /\ saw' = saw /\ missed' = missed
  BY DEF End, Idle
<1>3. LeftIsNotified' /\ OneNotification'
  BY <1>2 DEF LeftIsNotified, OneNotification
<1>4. SubscribersCurrent'
  BY <1>2 DEF SubscribersCurrent
<1> QED BY <1>1, <1>3, <1>4

LEMMA StoreStep == ASSUME StoreInv, [Next]_vars PROVE StoreInv'
<1>1. CASE UNCHANGED vars
  BY <1>1 DEF vars, StoreInv, StoreTypes, LeftIsNotified, OneNotification, SubscribersCurrent
<1> QED BY <1>1, SetStep, SubscribeStep, UnsubscribeStep, CountStep, PublishStep, BeginStep, NotifyStep,
           EndStep DEF Next

LEMMA StoreInvariant == Spec => []StoreInv
<1>1. StoreInv /\ [Next]_vars => StoreInv'
  BY StoreStep
<1> QED BY <1>1, StoreInit, PTL DEF Spec

\* However many tasks tick, one of them notifies at a time, the flag says so, and
\* whom it still has to tell cannot have unsubscribed (tick, unsubscribe).
THEOREM StoreOneNotification == Spec => []OneNotification
BY StoreInvariant, PTL DEF StoreInv

\* A subscriber has seen the released state, is about to be told, or is one of
\* those a skipped notification left out (tick, line 115): nothing else is missed.
THEOREM StoreSubscribersCurrent == Spec => []SubscribersCurrent
BY StoreInvariant, PTL DEF StoreInv
=============================================================================
