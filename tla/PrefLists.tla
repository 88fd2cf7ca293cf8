------------------------------- MODULE PrefLists -----------------------------
(* The lists of the preferences of both boards: preferences.zig has the C     *)
(* binding count, takes memory for as many and has it fill them in. Each of   *)
(* the two walks goes from entry to entry and locks nothing in between, while *)
(* other tasks put, remove and clear: one change of the store each, as in     *)
(* EspPrefs and BkPrefs.                                                      *)
EXTENDS Naturals, Sequences, FiniteSets, SequencesExt

CONSTANTS
    None,
    Spaces, Names,  \* namespaces and keys in use
    SeenCap,        \* length of seen[] (32 in the code)
    MaxLen,         \* longest value
    MaxStamp        \* bound on the changes

VARIABLES
    board,  \* esp or bk
    db,     \* the store: what the last change of each key left
    clock,  \* number of the next change
    list    \* the call under way and its present walk; lists only read, so one
            \* call is enough

vars == <<board, db, clock, list>>

Keys == Spaces \X Names
Here == {k \in Keys : db[k].there}

\* since and start, the numbers of the next change when the call and when its
\* present walk began, are there for the property only
Walk(pass, space, room, since) ==
    [pass |-> pass, space |-> space, room |-> room, at |-> 0, cur |-> None,
     seen |-> <<>>, out |-> <<>>, count |-> 0, since |-> since, start |-> clock]

TypeOK ==
    /\ board \in {"esp", "bk"} /\ clock \in 1..(MaxStamp + 1)
    /\ db \in [Keys -> [there: BOOLEAN, age: 0..MaxStamp, len: 0..MaxLen]]
    /\ list # None =>
          /\ list.pass \in {"count", "counted", "fill", "done"} /\ list.space \in Spaces \cup {None}
          /\ list.cur \in Here \cup {k \in Keys : db[k].age >= list.start} \cup {None}
          /\ Len(list.seen) <= SeenCap /\ Len(list.out) <= list.room
          /\ list.since <= list.start /\ list.start <= clock

Init ==
    /\ board \in {"esp", "bk"} /\ clock = 1 /\ list = None
    /\ db = [k \in Keys |-> [there |-> FALSE, age |-> 0, len |-> 0]]

----------------------------------------------------------------------------
(* What other tasks do.                                                     *)
Change(S, there, n) ==
    /\ clock <= MaxStamp /\ clock' = clock + 1
    /\ db' = [k \in Keys |-> IF k \in S THEN [there |-> there, age |-> clock, len |-> n] ELSE db[k]]
    /\ UNCHANGED <<board, list>>

Put       == \E k \in Keys, n \in 0..MaxLen : Change({k}, TRUE, n)
RemoveKey == \E k \in Here : Change({k}, FALSE, 0)

\* nvs_erase_all; on the BK it is one removal after the other
Clear     == board = "esp" /\ \E s \in Spaces : Change({k \in Here : k[1] = s}, FALSE, 0)

----------------------------------------------------------------------------
(* The call: the namespaces, or the entries of one.                         *)
Reads == UNCHANGED <<board, db, clock>>

BeginList ==
    /\ list = None /\ \E s \in Spaces \cup {None} : list' = Walk("count", s, 0, clock)
    /\ Reads

Walked == IF list.space = None THEN Keys ELSE {k \in Keys : k[1] = list.space}

\* the walk goes on to the oldest entry it has not passed
Walks == list # None /\ list.pass \in {"count", "fill"} /\ list.cur = None
Ahead == {k \in Walked \cap Here : db[k].age > list.at}

\* what is new is counted, and written if there is room for it
Item(k) == IF list.space = None THEN k[1] ELSE <<k[2], db[k].len>>
Counted(w, item) ==
    [w EXCEPT !.count = @ + 1, !.out = IF w.count < w.room THEN Append(@, item) ELSE @]

IsNew(w, s) == ~Contains(w.seen, s)
Noted(w, s) ==
    IF IsNew(w, s) THEN [Counted(w, s) EXCEPT !.seen = IF Len(@) < SeenCap THEN Append(@, s) ELSE @]
    ELSE w

\* FlashDB's iterator knows the length of the value it is at; NVS is asked for
\* it, if there is room for the entry
Step ==
    /\ Walks
    /\ \E k \in Ahead :
          /\ \A l \in Ahead : db[k].age <= db[l].age
          /\ LET w == [list EXCEPT !.at = db[k].age]
             IN  list' = IF list.space = None THEN Noted(w, k[1])
                         ELSE IF board = "bk" \/ w.count >= w.room THEN Counted(w, Item(k))
                         ELSE [w EXCEPT !.cur = k]
    /\ Reads

\* value_len_for_type: 0 if the key is gone by now
AskLength ==
    /\ list # None /\ list.cur # None
    /\ list' = [Counted(list, Item(list.cur)) EXCEPT !.cur = None]
    /\ Reads

\* an empty list needs no second walk
Onward == IF list.pass = "count" /\ list.count > 0 THEN "counted" ELSE "done"

\* mutant: what did not fit is not missed
FinishWalkTrusting == Walks /\ Ahead = {} /\ list' = [list EXCEPT !.pass = Onward] /\ Reads

\* A second walk that is longer than the first is an error; one that is shorter
\* is not looked for: the list has the length that was counted, and its end is
\* not written.
FinishWalk ==
    /\ Walks /\ Ahead = {} /\ list' = [list EXCEPT !.pass = Onward]
    /\ list.pass = "fill" => list.count <= list.room
    /\ Reads

\* there is memory for as many as were counted
BeginFill ==
    /\ list # None /\ list.pass = "counted"
    /\ list' = Walk("fill", list.space, list.count, list.since)
    /\ Reads

\* the caller has the list, or an error: a call of NVS may fail, the task it is
\* made in may not start, memory may be short
Return ==
    /\ list # None /\ list' = None
    /\ \/ board = "esp" \/ list.pass \in {"counted", "done"}
       \/ list.pass = "fill" /\ list.count > list.room
    /\ Reads

Next == \/ Put \/ RemoveKey \/ Clear
        \/ BeginList \/ Step \/ AskLength \/ FinishWalk \/ BeginFill \/ Return

Spec == Init /\ [][Next]_vars

----------------------------------------------------------------------------
\* A list that is returned has everything that stood while it was filled and
\* nothing that was gone before, though nothing is locked from one entry to the
\* next; a name is listed twice only when there are more than seen[] holds. The
\* list is written to its end unless an entry of those asked for changed during
\* the call (namespaceListAlloc and listAlloc compare the lengths in one
\* direction only); an entry changed under the second walk may be listed as it
\* was, as it is, both or not at all.
Stands(k) == db[k].there /\ db[k].age < list.start
Moved(k)  == db[k].age >= list.start
Met       == {k[1] : k \in {l \in Keys : Stands(l) \/ Moved(l)}}
ListIsTrue ==
    /\ \A k \in Walked : Stands(k) => Contains(list.out, Item(k))
    /\ \A x \in ToSet(list.out) : \E k \in Walked :
          \/ Stands(k) /\ x = Item(k)
          \/ Moved(k) /\ x \in {k[1]} \cup ({k[2]} \X (0..MaxLen))
    /\ IF list.space = None THEN IsInjective(list.out) \/ Cardinality(Met) > SeenCap
       ELSE IsInjective(list.out) \/ \E k \in Walked : Moved(k)
    /\ Len(list.out) = list.room \/ \E k \in Walked : db[k].age >= list.since
ListsAreExact == list # None /\ list.pass = "done" => ListIsTrue
=============================================================================
