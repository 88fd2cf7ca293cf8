------------------------------- MODULE BkPrefs -------------------------------
(* The Beken preferences: namespaces and keys packed into the full keys of  *)
(* one FlashDB database, called by several tasks, over a flash whose write  *)
(* protection is lifted for each erasure. Power may fail anywhere. The      *)
(* lists are in PrefLists.                                                  *)
EXTENDS Naturals, Sequences, FiniteSets

CONSTANTS
    Clients, None,  \* tasks that call the binding
    NsNames,        \* namespaces in use, sequences of characters
    KeyNames,       \* keys in use, likewise; some are not valid names
    NameCap,        \* BK_EMBED_PREF_NAME_CAP (16 in the code)
    MaxLen,         \* longest value
    MaxStamp        \* bound on the changes

VARIABLES
    up,       \* s_initialized
    db,       \* the database: what the last change of each full key left
    clock,    \* number of the next change
    pc,       \* what each client is doing
    acked,    \* number of the newest acknowledged change of each full key
    got,      \* what the last successful get returned, and what it had read
    holder,   \* who holds s_kvdb_mutex
    guarded,  \* the flash is write-protected; outlives a loss of power
    cut       \* power failed during an erasure

vars == <<up, db, clock, pc, acked, got, holder, guarded, cut>>

Valid(n) == /\ Len(n) \in 1..(NameCap - 1)
            /\ \A i \in DOMAIN n : n[i] # ":"

FullKey(ns, key) == ns \o <<":">> \o key

\* split_full_key: up to the first separator, and the rest
Split(full) ==
    LET p == CHOOSE i \in DOMAIN full : full[i] = ":" /\ \A j \in 1..(i-1) : full[j] # ":"
    IN  <<SubSeq(full, 1, p - 1), SubSeq(full, p + 1, Len(full))>>

\* mutant: what follows the prefix is not looked at
MatchesPrefix(full, ns) == SubSeq(full, 1, Len(ns)) = ns

\* namespace_matches: the prefix, and a separator right after it
Matches(full, ns) == SubSeq(full, 1, Len(ns)) = ns /\ full[Len(ns) + 1] = ":"

FullKeys == {FullKey(ns, key) : ns \in NsNames, key \in KeyNames}
Here     == {f \in FullKeys : db[f].there}

Entries == [there: BOOLEAN, age: 0..MaxStamp, len: 0..MaxLen]
Idle == [op |-> "idle", full |-> <<>>, ns |-> <<>>, at |-> 0, len |-> 0,
         saved |-> FALSE, grew |-> FALSE]
Ops == {"idle", "read", "put", "write", "erase", "remove", "delete", "clear", "wipe"}

TypeOK ==
    /\ db \in [FullKeys -> Entries] /\ clock \in 1..(MaxStamp + 1)
    /\ {up, guarded, cut} \subseteq BOOLEAN /\ holder \in Clients \cup {None}
    /\ pc \in [Clients -> [op: Ops, full: FullKeys \cup {<<>>}, ns: NsNames \cup {<<>>},
                           at: 0..MaxStamp, len: 0..MaxLen, saved: BOOLEAN, grew: BOOLEAN]]
    /\ acked \in [FullKeys -> 0..MaxStamp]
    /\ got \in [told: 0..MaxLen, read: 0..MaxLen, whole: BOOLEAN, grew: BOOLEAN]

Init ==
    /\ up = FALSE /\ clock = 1
    /\ db = [f \in FullKeys |-> [there |-> FALSE, age |-> 0, len |-> 0]]
    /\ pc = [c \in Clients |-> Idle]
    /\ acked = [f \in FullKeys |-> 0]
    /\ got = [told |-> 0, read |-> 0, whole |-> TRUE, grew |-> FALSE]
    /\ holder = None /\ guarded = TRUE /\ cut = FALSE

----------------------------------------------------------------------------
At(c, op)     == up /\ pc[c].op = op
Set(c, r)     == pc' = [pc EXCEPT ![c] = r]
Become(c, op) == Set(c, [pc[c] EXCEPT !.op = op])
Return(c)     == Set(c, Idle)
KeepFlash     == UNCHANGED <<up, guarded, cut>>
KeepDb        == UNCHANGED <<db, clock, acked>>

\* the database locks itself for each of its own functions
Free == holder = None

\* Every entry point begins with it. The provider's is over before there is a
\* second task; a failure leaves nothing but a mutex behind.
Initialise ==
    /\ ~up /\ up' = TRUE
    /\ UNCHANGED <<db, clock, pc, acked, got, holder, guarded, cut>>

\* make_full_key: a call with an invalid name changes nothing
Call(c, op) ==
    /\ At(c, "idle")
    /\ \E ns \in {n \in NsNames : Valid(n)}, key \in {k \in KeyNames : Valid(k)}, n \in 0..MaxLen :
          /\ op # "put" => n = 0
          /\ Set(c, [Idle EXCEPT !.op = op, !.ns = ns, !.len = n,
                                 !.full = IF op = "clear" THEN <<>> ELSE FullKey(ns, key)])
    /\ UNCHANGED <<got, holder>> /\ KeepDb /\ KeepFlash

\* fdb_kv_get_obj: the length; a buffer that is too small ends the call
BeginGet(c) ==
    /\ At(c, "idle") /\ Free
    /\ \E f \in Here : \E room \in db[f].len..MaxLen :
          Set(c, [Idle EXCEPT !.op = "read", !.full = f, !.ns = Split(f)[1],
                              !.at = db[f].len, !.len = room])
    /\ UNCHANGED <<got, holder>> /\ KeepDb /\ KeepFlash

ReadNow(c) == LET e == db[pc[c].full] IN
    IF ~e.there THEN 0 ELSE IF e.len < pc[c].len THEN e.len ELSE pc[c].len

Result(c) == [told |-> pc[c].at, read |-> ReadNow(c), grew |-> pc[c].grew,
              whole |-> db[pc[c].full].there => ReadNow(c) = db[pc[c].full].len]

\* mutant: the second read is not compared with the first
FinishGetTrusting(c) ==
    /\ At(c, "read") /\ Free
    /\ got' = Result(c)
    /\ Return(c) /\ UNCHANGED holder /\ KeepDb /\ KeepFlash

\* fdb_kv_get_blob reads what fits; success if the length is the same
FinishGet(c) ==
    /\ At(c, "read") /\ Free
    /\ got' = IF ReadNow(c) = pc[c].at THEN Result(c) ELSE got
    /\ Return(c) /\ UNCHANGED holder /\ KeepDb /\ KeepFlash

----------------------------------------------------------------------------
\* a get under way that saw a shorter value is marked, for the property
Seen(f, n) == [d \in Clients |->
    [pc[d] EXCEPT !.grew = @ \/ (pc[d].op = "read" /\ pc[d].full = f /\ n > pc[d].at)]]

Change(f, there, n) ==
    /\ clock <= MaxStamp
    /\ db' = [db EXCEPT ![f] = [there |-> there, age |-> clock, len |-> n]]
    /\ clock' = clock + 1
Ack(f) == acked' = [acked EXCEPT ![f] = clock]

\* fdb_kv_set_blob, with the lock: it may first collect garbage
BeginPut(c) ==
    /\ At(c, "put") /\ Free /\ holder' = c /\ Become(c, "write")
    /\ UNCHANGED got /\ KeepDb /\ KeepFlash

\* flash_erase: the protection found is lifted ...
BeginErase(c) ==
    /\ At(c, "write")
    /\ Set(c, [pc[c] EXCEPT !.op = "erase", !.saved = guarded])
    /\ guarded' = FALSE
    /\ UNCHANGED <<up, got, holder, cut>> /\ KeepDb

\* mutant: a sector that cannot be erased ends the function at once
FinishEraseLeaving(c) ==
    /\ At(c, "erase")
    /\ \/ Set(c, [pc[c] EXCEPT !.op = "write", !.saved = FALSE]) /\ UNCHANGED holder
          /\ guarded' = (guarded \/ pc[c].saved)
       \/ Return(c) /\ holder' = None /\ UNCHANGED guarded
    /\ UNCHANGED <<up, got, cut>> /\ KeepDb

\* ... and put back, whether or not the sectors could be erased; if not, the
\* put fails
FinishErase(c) ==
    /\ At(c, "erase")
    /\ \/ Set(c, [pc[c] EXCEPT !.op = "write", !.saved = FALSE]) /\ UNCHANGED holder
       \/ Return(c) /\ holder' = None
    /\ guarded' = (guarded \/ pc[c].saved)
    /\ UNCHANGED <<up, got, cut>> /\ KeepDb

FinishPut(c) ==
    /\ At(c, "write") /\ holder' = None
    /\ Change(pc[c].full, TRUE, pc[c].len) /\ Ack(pc[c].full)
    /\ pc' = [Seen(pc[c].full, pc[c].len) EXCEPT ![c] = Idle]
    /\ UNCHANGED got /\ KeepFlash

\* map_fdb_err of FDB_SAVED_FULL or a failed write
FailPut(c) ==
    /\ At(c, "write") /\ holder' = None /\ Return(c)
    /\ UNCHANGED got /\ KeepDb /\ KeepFlash

\* bk_embed_preferences_remove looks the key up and deletes it: two calls
BeginRemove(c) ==
    /\ At(c, "remove") /\ Free
    /\ IF db[pc[c].full].there THEN Become(c, "delete") ELSE Return(c)
    /\ UNCHANGED <<got, holder>> /\ KeepDb /\ KeepFlash

\* the key may be gone by now, or its sector fail
FinishRemove(c) ==
    /\ At(c, "delete") /\ Free
    /\ \/ db[pc[c].full].there /\ Change(pc[c].full, FALSE, 0) /\ Ack(pc[c].full)
       \/ KeepDb
    /\ Return(c) /\ UNCHANGED <<got, holder>> /\ KeepFlash

\* bk_embed_preferences_clear: on to the next key that matches; at is the age
\* of the entry the iterator has passed
ClearStep(c) ==
    /\ At(c, "clear") /\ Free
    /\ LET ahead == {f \in Here : db[f].age > pc[c].at}
       IN  \/ ahead = {} /\ Return(c)
           \/ \E next \in ahead :
                 /\ \A f \in ahead : db[next].age <= db[f].age
                 /\ IF Matches(next, pc[c].ns) THEN Set(c, [pc[c] EXCEPT !.op = "wipe", !.full = next])
                    ELSE Set(c, [pc[c] EXCEPT !.at = db[next].age])
    /\ UNCHANGED <<got, holder>> /\ KeepDb /\ KeepFlash

\* it is deleted by its name, and the iteration starts again; a failure,
\* which a key that is gone by now is too, ends the call
ClearDelete(c) ==
    /\ At(c, "wipe") /\ Free
    /\ \/ /\ db[pc[c].full].there
          /\ Change(pc[c].full, FALSE, 0) /\ Ack(pc[c].full)
          /\ Set(c, [pc[c] EXCEPT !.op = "clear", !.at = 0])
       \/ Return(c) /\ KeepDb
    /\ UNCHANGED <<got, holder>> /\ KeepFlash

\* what each call was about to change is changed or not; the flash keeps its
\* protection
PowerFails ==
    /\ up' = FALSE /\ holder' = None /\ pc' = [c \in Clients |-> Idle]
    /\ cut' = (cut \/ \E c \in Clients : At(c, "erase"))
    /\ \/ UNCHANGED <<db, clock>>
       \/ \E c \in Clients : /\ pc[c].op \in {"write", "delete", "wipe"}
                             /\ Change(pc[c].full, At(c, "write"), pc[c].len)
    /\ UNCHANGED <<acked, got, guarded>>

Next ==
    \/ Initialise \/ PowerFails
    \/ \E c \in Clients :
          \/ \E op \in {"put", "remove", "clear"} : Call(c, op)
          \/ BeginGet(c) \/ FinishGet(c)
          \/ BeginPut(c) \/ BeginErase(c) \/ FinishErase(c) \/ FinishPut(c) \/ FailPut(c)
          \/ BeginRemove(c) \/ FinishRemove(c) \/ ClearStep(c) \/ ClearDelete(c)

Spec == Init /\ [][Next]_vars

----------------------------------------------------------------------------
\* What a call was told is done is in the database, or something newer is,
\* whatever fails and however often power is lost.
AckedSurvives == \A f \in FullKeys : db[f].age >= acked[f]

\* A get that succeeds has read as many bytes as it says, and the whole value,
\* unless a longer value was put between its two looks at the database: then
\* its first bytes pass for the value (bk_embed_preferences_get, line 280).
GetIsTrue == got.told = got.read /\ (got.whole \/ got.grew)

\* A call changes entries of its own namespace only: what the separator, the
\* check of names and the prefix comparison of clear are for.
OnlyOwn == \A f \in FullKeys : db'[f] # db[f] =>
    \E c \in Clients : pc[c].op # "idle" /\ pc[c].ns = Split(f)[1]
NamespacesApart == [][OnlyOwn]_vars

\* The flash is unprotected only while an erasure runs, or for good once power
\* has failed during one: the next erasure finds no protection to put back.
ProtectionBack == guarded \/ cut \/ \E c \in Clients : pc[c].op = "erase"
=============================================================================
