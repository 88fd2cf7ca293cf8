------------------------------- MODULE EspPrefs -------------------------------
(* The ESP32 preferences over NVS: stores are handles, a change is set and   *)
(* then committed, and the library may write a change out before it is       *)
(* committed. Each request runs in a task of its own, so that requests of    *)
(* several stores interleave between their NVS calls. Power may fail. The     *)
(* lists are in PrefLists.                                                   *)
EXTENDS Naturals, Sequences, FiniteSets

CONSTANTS
    Clients, None,      \* stores, one for each client
    NsNames, KeyNames,  \* namespaces and keys in use
    NameCap,            \* size of the name buffers (16 in the code)
    MaxLen,             \* longest value
    MaxStamp            \* bound on the changes

VARIABLES
    up,       \* NVS is initialised
    db,       \* what NVS answers: what the last change of each key left
    disk,     \* what is in the flash
    clock,    \* number of the next change
    pc,       \* what each client is doing
    acked,    \* number of the newest acknowledged change of each key
    got,      \* what the last successful getAlloc returned, and had read
    handle    \* the open handle of each client

vars == <<up, db, disk, clock, pc, acked, got, handle>>

\* copy_nvs_name; NVS itself keeps namespaces and keys apart
Valid(n) == Len(n) \in 1..(NameCap - 1)
Names(S) == {n \in S : Valid(n)}

Keys == Names(NsNames) \X Names(KeyNames)
Here == {k \in Keys : db[k].there}
Gone(n) == [there |-> FALSE, age |-> n, len |-> 0]

Idle == [op |-> "idle", key |-> None, len |-> 0]

TypeOK ==
    /\ up \in BOOLEAN /\ clock \in 1..(MaxStamp + 1)
    /\ db \in [Keys -> [there: BOOLEAN, age: 0..MaxStamp, len: 0..MaxLen]]
    /\ disk \in [Keys -> [there: BOOLEAN, age: 0..MaxStamp, len: 0..MaxLen]]
    /\ pc \in [Clients -> [op: {"idle", "commit", "read"}, key: Keys \cup {None}, len: 0..MaxLen]]
    /\ acked \in [Keys -> 0..MaxStamp]
    /\ got \in [told: 0..MaxLen, read: 0..MaxLen]
    /\ handle \in [Clients -> [ns: Names(NsNames), ro: BOOLEAN] \cup {None}]

Init ==
    /\ up = FALSE /\ clock = 1
    /\ db = [k \in Keys |-> Gone(0)] /\ disk = db
    /\ pc = [c \in Clients |-> Idle]
    /\ acked = [k \in Keys |-> 0]
    /\ got = [told |-> 0, read |-> 0]
    /\ handle = [c \in Clients |-> None]

----------------------------------------------------------------------------
\* nvs_flash_init; a partition without free pages, or of a newer format, is
\* erased, and with it everything anyone was ever told is safe
InitFlash ==
    /\ ~up /\ up' \in BOOLEAN
    /\ \/ db' = disk /\ UNCHANGED <<disk, acked>>
       \/ /\ disk' = [k \in Keys |-> Gone(0)] /\ db' = disk'
          /\ acked' = [k \in Keys |-> 0]
    /\ UNCHANGED <<clock, pc, got, handle>>

At(c, op) == up /\ pc[c].op = op
Mine(c)   == {k \in Keys : k[1] = handle[c].ns}
Frame     == UNCHANGED <<up, clock, handle, got, acked, db, disk>>

\* a namespace nobody has written to opens for writing only
Open(c) ==
    /\ At(c, "idle") /\ handle[c] = None
    /\ \E ns \in Names(NsNames), ro \in BOOLEAN :
          /\ ro => \E k \in Here : k[1] = ns
          /\ handle' = [handle EXCEPT ![c] = [ns |-> ns, ro |-> ro]]
    /\ UNCHANGED <<up, db, disk, clock, pc, acked, got>>

Close(c) ==
    /\ At(c, "idle") /\ handle[c] # None
    /\ handle' = [handle EXCEPT ![c] = None]
    /\ UNCHANGED <<up, db, disk, clock, pc, acked, got>>

\* nvs_set_blob, nvs_erase_key, nvs_erase_all: the keys of S change at once
\* for everybody; the commit is a second call
Change(c, S, there, n) ==
    /\ At(c, "idle") /\ handle[c] # None /\ ~handle[c].ro /\ clock <= MaxStamp
    /\ db' = [k \in Keys |-> IF k \in S THEN [there |-> there, age |-> clock, len |-> n] ELSE db[k]]
    /\ clock' = clock + 1
    /\ UNCHANGED <<up, disk, handle, got>>

\* mutant: success is reported as soon as the value is set
PutHasty(c) ==
    \E k \in Mine(c), n \in 0..MaxLen :
        /\ Change(c, {k}, TRUE, n)
        /\ acked' = [acked EXCEPT ![k] = clock] /\ UNCHANGED pc

Commits(c) == pc' = [pc EXCEPT ![c].op = "commit"] /\ UNCHANGED acked

Put(c)    == \E k \in Mine(c), n \in 0..MaxLen : Change(c, {k}, TRUE, n) /\ Commits(c)
RemoveKey(c) == \E k \in Mine(c) \cap Here : Change(c, {k}, FALSE, 0) /\ Commits(c)
Clear(c)  == Change(c, Mine(c) \cap Here, FALSE, 0) /\ Commits(c)
Sync(c)   == At(c, "idle") /\ handle[c] # None /\ Commits(c)
             /\ UNCHANGED <<up, db, disk, clock, got, handle>>

\* nvs_commit: what the handle's namespace holds is in the flash, or an error
\* is returned and the change is in doubt
Commit(c) ==
    /\ At(c, "commit")
    /\ \/ /\ disk' = [k \in Keys |-> IF k \in Mine(c) THEN db[k] ELSE disk[k]]
          /\ acked' = [k \in Keys |-> IF k \in Mine(c) THEN db[k].age ELSE acked[k]]
       \/ UNCHANGED <<disk, acked>>
    /\ pc' = [pc EXCEPT ![c] = Idle]
    /\ UNCHANGED <<up, db, clock, got, handle>>

\* NVS may write a change out before its commit
WriteOut ==
    /\ \E k \in Keys : disk[k] # db[k] /\ disk' = [disk EXCEPT ![k] = db[k]]
    /\ up /\ UNCHANGED <<up, db, clock, pc, acked, got, handle>>

\* getAlloc: one get for the length, one into a buffer of that length
BeginGet(c) ==
    /\ At(c, "idle") /\ handle[c] # None
    /\ \E k \in Mine(c) \cap Here : pc' = [pc EXCEPT ![c] = [op |-> "read", key |-> k, len |-> db[k].len]]
    /\ Frame

\* esp_embed_preferences_get is one call of NVS, which refuses a buffer that
\* is too small; a shorter value is refused by getAlloc
FinishGet(c) ==
    /\ At(c, "read")
    /\ LET e == db[pc[c].key] IN
       got' = IF e.there /\ e.len = pc[c].len THEN [told |-> pc[c].len, read |-> e.len] ELSE got
    /\ pc' = [pc EXCEPT ![c] = Idle]
    /\ UNCHANGED <<up, db, disk, clock, acked, handle>>

PowerFails ==
    /\ up' = FALSE /\ db' = disk
    /\ pc' = [c \in Clients |-> Idle] /\ handle' = [c \in Clients |-> None]
    /\ UNCHANGED <<disk, clock, acked, got>>

Next ==
    \/ InitFlash \/ WriteOut \/ PowerFails
    \/ \E c \in Clients :
          \/ Open(c) \/ Close(c) \/ BeginGet(c) \/ FinishGet(c)
          \/ handle[c] # None /\ (Put(c) \/ RemoveKey(c) \/ Clear(c) \/ Commit(c) \/ Sync(c))

Spec == Init /\ [][Next]_vars

----------------------------------------------------------------------------
\* What a call was told is done is in the flash, or something newer is,
\* whatever fails and however often power is lost; only the erasure of a
\* partition NVS cannot use takes it away (esp_embed_preferences_init).
AckedSurvives == \A k \in Keys : disk[k].age >= acked[k] /\ db[k].age >= acked[k]

\* A get that succeeds has read what it says it has.
GetIsTrue == got.told = got.read

\* A call changes keys of its own namespace only.
OnlyOwn == up => \A k \in Keys : db'[k] # db[k] /\ db'[k].age = clock =>
    \E c \in Clients : handle[c] # None /\ handle[c].ns = k[1] /\ ~handle[c].ro
NamespacesApart == [][OnlyOwn]_vars
=============================================================================
