------------------------------ MODULE BoardProofs -----------------------------
(* What is proved of BoardParts for every value of the constants: the WiFi     *)
(* stations tell the application what is so, the preferences keep what they    *)
(* acknowledged and each namespace to itself, the flash does not stay          *)
(* unprotected, GCM accepts only what was encrypted; and, of one part each, the *)
(* driver's power saving, an init that is whole and what a get answers.        *)
EXTENDS BoardParts, TLAPS

----------------------------------------------------------------------------
(* A behaviour of BoardParts is one of its part.                            *)

\* it starts where the part starts,
LEMMA Begins ==
    ASSUME BoardInit
    PROVE  /\ part = "esp wifi" => EspWifi!Init
           /\ part = "bk wifi" => BkWifi!Init
           /\ part = "esp prefs" => EspPref!Init
           /\ part = "bk prefs" => BkPref!Init
           /\ part = "gcm" => Gcm!Init
BY DEF BoardInit

\* and each of its steps is the part's, or leaves the part alone.
LEMMA Steps ==
    ASSUME [BoardNext]_vars
    PROVE  /\ part' = part
           /\ part = "esp wifi" => EspWifi!Next \/ UNCHANGED vars
           /\ part = "bk wifi" => BkWifi!Next \/ UNCHANGED vars
           /\ part = "esp prefs" => EspPref!Next \/ UNCHANGED vars
           /\ part = "bk prefs" => BkPref!Next \/ UNCHANGED vars
           /\ part = "gcm" => Gcm!Next \/ UNCHANGED vars
<1>1. ASSUME UNCHANGED vars PROVE part' = part
  BY <1>1 DEF vars
<1>2. ASSUME BoardNext PROVE part' = part
  BY <1>2 DEF BoardNext
<1>3. ASSUME BoardNext
      PROVE  /\ part = "esp wifi" => EspWifi!Next
             /\ part = "bk wifi" => BkWifi!Next
             /\ part = "esp prefs" => EspPref!Next
             /\ part = "bk prefs" => BkPref!Next
             /\ part = "gcm" => Gcm!Next
  BY <1>3 DEF BoardNext
<1> QED BY <1>1, <1>2, <1>3

\* a step of no part changes none of the pool,
LEMMA Stays ==
    ASSUME UNCHANGED vars
    PROVE  /\ part' = part /\ v1' = v1 /\ v2' = v2 /\ v3' = v3 /\ v4' = v4 /\ v5' = v5 /\ v6' = v6
           /\ v7' = v7 /\ v8' = v8 /\ v9' = v9 /\ v10' = v10 /\ v11' = v11 /\ v12' = v12
           /\ v13' = v13 /\ v14' = v14 /\ v15' = v15 /\ v16' = v16
BY DEF vars, Rest1, Rest3, Rest4, Rest5, Rest7, Rest8, Rest9, Rest11, Rest13

----------------------------------------------------------------------------
(* GCM: what has been encrypted only grows, and a tag that is accepted is that *)
(* of a text in it.                                                            *)

\* the texts on the wire are records of their three fields
Whole(wire) == \A w \in wire : w = [nonce |-> w.nonce, ad |-> w.ad, text |-> w.text]
GcmInv(wire) == Whole(wire) /\ Gcm!AcceptedIsAuthentic

\* a tag that is accepted is that of a text on the wire
LEMMA GcmAccepts ==
    ASSUME Whole(v2), v2' = v2, NEW x, NEW n, NEW tag \in Gcm!Offered, Gcm!Accept(x, n, tag)
    PROVE  Gcm!AcceptedIsAuthentic'
<1>1. CASE ~Gcm!Authentic(x, n, tag)
  BY <1>1 DEF Gcm!Accept, Gcm!AcceptedIsAuthentic
<1>2. CASE Gcm!Authentic(x, n, tag)
  <2>1. v3' = <<x.nonce, x.ad, x.text>> /\ tag = <<x.nonce, x.ad, x.text>>
    BY <1>2 DEF Gcm!Accept, Gcm!Authentic, Gcm!TagOf
  <2>2. tag # Gcm!Forged
    BY <2>1 DEF Gcm!Forged
  <2>3. PICK w \in v2 : tag = <<w.nonce, w.ad, w.text>>
    BY <2>2 DEF Gcm!Offered
  <2>4. v3'[1] = w.nonce /\ v3'[2] = w.ad /\ v3'[3] = w.text
    BY <2>1, <2>3
  <2> QED BY <2>3, <2>4 DEF Whole, Gcm!AcceptedIsAuthentic
<1> QED BY <1>1, <1>2

\* A text that is sent keeps what was accepted before,
LEMMA GcmSends ==
    ASSUME GcmInv(v2), v3' = v3, NEW x, Gcm!Sent(x) \/ v2' = v2
    PROVE  GcmInv(v2)'
BY DEF GcmInv, Whole, Gcm!Sent, Gcm!AcceptedIsAuthentic

\* and so does every step of either side.
LEMMA GcmStep ==
    ASSUME GcmInv(v2), Gcm!Next
    PROVE  GcmInv(v2)'
<1>1. CASE \E s \in Gcm!Sides : Gcm!StateInit(s) \/ Gcm!StateFree(s) \/ Gcm!Start(s) \/ Gcm!UpdateAd(s) \/ Gcm!Update(s)
  <2>1. v2' = v2 /\ v3' = v3
    BY <1>1 DEF Gcm!StateInit, Gcm!StateFree, Gcm!Start, Gcm!UpdateAd, Gcm!Update, Gcm!Keep
  <2> QED BY <2>1, GcmSends
<1>2. CASE Gcm!Finish
  BY <1>2, GcmSends DEF Gcm!Finish
<1>3. CASE Gcm!EncryptWhole
  <2>1. v3' = v3
    BY <1>3 DEF Gcm!EncryptWhole
  <2>2. PICK x : Gcm!Sent(x) \/ v2' = v2
    <3>1. PICK n \in Nonces, a \in Ads, text \in Gcm!Texts :
              Gcm!Sent(Gcm!Whole(v1["enc"], n, a, text)) \/ v2' = v2
      BY <1>3 DEF Gcm!EncryptWhole
    <3> QED BY <3>1
  <2> QED BY <2>1, <2>2, GcmSends
<1>4. CASE Gcm!FinishDecrypt
  <2>1. PICK n \in Gcm!Lens, tag \in Gcm!Offered : Gcm!Accept(v1["dec"], n, tag)
    BY <1>4 DEF Gcm!FinishDecrypt
  <2>2. v2' = v2
    BY <1>4 DEF Gcm!FinishDecrypt
  <2>3. Gcm!AcceptedIsAuthentic'
    BY <2>1, <2>2, GcmAccepts DEF GcmInv
  <2> QED BY <2>2, <2>3 DEF GcmInv, Whole
<1>5. CASE Gcm!DecryptWhole
  <2>1. v2' = v2
    BY <1>5 DEF Gcm!DecryptWhole
  <2>2. CASE v3' = <<>>
    BY <2>1, <2>2 DEF GcmInv, Whole, Gcm!AcceptedIsAuthentic
  <2>3. CASE v3' # <<>>
    <3>1. PICK n \in Nonces, a \in Ads, text \in Gcm!Texts, l \in Gcm!Lens, tag \in Gcm!Offered :
              Gcm!Accept([Gcm!Whole(v1["dec"], n, a, text) EXCEPT !.phase = "text"], l, tag)
      BY <1>5, <2>3 DEF Gcm!DecryptWhole
    <3>2. Gcm!AcceptedIsAuthentic'
      BY <2>1, <3>1, GcmAccepts DEF GcmInv
    <3> QED BY <2>1, <3>2 DEF GcmInv, Whole
  <2> QED BY <2>2, <2>3
<1> QED BY <1>1, <1>2, <1>3, <1>4, <1>5 DEF Gcm!Next

----------------------------------------------------------------------------
(* ESP32 preferences: a change is younger than all there is, and a commit     *)
(* acknowledges what it puts into the flash.                                  *)
EspPrefInv(db, disk, clock, acked) ==
    /\ DOMAIN db = EspPref!Keys /\ DOMAIN disk = EspPref!Keys /\ DOMAIN acked = EspPref!Keys
    /\ clock \in Nat \ {0}
    /\ \A k \in EspPref!Keys :
          /\ db[k].age \in Nat /\ disk[k].age \in Nat /\ acked[k] \in Nat
          /\ acked[k] <= disk[k].age /\ disk[k].age < clock /\ acked[k] <= db[k].age /\ db[k].age < clock

EspPrefStays == v2' = v2 /\ v3' = v3 /\ v4' = v4 /\ v6' = v6

\* what leaves the ages alone,
LEMMA EspPrefSame ==
    ASSUME EspPrefInv(v2, v3, v4, v6), EspPrefStays
    PROVE  EspPrefInv(v2, v3, v4, v6)'
BY DEF EspPrefInv, EspPrefStays

\* a change, which is the youngest,
LEMMA EspPrefChange ==
    ASSUME EspPrefInv(v2, v3, v4, v6), NEW c \in Clients, NEW S, NEW there, NEW n,
           EspPref!Change(c, S, there, n), v6' = v6
    PROVE  EspPrefInv(v2, v3, v4, v6)'
<1>1. /\ v2' = [k \in EspPref!Keys |-> IF k \in S THEN [there |-> there, age |-> v4, len |-> n] ELSE v2[k]]
      /\ v3' = v3 /\ v4' = v4 + 1 /\ v6' = v6
  BY DEF EspPref!Change
<1>2. \A k \in EspPref!Keys : /\ v2'[k].age \in Nat /\ v6[k] <= v2'[k].age /\ v2'[k].age < v4'
                              /\ v6[k] \in Nat /\ v3[k].age < v4'
  BY <1>1 DEF EspPrefInv
<1> QED BY <1>1, <1>2 DEF EspPrefInv

\* and every step keeps the order of the ages,
LEMMA EspPrefStep ==
    ASSUME EspPrefInv(v2, v3, v4, v6), EspPref!Next
    PROVE  EspPrefInv(v2, v3, v4, v6)'
<1>1. CASE EspPref!InitFlash
  <2>1. CASE v2' = v3 /\ v3' = v3 /\ v6' = v6
    BY <1>1, <2>1 DEF EspPref!InitFlash, EspPrefInv
  <2>2. CASE v3' = [k \in EspPref!Keys |-> EspPref!Gone(0)] /\ v2' = v3' /\ v6' = [k \in EspPref!Keys |-> 0]
    BY <1>1, <2>2 DEF EspPref!InitFlash, EspPrefInv, EspPref!Gone
  <2> QED BY <1>1, <2>1, <2>2 DEF EspPref!InitFlash
<1>2. CASE EspPref!WriteOut
  BY <1>2 DEF EspPref!WriteOut, EspPrefInv
<1>3. CASE EspPref!PowerFails
  BY <1>3 DEF EspPref!PowerFails, EspPrefInv
<1>4. ASSUME NEW c \in Clients, EspPref!Open(c) \/ EspPref!Close(c) \/ EspPref!BeginGet(c) \/ EspPref!FinishGet(c) \/ EspPref!Sync(c)
      PROVE  EspPrefInv(v2, v3, v4, v6)'
  BY <1>4, EspPrefSame DEF EspPref!Open, EspPref!Close, EspPref!BeginGet, EspPref!FinishGet, EspPref!Sync,
     EspPref!Frame, EspPref!Commits, EspPrefStays
<1>5. ASSUME NEW c \in Clients, EspPref!Put(c) \/ EspPref!RemoveKey(c) \/ EspPref!Clear(c)
      PROVE  EspPrefInv(v2, v3, v4, v6)'
  <2>1. CASE EspPref!Put(c)
    <3>1. PICK k \in EspPref!Mine(c), n \in 0..PrefLen : EspPref!Change(c, {k}, TRUE, n) /\ EspPref!Commits(c)
      BY <2>1 DEF EspPref!Put
    <3> QED BY <3>1, EspPrefChange DEF EspPref!Commits
  <2>2. CASE EspPref!RemoveKey(c)
    <3>1. PICK k \in EspPref!Mine(c) : EspPref!Change(c, {k}, FALSE, 0) /\ EspPref!Commits(c)
      BY <2>2 DEF EspPref!RemoveKey
    <3> QED BY <3>1, EspPrefChange DEF EspPref!Commits
  <2>3. CASE EspPref!Clear(c)
    BY <2>3, EspPrefChange DEF EspPref!Clear, EspPref!Commits
  <2> QED BY <1>5, <2>1, <2>2, <2>3
<1>6. ASSUME NEW c \in Clients, EspPref!Commit(c)
      PROVE  EspPrefInv(v2, v3, v4, v6)'
  <2>1. v2' = v2 /\ v4' = v4
    BY <1>6 DEF EspPref!Commit
  <2>2. CASE v3' = v3 /\ v6' = v6
    BY <2>1, <2>2, EspPrefSame DEF EspPrefStays
  <2>3. CASE /\ v3' = [k \in EspPref!Keys |-> IF k \in EspPref!Mine(c) THEN v2[k] ELSE v3[k]]
             /\ v6' = [k \in EspPref!Keys |-> IF k \in EspPref!Mine(c) THEN v2[k].age ELSE v6[k]]
    BY <2>1, <2>3 DEF EspPrefInv
  <2> QED BY <1>6, <2>2, <2>3 DEF EspPref!Commit
<1> QED BY <1>1, <1>2, <1>3, <1>4, <1>5, <1>6 DEF EspPref!Next

\* and only a client with a store of the key's namespace open makes one
LEMMA EspPrefOwn ==
    ASSUME EspPrefInv(v2, v3, v4, v6), EspPref!Next
    PROVE  EspPref!OnlyOwn
<1> SUFFICES ASSUME v1, NEW k \in EspPref!Keys, v2'[k] # v2[k], v2'[k].age = v4
             PROVE  \E c \in Clients : v8[c] # None /\ v8[c].ns = k[1] /\ ~v8[c].ro
  BY DEF EspPref!OnlyOwn
<1>1. ~EspPref!InitFlash
  BY DEF EspPref!InitFlash
<1>2. ~EspPref!WriteOut
  BY DEF EspPref!WriteOut
<1>3. ~EspPref!PowerFails
  BY DEF EspPref!PowerFails, EspPrefInv
<1>4. PICK c \in Clients : \/ EspPref!Open(c) \/ EspPref!Close(c) \/ EspPref!BeginGet(c) \/ EspPref!FinishGet(c)
                           \/ EspPref!Put(c) \/ EspPref!RemoveKey(c) \/ EspPref!Clear(c) \/ EspPref!Commit(c) \/ EspPref!Sync(c)
  BY <1>1, <1>2, <1>3 DEF EspPref!Next
<1>5. EspPref!Put(c) \/ EspPref!RemoveKey(c) \/ EspPref!Clear(c)
  BY <1>4 DEF EspPref!Open, EspPref!Close, EspPref!BeginGet, EspPref!FinishGet, EspPref!Commit, EspPref!Sync,
       EspPref!Frame
<1>6. PICK S, there, n : S \in SUBSET EspPref!Mine(c) /\ EspPref!Change(c, S, there, n)
  BY <1>5 DEF EspPref!Put, EspPref!RemoveKey, EspPref!Clear
<1>7. k \in S /\ v8[c] # None /\ ~v8[c].ro
  BY <1>6 DEF EspPref!Change
<1> QED BY <1>6, <1>7 DEF EspPref!Mine

----------------------------------------------------------------------------
(* Beken preferences.                                                         *)

\* changes are numbered, and an acknowledgement is never ahead of its entry
BkPrefAges(db, clock, acked) ==
    /\ DOMAIN db = BkPref!FullKeys /\ DOMAIN acked = BkPref!FullKeys /\ clock \in Nat
    /\ \A f \in BkPref!FullKeys : /\ db[f].age \in Nat /\ acked[f] \in Nat
                                  /\ acked[f] <= db[f].age /\ db[f].age < clock

\* one client at a time writes, an erasure is not left behind by a loss of
\* power, and one that found no protection follows one that lost it
BkPrefGuard(up, pc, holder, guarded, cut) ==
    /\ ~up => \A c \in Clients : pc[c].op = "idle"
    /\ \A c \in Clients : pc[c].op \in {"write", "erase"} => holder = c
    /\ \A c \in Clients : pc[c].op = "erase" /\ ~pc[c].saved => cut
    /\ guarded \/ cut \/ \E c \in Clients : pc[c].op = "erase"

\* the provers do not see that the separator is a string
Letters == STRING \cup {":"}

\* a client changes keys of the namespace it was called with
Plain(ns) == ns \in Seq(Letters) /\ \A i \in DOMAIN ns : ns[i] # ":"
Changing == {"put", "write", "erase", "remove", "delete", "wipe"}
Call(x) ==
    /\ DOMAIN x = {"op", "full", "ns", "at", "len", "saved", "grew"}
    /\ x.op \in Changing => BkPref!Split(x.full)[1] = x.ns
    /\ x.op \in {"clear", "wipe"} => Plain(x.ns)
BkPrefCalls(pc) == DOMAIN pc = Clients /\ \A c \in Clients : Call(pc[c])

BkPrefInv(up, db, clock, pc, acked, holder, guarded, cut) ==
    BkPrefCalls(pc) /\ BkPrefAges(db, clock, acked) /\ BkPrefGuard(up, pc, holder, guarded, cut)
BkPrefNow == BkPrefInv(v1, v2, v3, v4, v5, v7, v8, v9)

\* the first separator ends the namespace
LEMMA SplitAt ==
    ASSUME NEW full \in Seq(Letters), NEW n \in Nat, n + 1 \in DOMAIN full, full[n + 1] = ":",
           \A i \in 1..n : full[i] # ":"
    PROVE  BkPref!Split(full)[1] = SubSeq(full, 1, n)
<1> DEFINE First(i) == full[i] = ":" /\ \A j \in 1..(i - 1) : full[j] # ":"
<1>1. First(n + 1)
  OBVIOUS
<1>2. ASSUME NEW i \in DOMAIN full, First(i) PROVE i = n + 1
  <2>1. i \in Nat /\ i >= 1
    OBVIOUS
  <2>2. ~(i <= n)
    BY <1>2, <2>1
  <2>3. ~(i > n + 1)
    BY <1>2, <2>1
  <2> QED BY <2>1, <2>2, <2>3
<1>3. (CHOOSE i \in DOMAIN full : First(i)) = n + 1
  <2> HIDE DEF First
  <2> QED BY <1>1, <1>2
<1> DEFINE sep == CHOOSE i \in DOMAIN full : First(i)
<1>4. BkPref!Split(full) = <<SubSeq(full, 1, sep - 1), SubSeq(full, sep + 1, Len(full))>>
  BY ONLY Zenon DEF BkPref!Split
<1>5. sep = n + 1
  BY ONLY Zenon, <1>3
<1> HIDE DEF sep
<1>6. sep - 1 = n
  BY <1>5
<1> QED BY ONLY <1>4, <1>6

\* a sequence of one
LEMMA Short ==
    ASSUME NEW T, NEW x \in T
    PROVE  <<x>> \in Seq(T) /\ Len(<<x>>) = 1 /\ <<x>>[1] = x
OBVIOUS

\* names are texts
LEMMA NamesAreTexts == NsNames \subseteq Seq(Letters) /\ KeyNames \subseteq Seq(Letters)
<1>1. ASSUME NEW n \in Seq(STRING) PROVE n \in Seq(Letters)
  BY DEF Letters
<1> QED BY <1>1, NamesAssumption

\* a sequence and what is put behind it
LEMMA Joined ==
    ASSUME NEW T, NEW q \in Seq(T), NEW r \in Seq(T)
    PROVE  /\ q \o r \in Seq(T) /\ Len(q \o r) = Len(q) + Len(r)
           /\ \A i \in 1..Len(q) : (q \o r)[i] = q[i]
           /\ \A i \in 1..Len(r) : (q \o r)[Len(q) + i] = r[i]
OBVIOUS

\* a full key has a separator after its namespace
LEMMA FullKeyIs ==
    ASSUME NEW ns \in Seq(Letters), NEW key \in Seq(Letters), NEW full, full = BkPref!FullKey(ns, key)
    PROVE  /\ full \in Seq(Letters) /\ Len(ns) + 1 \in DOMAIN full /\ full[Len(ns) + 1] = ":"
           /\ SubSeq(full, 1, Len(ns)) = ns /\ \A i \in 1..Len(ns) : full[i] = ns[i]
<1>1. PICK colon, p : colon = <<":">> /\ p = ns \o colon
  OBVIOUS
<1>2. full = p \o key
  BY ONLY <1>1, full = BkPref!FullKey(ns, key), Zenon DEF BkPref!FullKey
<1>c. colon \in Seq(Letters) /\ Len(colon) = 1 /\ colon[1] = ":"
  <2>1. ":" \in Letters
    BY DEF Letters
  <2> QED BY ONLY <1>1, <2>1, Short, Zenon
<1>3. p \in Seq(Letters) /\ Len(p) = Len(ns) + 1 /\ p[Len(ns) + 1] = ":" /\ \A i \in 1..Len(ns) : p[i] = ns[i]
  <2>1. /\ p \in Seq(Letters) /\ Len(p) = Len(ns) + Len(colon) /\ (\A i \in 1..Len(ns) : p[i] = ns[i])
        /\ \A i \in 1..Len(colon) : p[Len(ns) + i] = colon[i]
    BY ONLY <1>1, <1>c, Joined, ns \in Seq(Letters)
  <2> QED BY <1>c, <2>1
<1>4. full \in Seq(Letters) /\ Len(full) = Len(p) + Len(key) /\ \A i \in 1..Len(p) : full[i] = p[i]
  BY ONLY <1>2, <1>3, Joined, key \in Seq(Letters)
<1>5. Len(ns) + 1 \in DOMAIN full /\ full[Len(ns) + 1] = ":" /\ \A i \in 1..Len(ns) : full[i] = ns[i]
  BY <1>3, <1>4
<1>6. SubSeq(full, 1, Len(ns)) = ns
  <2>1. SubSeq(full, 1, Len(ns)) \in Seq(Letters) /\ Len(SubSeq(full, 1, Len(ns))) = Len(ns)
    BY <1>3, <1>4
  <2>2. \A i \in 1..Len(ns) : SubSeq(full, 1, Len(ns))[i] = ns[i]
    BY <1>3, <1>4, <1>5
  <2> QED BY <2>1, <2>2
<1> QED BY <1>4, <1>5, <1>6

\* and falls apart where it was put together,
LEMMA SplitFullKey ==
    ASSUME NEW ns, Plain(ns), NEW key \in Seq(Letters)
    PROVE  BkPref!Split(BkPref!FullKey(ns, key))[1] = ns
<1>1. PICK full : full = BkPref!FullKey(ns, key)
  OBVIOUS
<1>2. /\ full \in Seq(Letters) /\ Len(ns) + 1 \in DOMAIN full /\ full[Len(ns) + 1] = ":"
      /\ SubSeq(full, 1, Len(ns)) = ns /\ \A i \in 1..Len(ns) : full[i] = ns[i]
  BY <1>1, FullKeyIs DEF Plain
<1>3. Len(ns) \in Nat /\ \A i \in 1..Len(ns) : full[i] # ":"
  BY <1>2 DEF Plain
<1> QED BY <1>1, <1>2, <1>3, SplitAt

\* as does one that begins with a namespace and a separator.
LEMMA SplitMatching ==
    ASSUME NEW ns, Plain(ns), NEW full \in BkPref!FullKeys, BkPref!Matches(full, ns)
    PROVE  BkPref!Split(full)[1] = ns
<1>1. PICK own \in NsNames, key \in KeyNames : full = BkPref!FullKey(own, key)
  BY DEF BkPref!FullKeys
<1>2. full \in Seq(Letters) /\ Len(own) \in Nat /\ Len(own) + 1 \in DOMAIN full /\ full[Len(own) + 1] = ":"
  BY <1>1, FullKeyIs, NamesAreTexts
<1>3. /\ ns \in Seq(Letters) /\ Len(ns) \in Nat /\ SubSeq(full, 1, Len(ns)) = ns /\ full[Len(ns) + 1] = ":"
      /\ \A i \in 1..Len(ns) : ns[i] # ":"
  BY DEF Plain, BkPref!Matches
<1>4. \A i \in 1..Len(ns) : full[i] = ns[i]
  <2>1. \A i \in 1..Len(ns) : SubSeq(full, 1, Len(ns))[i] = full[i]
    BY <1>2, <1>3
  <2> QED BY <1>3, <2>1
<1>5. Len(ns) < Len(own) + 1
  BY <1>2, <1>3, <1>4
<1>6. Len(ns) + 1 \in DOMAIN full
  BY <1>2, <1>3, <1>5
<1> QED BY <1>2, <1>3, <1>4, <1>6, SplitAt

\* A change that is made is the youngest.
LEMMA BkPrefChange ==
    ASSUME BkPrefNow, NEW f, NEW there, NEW n, BkPref!Change(f, there, n), BkPref!Ack(f) \/ v5' = v5
    PROVE  BkPrefAges(v2, v3, v5)'
<1>1. v2' = [v2 EXCEPT ![f] = [there |-> there, age |-> v3, len |-> n]] /\ v3' = v3 + 1
  BY DEF BkPref!Change
<1>2. DOMAIN v2' = BkPref!FullKeys /\ DOMAIN v5' = BkPref!FullKeys /\ v3' \in Nat
  BY <1>1 DEF BkPref!Ack, BkPrefNow, BkPrefInv, BkPrefAges
<1>3. ASSUME NEW g \in BkPref!FullKeys
      PROVE  v2'[g].age \in Nat /\ v5'[g] \in Nat /\ v5'[g] <= v2'[g].age /\ v2'[g].age < v3'
  BY <1>1 DEF BkPref!Ack, BkPrefNow, BkPrefInv, BkPrefAges
<1> QED BY <1>2, <1>3 DEF BkPrefAges

\* A step that changes no entry keeps the ages.
LEMMA BkPrefKeepDb ==
    ASSUME BkPrefNow, BkPref!KeepDb
    PROVE  BkPrefAges(v2, v3, v5)'
BY DEF BkPref!KeepDb, BkPrefNow, BkPrefInv, BkPrefAges

\* A client's step away from the writing of the database.
LEMMA BkPrefCalm ==
    ASSUME BkPrefNow, BkPrefAges(v2, v3, v5)', NEW c \in Clients, NEW r, BkPref!Set(c, r), Call(r),
           v4[c].op \notin {"write", "erase"}, r.op \notin {"write", "erase"},
           v1, BkPref!KeepFlash, v7' = v7
    PROVE  BkPrefNow'
<1>1. /\ v4' = [v4 EXCEPT ![c] = r] /\ v1' = v1 /\ v8' = v8 /\ v9' = v9 /\ DOMAIN v4 = Clients
      /\ \A d \in Clients : Call(v4[d])
  BY DEF BkPref!Set, BkPref!KeepFlash, BkPrefNow, BkPrefInv, BkPrefCalls
<1>2. DOMAIN v4' = Clients /\ v4'[c] = r /\ \A d \in Clients \ {c} : v4'[d] = v4[d]
  BY <1>1
<1>3. BkPrefCalls(v4)'
  BY <1>1, <1>2 DEF BkPrefCalls
<1>4. BkPrefGuard(v1, v4, v7, v8, v9)
  BY DEF BkPrefNow, BkPrefInv
<1>5. BkPrefGuard(v1, v4, v7, v8, v9)'
  BY <1>1, <1>2, <1>4 DEF BkPrefGuard
<1> QED BY <1>3, <1>5 DEF BkPrefNow, BkPrefInv

\* What a step leaves its client doing.
LEMMA CallIdle == Call(BkPref!Idle)
BY DEF Call, BkPref!Idle, Changing

\* A call begins with the namespace of its key,
LEMMA BkPrefCall ==
    ASSUME BkPrefNow, NEW c \in Clients, NEW op \in {"put", "remove", "clear"}, BkPref!Call(c, op)
    PROVE  BkPrefNow'
<1>1. PICK ns, key, n :
          /\ ns \in NsNames /\ key \in KeyNames /\ BkPref!Valid(ns)
          /\ BkPref!Set(c, [BkPref!Idle EXCEPT !.op = op, !.ns = ns, !.len = n,
                             !.full = IF op = "clear" THEN <<>> ELSE BkPref!FullKey(ns, key)])
  BY DEF BkPref!Call
<1>2. PICK r : r = [BkPref!Idle EXCEPT !.op = op, !.ns = ns, !.len = n,
                                       !.full = IF op = "clear" THEN <<>> ELSE BkPref!FullKey(ns, key)]
  OBVIOUS
<1>3. DOMAIN r = {"op", "full", "ns", "at", "len", "saved", "grew"} /\ r.op = op /\ r.ns = ns
      /\ (op # "clear" => r.full = BkPref!FullKey(ns, key))
  BY <1>2 DEF BkPref!Idle
<1>4. Plain(ns) /\ key \in Seq(Letters)
  BY <1>1, NamesAreTexts DEF BkPref!Valid, Plain
<1>5. Call(r)
  BY <1>3, <1>4, SplitFullKey DEF Call, Changing
<1>6. v1 /\ v4[c].op = "idle" /\ v7' = v7 /\ BkPref!KeepFlash /\ BkPref!KeepDb
  BY DEF BkPref!Call, BkPref!At
<1> QED BY <1>1, <1>2, <1>3, <1>5, <1>6, BkPrefKeepDb, BkPrefCalm

\* and a get holds no lock.
LEMMA BkPrefGet ==
    ASSUME BkPrefNow, NEW c \in Clients, BkPref!BeginGet(c) \/ BkPref!FinishGet(c)
    PROVE  BkPrefNow'
<1>1. v1 /\ v4[c].op \in {"idle", "read"} /\ v7' = v7 /\ BkPref!KeepFlash /\ BkPref!KeepDb
  BY DEF BkPref!BeginGet, BkPref!FinishGet, BkPref!At
<1>2. CASE BkPref!FinishGet(c)
  BY <1>1, <1>2, CallIdle, BkPrefKeepDb, BkPrefCalm DEF BkPref!FinishGet, BkPref!Return, BkPref!Idle
<1>3. CASE BkPref!BeginGet(c)
  <2>1. PICK f, room :
            BkPref!Set(c, [BkPref!Idle EXCEPT !.op = "read", !.full = f, !.ns = BkPref!Split(f)[1],
                                              !.at = v2[f].len, !.len = room])
    BY <1>3 DEF BkPref!BeginGet
  <2>2. PICK r : r = [BkPref!Idle EXCEPT !.op = "read", !.full = f, !.ns = BkPref!Split(f)[1],
                                         !.at = v2[f].len, !.len = room]
    OBVIOUS
  <2>3. Call(r) /\ r.op = "read"
    BY <2>2 DEF Call, Changing, BkPref!Idle
  <2> QED BY <1>1, <2>1, <2>2, <2>3, BkPrefKeepDb, BkPrefCalm
<1> QED BY <1>2, <1>3

\* A put writes alone, behind the lock, and what it finds of the protection it
\* leaves.
LEMMA BkPrefBeginPut ==
    ASSUME BkPrefNow, NEW c \in Clients, BkPref!BeginPut(c)
    PROVE  BkPrefNow'
<1>1. /\ v1 /\ v4[c].op = "put" /\ v7 = None /\ v7' = c /\ v4' = [v4 EXCEPT ![c] = [v4[c] EXCEPT !.op = "write"]]
      /\ BkPref!KeepDb /\ v1' = v1 /\ v8' = v8 /\ v9' = v9
  BY DEF BkPref!BeginPut, BkPref!At, BkPref!Free, BkPref!Become, BkPref!Set, BkPref!KeepFlash
<1>2. DOMAIN v4 = Clients /\ (\A d \in Clients : Call(v4[d])) /\ BkPrefGuard(v1, v4, v7, v8, v9)
  BY DEF BkPrefNow, BkPrefInv, BkPrefCalls
<1>3. PICK r : r = [v4[c] EXCEPT !.op = "write"]
  OBVIOUS
<1>4. DOMAIN v4' = Clients /\ v4'[c] = r /\ \A d \in Clients \ {c} : v4'[d] = v4[d]
  BY <1>1, <1>2, <1>3
<1>5. Call(r) /\ r.op = "write"
  BY <1>1, <1>2, <1>3 DEF Call, Changing
<1>6. BkPrefCalls(v4)'
  BY <1>2, <1>4, <1>5 DEF BkPrefCalls
<1>7. BkPrefGuard(v1, v4, v7, v8, v9)'
  BY <1>1, <1>2, <1>4, <1>5, ClientsAssumption DEF BkPrefGuard
<1> QED BY <1>1, <1>6, <1>7, BkPrefKeepDb DEF BkPrefNow, BkPrefInv

\* The erasure of a sector remembers the protection it finds,
LEMMA BkPrefBeginErase ==
    ASSUME BkPrefNow, NEW c \in Clients, BkPref!BeginErase(c)
    PROVE  BkPrefNow'
<1>1. /\ v1 /\ v4[c].op = "write" /\ v7' = v7 /\ v4' = [v4 EXCEPT ![c] = [v4[c] EXCEPT !.op = "erase", !.saved = v8]]
      /\ BkPref!KeepDb /\ v1' = v1 /\ v8' = FALSE /\ v9' = v9
  BY DEF BkPref!BeginErase, BkPref!At, BkPref!Set
<1>2. DOMAIN v4 = Clients /\ (\A d \in Clients : Call(v4[d])) /\ BkPrefGuard(v1, v4, v7, v8, v9)
  BY DEF BkPrefNow, BkPrefInv, BkPrefCalls
<1>3. PICK r : r = [v4[c] EXCEPT !.op = "erase", !.saved = v8]
  OBVIOUS
<1>4. DOMAIN v4' = Clients /\ v4'[c] = r /\ \A d \in Clients \ {c} : v4'[d] = v4[d]
  BY <1>1, <1>2, <1>3
<1>5. Call(r) /\ r.op = "erase" /\ r.saved = v8
  BY <1>1, <1>2, <1>3 DEF Call, Changing
<1>6. BkPrefCalls(v4)'
  BY <1>2, <1>4, <1>5 DEF BkPrefCalls
\* nobody else erases: without protection, power failed in an erasure before
<1>7. ~v8 => v9
  BY <1>1, <1>2 DEF BkPrefGuard
<1>8. BkPrefGuard(v1, v4, v7, v8, v9)'
  BY <1>1, <1>2, <1>4, <1>5, <1>7 DEF BkPrefGuard
<1> QED BY <1>1, <1>6, <1>8, BkPrefKeepDb DEF BkPrefNow, BkPrefInv

\* puts it back, unless power failed in an erasure before,
LEMMA BkPrefFinishErase ==
    ASSUME BkPrefNow, NEW c \in Clients, BkPref!FinishErase(c)
    PROVE  BkPrefNow'
<1>1. /\ v1 /\ v4[c].op = "erase" /\ BkPref!KeepDb /\ v1' = v1 /\ v8' = (v8 \/ v4[c].saved) /\ v9' = v9
  BY DEF BkPref!FinishErase, BkPref!At
<1>2. DOMAIN v4 = Clients /\ (\A d \in Clients : Call(v4[d])) /\ BkPrefGuard(v1, v4, v7, v8, v9)
  BY DEF BkPrefNow, BkPrefInv, BkPrefCalls
<1>3. PICK r : \/ r = [v4[c] EXCEPT !.op = "write", !.saved = FALSE] /\ BkPref!Set(c, r) /\ v7' = v7
               \/ r = BkPref!Idle /\ BkPref!Set(c, r) /\ v7' = None
  <2>1. CASE BkPref!Return(c) /\ v7' = None
    BY <2>1 DEF BkPref!Return
  <2>2. CASE BkPref!Set(c, [v4[c] EXCEPT !.op = "write", !.saved = FALSE]) /\ v7' = v7
    BY <2>2
  <2> QED BY <2>1, <2>2 DEF BkPref!FinishErase
<1>4. DOMAIN v4' = Clients /\ v4'[c] = r /\ \A d \in Clients \ {c} : v4'[d] = v4[d]
  BY <1>2, <1>3 DEF BkPref!Set
<1>5. Call(r) /\ r.op \in {"write", "idle"} /\ (r.op = "write" => v7' = v7)
  <2>1. CASE r = BkPref!Idle
    BY <2>1, CallIdle DEF BkPref!Idle
  <2>2. CASE r = [v4[c] EXCEPT !.op = "write", !.saved = FALSE] /\ v7' = v7
    BY <1>1, <1>2, <2>2 DEF Call, Changing
  <2> QED BY <1>3, <2>1, <2>2
<1>6. BkPrefCalls(v4)'
  BY <1>2, <1>4, <1>5 DEF BkPrefCalls
<1>7. BkPrefGuard(v1, v4, v7, v8, v9)'
  BY <1>1, <1>2, <1>4, <1>5 DEF BkPrefGuard
<1> QED BY <1>1, <1>6, <1>7, BkPrefKeepDb DEF BkPrefNow, BkPrefInv

\* and the put ends with an entry, or without.
LEMMA BkPrefEndPut ==
    ASSUME BkPrefNow, NEW c \in Clients, BkPref!FinishPut(c) \/ BkPref!FailPut(c)
    PROVE  BkPrefNow'
<1>1. v1 /\ v4[c].op = "write" /\ v7' = None /\ v1' = v1 /\ v8' = v8 /\ v9' = v9
  BY DEF BkPref!FinishPut, BkPref!FailPut, BkPref!At, BkPref!KeepFlash
<1>2. DOMAIN v4 = Clients /\ (\A d \in Clients : Call(v4[d])) /\ BkPrefGuard(v1, v4, v7, v8, v9)
  BY DEF BkPrefNow, BkPrefInv, BkPrefCalls
<1>3. DOMAIN v4' = Clients /\ v4'[c] = BkPref!Idle
      /\ \A d \in Clients \ {c} : v4'[d] = v4[d] \/ \E b : v4'[d] = [v4[d] EXCEPT !.grew = b]
  <2>1. CASE BkPref!FailPut(c)
    BY <1>2, <2>1 DEF BkPref!FailPut, BkPref!Return, BkPref!Set
  <2>2. CASE BkPref!FinishPut(c)
    <3>1. PICK s : s = BkPref!Seen(v4[c].full, v4[c].len)
      OBVIOUS
    <3>2. v4' = [s EXCEPT ![c] = BkPref!Idle]
      BY <2>2, <3>1 DEF BkPref!FinishPut
    <3>3. DOMAIN s = Clients /\ \A d \in Clients : \E b : s[d] = [v4[d] EXCEPT !.grew = b]
      BY <3>1 DEF BkPref!Seen
    <3> QED BY <3>2, <3>3
  <2> QED BY <2>1, <2>2
<1>4. ASSUME NEW d \in Clients \ {c} PROVE Call(v4'[d]) /\ v4'[d].op = v4[d].op /\ v4'[d].saved = v4[d].saved
  BY <1>2, <1>3 DEF Call
<1>5. BkPrefCalls(v4)'
  BY <1>3, <1>4, CallIdle DEF BkPrefCalls
<1>6. BkPrefGuard(v1, v4, v7, v8, v9)'
  BY <1>1, <1>2, <1>3, <1>4 DEF BkPrefGuard, BkPref!Idle
<1>7. BkPrefAges(v2, v3, v5)'
  BY BkPrefKeepDb, BkPrefChange DEF BkPref!FinishPut, BkPref!FailPut
<1> QED BY <1>5, <1>6, <1>7 DEF BkPrefNow, BkPrefInv

\* Removing and clearing.
LEMMA BkPrefRemove ==
    ASSUME BkPrefNow, NEW c \in Clients, BkPref!BeginRemove(c) \/ BkPref!FinishRemove(c)
    PROVE  BkPrefNow'
<1>1. v1 /\ v4[c].op \in {"remove", "delete"} /\ v7' = v7 /\ BkPref!KeepFlash
  BY DEF BkPref!BeginRemove, BkPref!FinishRemove, BkPref!At
<1>2. BkPrefAges(v2, v3, v5)'
  BY BkPrefKeepDb, BkPrefChange DEF BkPref!BeginRemove, BkPref!FinishRemove
<1>3. Call(v4[c])
  BY DEF BkPrefNow, BkPrefInv, BkPrefCalls
<1>4. CASE BkPref!Return(c)
  BY <1>1, <1>2, <1>4, CallIdle, BkPrefCalm DEF BkPref!Return, BkPref!Idle
<1>5. CASE ~BkPref!Return(c)
  <2>1. PICK r : r = [v4[c] EXCEPT !.op = "delete"]
    OBVIOUS
  <2>2. BkPref!Set(c, r) /\ v4[c].op = "remove"
    BY <1>5, <2>1 DEF BkPref!BeginRemove, BkPref!FinishRemove, BkPref!At, BkPref!Become
  <2>3. Call(r) /\ r.op = "delete"
    BY <1>3, <2>1, <2>2 DEF Call, Changing
  <2> QED BY <1>1, <1>2, <2>2, <2>3, BkPrefCalm
<1> QED BY <1>4, <1>5

\* A clear looks for the next name with the prefix and deletes it.
LEMMA BkPrefClear ==
    ASSUME BkPrefNow, NEW c \in Clients, BkPref!ClearStep(c) \/ BkPref!ClearDelete(c)
    PROVE  BkPrefNow'
<1>1. v1 /\ v4[c].op \in {"clear", "wipe"} /\ v7' = v7 /\ BkPref!KeepFlash
  BY DEF BkPref!ClearStep, BkPref!ClearDelete, BkPref!At
<1>2. BkPrefAges(v2, v3, v5)'
  BY BkPrefKeepDb, BkPrefChange DEF BkPref!ClearStep, BkPref!ClearDelete
<1>3. Call(v4[c]) /\ Plain(v4[c].ns)
  BY <1>1 DEF BkPrefNow, BkPrefInv, BkPrefCalls, Call
<1>4. PICK r : /\ BkPref!Set(c, r)
               /\ \/ r = BkPref!Idle
                  \/ \E f \in BkPref!FullKeys : BkPref!Matches(f, v4[c].ns) /\ r = [v4[c] EXCEPT !.op = "wipe", !.full = f]
                  \/ \E a : v4[c].op = "clear" /\ r = [v4[c] EXCEPT !.at = a]
                  \/ r = [v4[c] EXCEPT !.op = "clear", !.at = 0]
  <2>1. CASE BkPref!ClearDelete(c)
    <3>1. BkPref!Set(c, BkPref!Idle) \/ BkPref!Set(c, [v4[c] EXCEPT !.op = "clear", !.at = 0])
      BY <2>1 DEF BkPref!ClearDelete, BkPref!Return
    <3> QED BY <3>1
  <2>2. CASE BkPref!ClearStep(c) /\ BkPref!Return(c)
    BY <2>2 DEF BkPref!Return
  <2>3. CASE BkPref!ClearStep(c) /\ ~BkPref!Return(c)
    <3>1. PICK next \in BkPref!Here :
              IF BkPref!Matches(next, v4[c].ns) THEN BkPref!Set(c, [v4[c] EXCEPT !.op = "wipe", !.full = next])
              ELSE BkPref!Set(c, [v4[c] EXCEPT !.at = v2[next].age])
      BY <2>3 DEF BkPref!ClearStep
    <3>2. next \in BkPref!FullKeys /\ v4[c].op = "clear"
      BY <2>3 DEF BkPref!ClearStep, BkPref!At, BkPref!Here
    <3>3. CASE BkPref!Matches(next, v4[c].ns)
      BY <3>1, <3>2, <3>3
    <3>4. CASE ~BkPref!Matches(next, v4[c].ns)
      BY <3>1, <3>2, <3>4
    <3> QED BY <3>3, <3>4
  <2> QED BY <2>1, <2>2, <2>3
<1>5. Call(r) /\ r.op \in {"idle", "wipe", "clear"}
  <2>1. CASE r = BkPref!Idle
    BY <2>1, CallIdle DEF BkPref!Idle
  <2>2. CASE r = [v4[c] EXCEPT !.op = "clear", !.at = 0]
    BY <1>3, <2>2 DEF Call, Changing
  <2>3. ASSUME NEW a, v4[c].op = "clear", r = [v4[c] EXCEPT !.at = a] PROVE Call(r) /\ r.op = "clear"
    BY <1>3, <2>3 DEF Call, Changing
  <2>4. ASSUME NEW f \in BkPref!FullKeys, BkPref!Matches(f, v4[c].ns), r = [v4[c] EXCEPT !.op = "wipe", !.full = f]
        PROVE  Call(r) /\ r.op = "wipe"
    <3>1. r.op = "wipe" /\ r.full = f /\ r.ns = v4[c].ns /\ DOMAIN r = DOMAIN v4[c]
      BY <1>3, <2>4 DEF Call
    <3>2. BkPref!Split(f)[1] = v4[c].ns
      BY <1>3, <2>4, SplitMatching
    <3> QED BY <1>3, <3>1, <3>2 DEF Call, Changing
  <2> QED BY <1>4, <2>1, <2>2, <2>3, <2>4
<1> QED BY <1>1, <1>2, <1>4, <1>5, BkPrefCalm

\* A loss of power ends all calls; one in an erasure is the cut.
LEMMA BkPrefPower ==
    ASSUME BkPrefNow, BkPref!Initialise \/ BkPref!PowerFails
    PROVE  BkPrefNow'
<1>1. CASE BkPref!Initialise
  BY <1>1 DEF BkPref!Initialise, BkPrefNow, BkPrefInv, BkPrefCalls, BkPrefAges, BkPrefGuard
<1>2. CASE BkPref!PowerFails
  <2>1. v4' = [c \in Clients |-> BkPref!Idle] /\ v5' = v5 /\ v8' = v8 /\ ~v1'
    BY <1>2 DEF BkPref!PowerFails
  <2>2. v9' = (v9 \/ \E c \in Clients : v1 /\ v4[c].op = "erase")
    BY <1>2 DEF BkPref!PowerFails, BkPref!At
  <2>3. BkPrefCalls(v4)'
    BY <2>1, CallIdle DEF BkPrefCalls
  <2>4. BkPrefGuard(v1, v4, v7, v8, v9)'
    BY <2>1, <2>2 DEF BkPrefNow, BkPrefInv, BkPrefGuard, BkPref!Idle
  <2>5. CASE v2' = v2 /\ v3' = v3
    BY <2>1, <2>3, <2>4, <2>5, BkPrefKeepDb DEF BkPrefNow, BkPrefInv, BkPref!KeepDb
  <2>6. CASE ~(v2' = v2 /\ v3' = v3)
    <3>1. PICK c \in Clients : BkPref!Change(v4[c].full, BkPref!At(c, "write"), v4[c].len)
      BY <1>2, <2>6 DEF BkPref!PowerFails
    <3> QED BY <2>1, <2>3, <2>4, <3>1, BkPrefChange DEF BkPrefNow, BkPrefInv
  <2> QED BY <2>5, <2>6
<1> QED BY <1>1, <1>2

\* So all steps keep what is so of the Beken preferences,
LEMMA BkPrefStep ==
    ASSUME BkPrefNow, BkPref!Next
    PROVE  BkPrefNow'
BY BkPrefPower, BkPrefCall, BkPrefGet, BkPrefBeginPut, BkPrefBeginErase, BkPrefFinishErase, BkPrefEndPut,
   BkPrefRemove, BkPrefClear DEF BkPref!Next

\* which is so at first.
LEMMA BkPrefBegins ==
    ASSUME BkPref!Init
    PROVE  BkPrefNow
<1>1. BkPrefCalls(v4)
  BY CallIdle DEF BkPref!Init, BkPrefCalls
<1> QED BY <1>1 DEF BkPref!Init, BkPrefNow, BkPrefInv, BkPrefAges, BkPrefGuard, BkPref!Idle

\* Only a call changes an entry, and one of its own namespace.
LEMMA BkPrefOwn ==
    ASSUME BkPrefNow, BkPref!Next
    PROVE  BkPref!OnlyOwn
<1> SUFFICES ASSUME NEW f \in BkPref!FullKeys, v2'[f] # v2[f]
             PROVE  \E c \in Clients : v4[c].op # "idle" /\ v4[c].ns = BkPref!Split(f)[1]
  BY DEF BkPref!OnlyOwn
<1>1. PICK c \in Clients : /\ v4[c].op \in {"write", "delete", "wipe"}
                           /\ \/ BkPref!Change(v4[c].full, TRUE, v4[c].len)
                              \/ BkPref!Change(v4[c].full, FALSE, 0)
                              \/ BkPref!Change(v4[c].full, BkPref!At(c, "write"), v4[c].len)
  <2>1. CASE BkPref!PowerFails
    <3>1. PICK c \in Clients : v4[c].op \in {"write", "delete", "wipe"} /\ BkPref!Change(v4[c].full, BkPref!At(c, "write"), v4[c].len)
      BY <2>1 DEF BkPref!PowerFails
    <3> QED BY <3>1
  <2>2. CASE ~BkPref!PowerFails
    <3>1. v2' # v2
      OBVIOUS
    <3>2. PICK c \in Clients : BkPref!FinishPut(c) \/ BkPref!FinishRemove(c) \/ BkPref!ClearDelete(c)
      BY <2>2, <3>1 DEF BkPref!Next, BkPref!Initialise, BkPref!Call, BkPref!BeginGet, BkPref!FinishGet,
           BkPref!BeginPut,
         BkPref!BeginErase, BkPref!FinishErase, BkPref!FailPut, BkPref!BeginRemove, BkPref!ClearStep, BkPref!KeepDb
    <3>3. CASE BkPref!FinishPut(c)
      BY <3>3 DEF BkPref!FinishPut, BkPref!At
    <3>4. CASE BkPref!FinishRemove(c)
      BY <3>1, <3>4 DEF BkPref!FinishRemove, BkPref!At, BkPref!KeepDb
    <3>5. CASE BkPref!ClearDelete(c)
      BY <3>1, <3>5 DEF BkPref!ClearDelete, BkPref!At, BkPref!KeepDb
    <3> QED BY <3>2, <3>3, <3>4, <3>5
  <2> QED BY <2>1, <2>2
<1>2. f = v4[c].full
  BY <1>1 DEF BkPref!Change, BkPrefNow, BkPrefInv, BkPrefAges
<1> QED BY <1>1, <1>2 DEF BkPrefNow, BkPrefInv, BkPrefCalls, Call, Changing

----------------------------------------------------------------------------
(* Both stations: what is under way in a queue of events.                     *)

\* an event of L is under way; one of K is behind, and one of L follows it
Has(q, L) == \E i \in DOMAIN q : q[i] \in L
Followed(q, K, L) == \A i \in DOMAIN q : q[i] \in K => \E j \in DOMAIN q : j > i /\ q[j] \in L

\* what is put behind a queue is under way, too,
LEMMA HasJoined ==
    ASSUME NEW T, NEW q \in Seq(T), NEW r \in Seq(T), NEW L
    PROVE  Has(q \o r, L) <=> Has(q, L) \/ Has(r, L)
<1>1. PICK s : s = q \o r
  OBVIOUS
<1>2. /\ s \in Seq(T) /\ Len(s) = Len(q) + Len(r)
      /\ \A i \in 1..Len(q) : s[i] = q[i]
      /\ \A i \in 1..Len(r) : s[Len(q) + i] = r[i]
  BY ONLY <1>1, Joined, q \in Seq(T), r \in Seq(T)
<1>3. ASSUME Has(q, L) PROVE Has(s, L)
  BY <1>2, <1>3 DEF Has
<1>4. ASSUME Has(r, L) PROVE Has(s, L)
  <2>1. PICK i \in DOMAIN r : r[i] \in L
    BY <1>4 DEF Has
  <2>2. i \in 1..Len(r) /\ Len(q) \in Nat /\ Len(r) \in Nat /\ DOMAIN s = 1..(Len(q) + Len(r))
    BY <1>2, <2>1
  <2>3. Len(q) + i \in DOMAIN s /\ s[Len(q) + i] \in L
    BY ONLY <1>2, <2>1, <2>2
  <2> QED BY <2>3 DEF Has
<1>5. ASSUME Has(s, L), ~Has(q, L) PROVE Has(r, L)
  <2>1. PICK i \in DOMAIN s : s[i] \in L
    BY <1>5 DEF Has
  <2>2. i \in 1..Len(s) /\ i \notin 1..Len(q)
    BY <1>2, <1>5, <2>1 DEF Has
  <2>3. i - Len(q) \in 1..Len(r) /\ i = Len(q) + (i - Len(q))
    BY <1>2, <2>2
  <2>4. r[i - Len(q)] = s[i]
    BY <1>2, <2>3
  <2> QED BY <2>1, <2>3, <2>4 DEF Has
<1> QED BY <1>1, <1>3, <1>4, <1>5

\* and follows all that was under way,
LEMMA FollowedJoined ==
    ASSUME NEW T, NEW q \in Seq(T), NEW r \in Seq(T), NEW K, NEW L,
           ~Has(r, K), Followed(q, K, L) \/ Has(r, L)
    PROVE  Followed(q \o r, K, L)
<1>1. PICK s : s = q \o r
  OBVIOUS
<1>2. /\ s \in Seq(T) /\ Len(s) = Len(q) + Len(r)
      /\ \A i \in 1..Len(q) : s[i] = q[i]
      /\ \A i \in 1..Len(r) : s[Len(q) + i] = r[i]
  BY ONLY <1>1, Joined, q \in Seq(T), r \in Seq(T)
<1> SUFFICES ASSUME NEW i \in DOMAIN s, s[i] \in K
             PROVE  \E j \in DOMAIN s : j > i /\ s[j] \in L
  BY <1>1 DEF Followed
<1>3. i \in 1..Len(q)
  <2> SUFFICES ASSUME i \notin 1..Len(q) PROVE FALSE
    OBVIOUS
  <2>1. i - Len(q) \in 1..Len(r) /\ i = Len(q) + (i - Len(q))
    BY <1>2
  <2>2. r[i - Len(q)] = s[i]
    BY <1>2, <2>1
  <2> QED BY <2>1, <2>2 DEF Has
<1>4. CASE Has(r, L)
  <2>1. PICK j \in DOMAIN r : r[j] \in L
    BY <1>4 DEF Has
  <2>2. j \in 1..Len(r) /\ Len(q) \in Nat /\ Len(r) \in Nat /\ DOMAIN s = 1..(Len(q) + Len(r))
    BY <1>2, <2>1
  <2>3. Len(q) + j \in DOMAIN s /\ s[Len(q) + j] \in L /\ Len(q) + j > i
    BY ONLY <1>2, <1>3, <2>1, <2>2
  <2> QED BY <2>3
<1>5. CASE Followed(q, K, L)
  <2>1. PICK j \in DOMAIN q : j > i /\ q[j] \in L
    BY <1>2, <1>3, <1>5 DEF Followed
  <2>2. DOMAIN q = 1..Len(q) /\ Len(q) \in Nat /\ Len(r) \in Nat /\ DOMAIN s = 1..(Len(q) + Len(r))
    BY <1>2
  <2>3. j \in DOMAIN s /\ s[j] = q[j]
    BY ONLY <1>2, <2>1, <2>2
  <2> QED BY <2>1, <2>3
<1> QED BY <1>4, <1>5

\* while what is taken off its front no longer is.
LEMMA Taken ==
    ASSUME NEW T, NEW q \in Seq(T), q # <<>>, NEW K, NEW L
    PROVE  /\ Tail(q) \in Seq(T) /\ Head(q) \in T
           /\ Has(q, L) <=> Head(q) \in L \/ Has(Tail(q), L)
           /\ Followed(q, K, L) => Followed(Tail(q), K, L)
           /\ Followed(q, K, L) /\ Head(q) \in K => Has(Tail(q), L)
<1>1. PICK s : s = Tail(q)
  OBVIOUS
<1>2. /\ s \in Seq(T) /\ Head(q) = q[1] /\ 1 \in DOMAIN q /\ DOMAIN q \subseteq Nat
      /\ \A i \in DOMAIN s : i \in Nat /\ i + 1 \in DOMAIN q /\ s[i] = q[i + 1]
      /\ \A i \in DOMAIN q : i # 1 => i - 1 \in DOMAIN s /\ s[i - 1] = q[i] /\ i > 1
  BY <1>1
<1>3. Has(q, L) <=> q[1] \in L \/ Has(s, L)
  <2>1. ASSUME Has(s, L) PROVE Has(q, L)
    BY <1>2, <2>1 DEF Has
  <2>2. ASSUME Has(q, L), q[1] \notin L PROVE Has(s, L)
    BY <1>2, <2>2 DEF Has
  <2> QED BY <1>2, <2>1, <2>2 DEF Has
<1>4. ASSUME Followed(q, K, L), NEW i \in DOMAIN s, s[i] \in K
      PROVE  \E j \in DOMAIN s : j > i /\ s[j] \in L
  <2>1. PICK j \in DOMAIN q : j > i + 1 /\ q[j] \in L
    BY <1>2, <1>4 DEF Followed
  <2>2. j - 1 \in DOMAIN s /\ s[j - 1] = q[j] /\ j - 1 > i
    BY <1>2, <2>1
  <2> QED BY <2>1, <2>2
<1>5. Followed(q, K, L) => Followed(s, K, L)
  BY <1>4 DEF Followed
<1>6. ASSUME Followed(q, K, L), q[1] \in K PROVE Has(s, L)
  <2>1. PICK j \in DOMAIN q : j > 1 /\ q[j] \in L
    BY <1>2, <1>6 DEF Followed
  <2>2. j - 1 \in DOMAIN s /\ s[j - 1] = q[j]
    BY <1>2, <2>1
  <2> QED BY <2>1, <2>2 DEF Has
<1>7. Head(q) \in T
  OBVIOUS
<1> QED BY <1>1, <1>2, <1>3, <1>5, <1>6, <1>7

\* short queues
LEMMA Few ==
    ASSUME NEW T, NEW x \in T, NEW y \in T, NEW L
    PROVE  /\ <<>> \in Seq(T) /\ <<x>> \in Seq(T) /\ <<x, y>> \in Seq(T)
           /\ ~Has(<<>>, L) /\ (Has(<<x>>, L) <=> x \in L) /\ (Has(<<x, y>>, L) <=> x \in L \/ y \in L)
<1>1. <<>> \in Seq(T) /\ <<x>> \in Seq(T) /\ <<x, y>> \in Seq(T)
  OBVIOUS
<1>2. ~Has(<<>>, L)
  BY DEF Has
<1>3. Has(<<x>>, L) <=> x \in L
  BY DEF Has
<1>4. Has(<<x, y>>, L) <=> x \in L \/ y \in L
  BY DEF Has
<1> QED BY <1>1, <1>2, <1>3, <1>4

\* What the driver has told, and is about to tell, of its link and address.
Losses == {"StaDisconnected", "LostIp"}
RadioFields == {"on", "link", "ip", "scan", "ps"}
AirInv(r, q) ==
    /\ q \in Seq(BkWifi!Events) /\ DOMAIN r = RadioFields
    /\ r.ip => r.link = "up"
    /\ r.ip \/ Followed(q, {"GotIp"}, Losses)
    /\ r.link = "up" \/ Followed(q, {"StaConnected", "GotIp"}, {"StaDisconnected"})

\* what the radio does, and the events it tells with it
Rests(r, s, e)  == s.link = r.link /\ s.ip = r.ip /\ e \in {<<>>, <<"ScanDone">>}
Drops(r, s, e)  == /\ s.link # "up" /\ ~s.ip
                   /\ IF r.link = "down" THEN e = <<>> ELSE e = <<"StaDisconnected">> \/ e = <<"LostIp", "StaDisconnected">>
Joins(r, s, e)  == r.link = "joining" /\ s.link = "up" /\ s.ip = r.ip /\ e = <<"StaConnected">>
Leases(r, s, e) == r.link = "up" /\ s.link = "up" /\ s.ip /\ e = <<"GotIp">>
Loses(r, s, e)  == s.link = r.link /\ ~s.ip /\ e = <<"LostIp">>
Moves(r, s, e)  == /\ DOMAIN s = RadioFields
                   /\ Rests(r, s, e) \/ Drops(r, s, e) \/ Joins(r, s, e) \/ Leases(r, s, e) \/ Loses(r, s, e)

\* what was so of the radio is still so, or word of its end is under way
AirKeeps(r, q, s, p) ==
    /\ \A L : Has(q, L) => Has(p, L)
    /\ r.ip => s.ip \/ Has(p, Losses)
    /\ r.link = "up" => s.link = "up" \/ Has(p, {"StaDisconnected"})
    /\ r.link = "joining" => s.link = "joining" \/ Has(p, {"StaConnected"}) \/ Has(p, {"StaDisconnected"})

\* the events that go with a move keep the queue and the radio in step,
LEMMA AirMoves ==
    ASSUME NEW r, NEW q, AirInv(r, q), NEW s, NEW e, Moves(r, s, e), NEW p, p = q \o e
    PROVE  AirInv(s, p) /\ AirKeeps(r, q, s, p)
<1> DEFINE Gain == {"StaConnected", "GotIp"}
<1>1. q \in Seq(BkWifi!Events) /\ DOMAIN r = RadioFields /\ DOMAIN s = RadioFields
  BY DEF AirInv, Moves
<1>2. /\ e \in Seq(BkWifi!Events)
      /\ \A L : /\ e = <<>> => ~Has(e, L)
                /\ e = <<"ScanDone">> => (Has(e, L) <=> "ScanDone" \in L)
                /\ e = <<"StaDisconnected">> => (Has(e, L) <=> "StaDisconnected" \in L)
                /\ e = <<"LostIp", "StaDisconnected">> => (Has(e, L) <=> "LostIp" \in L \/ "StaDisconnected" \in L)
                /\ e = <<"StaConnected">> => (Has(e, L) <=> "StaConnected" \in L)
                /\ e = <<"GotIp">> => (Has(e, L) <=> "GotIp" \in L)
                /\ e = <<"LostIp">> => (Has(e, L) <=> "LostIp" \in L)
  <2>1. \A L : \A x, y \in BkWifi!Events :
           /\ <<>> \in Seq(BkWifi!Events) /\ <<x>> \in Seq(BkWifi!Events) /\ <<x, y>> \in Seq(BkWifi!Events)
           /\ ~Has(<<>>, L) /\ (Has(<<x>>, L) <=> x \in L) /\ (Has(<<x, y>>, L) <=> x \in L \/ y \in L)
    BY Few, Zenon
  <2>2. /\ "ScanDone" \in BkWifi!Events /\ "StaDisconnected" \in BkWifi!Events /\ "LostIp" \in BkWifi!Events
        /\ "StaConnected" \in BkWifi!Events /\ "GotIp" \in BkWifi!Events
    BY DEF BkWifi!Events
  <2>3. \/ e = <<>> \/ e = <<"ScanDone">> \/ e = <<"StaDisconnected">> \/ e = <<"LostIp", "StaDisconnected">>
        \/ e = <<"StaConnected">> \/ e = <<"GotIp">> \/ e = <<"LostIp">>
    BY DEF Moves, Rests, Drops, Joins, Leases, Loses
  <2>4. <<"ScanDone">> \in Seq(BkWifi!Events) /\ \A L : Has(<<"ScanDone">>, L) <=> "ScanDone" \in L
    BY ONLY <2>1, <2>2, Zenon
  <2>5. <<"StaDisconnected">> \in Seq(BkWifi!Events) /\ \A L : Has(<<"StaDisconnected">>, L) <=> "StaDisconnected" \in L
    BY ONLY <2>1, <2>2, Zenon
  <2>6. <<"StaConnected">> \in Seq(BkWifi!Events) /\ \A L : Has(<<"StaConnected">>, L) <=> "StaConnected" \in L
    BY ONLY <2>1, <2>2, Zenon
  <2>7. <<"GotIp">> \in Seq(BkWifi!Events) /\ \A L : Has(<<"GotIp">>, L) <=> "GotIp" \in L
    BY ONLY <2>1, <2>2, Zenon
  <2>8. <<"LostIp">> \in Seq(BkWifi!Events) /\ \A L : Has(<<"LostIp">>, L) <=> "LostIp" \in L
    BY ONLY <2>1, <2>2, Zenon
  <2>9. /\ <<"LostIp", "StaDisconnected">> \in Seq(BkWifi!Events)
        /\ \A L : Has(<<"LostIp", "StaDisconnected">>, L) <=> "LostIp" \in L \/ "StaDisconnected" \in L
    BY ONLY <2>1, <2>2, Zenon
  <2>10. <<>> \in Seq(BkWifi!Events) /\ \A L : ~Has(<<>>, L)
    BY ONLY <2>1, <2>2, Zenon
  <2> QED BY ONLY <2>3, <2>4, <2>5, <2>6, <2>7, <2>8, <2>9, <2>10, Zenon
<1>3. p \in Seq(BkWifi!Events)
  BY ONLY <1>1, <1>2, Joined, p = q \o e
<1>4. \A L : Has(p, L) <=> Has(q, L) \/ Has(e, L)
  BY ONLY <1>1, <1>2, HasJoined, p = q \o e
<1>5. \A K, L : ~Has(e, K) /\ (Followed(q, K, L) \/ Has(e, L)) => Followed(p, K, L)
  BY ONLY <1>1, <1>2, FollowedJoined, p = q \o e
<1>6. /\ r.ip => r.link = "up"
      /\ r.ip \/ Followed(q, {"GotIp"}, Losses)
      /\ r.link = "up" \/ Followed(q, Gain, {"StaDisconnected"})
  BY DEF AirInv
<1> HIDE DEF Gain
<1>7. /\ s.ip => s.link = "up"
      /\ s.ip \/ Followed(p, {"GotIp"}, Losses)
      /\ s.link = "up" \/ Followed(p, Gain, {"StaDisconnected"})
      /\ AirKeeps(r, q, s, p)
  <2>1. CASE Rests(r, s, e)
    BY ONLY <2>1, <1>2, <1>4, <1>5, <1>6 DEF Rests, AirKeeps, Losses, Gain
  <2>2. CASE Drops(r, s, e)
    BY ONLY <2>2, <1>2, <1>4, <1>5, <1>6 DEF Drops, AirKeeps, Losses, Gain
  <2>3. CASE Joins(r, s, e)
    BY ONLY <2>3, <1>2, <1>4, <1>5, <1>6 DEF Joins, AirKeeps, Losses, Gain
  <2>4. CASE Leases(r, s, e)
    BY ONLY <2>4, <1>2, <1>4, <1>5, <1>6 DEF Leases, AirKeeps, Losses, Gain
  <2>5. CASE Loses(r, s, e)
    BY ONLY <2>5, <1>2, <1>4, <1>5, <1>6 DEF Loses, AirKeeps, Losses, Gain
  <2> QED BY <2>1, <2>2, <2>3, <2>4, <2>5 DEF Moves
<1> QED BY <1>1, <1>3, <1>7 DEF AirInv, Gain

\* as does an event that is handled.
LEMMA AirTaken ==
    ASSUME NEW r, NEW q, AirInv(r, q), q # <<>>
    PROVE  /\ AirInv(r, Tail(q)) /\ Head(q) \in BkWifi!Events
           /\ \A L : Has(q, L) => Head(q) \in L \/ Has(Tail(q), L)
           /\ Head(q) = "GotIp" => r.ip \/ Has(Tail(q), Losses)
           /\ Head(q) \in {"StaConnected", "GotIp"} => r.link = "up" \/ Has(Tail(q), {"StaDisconnected"})
<1>1. q \in Seq(BkWifi!Events)
  BY DEF AirInv
<1>2. \A K, L : /\ Tail(q) \in Seq(BkWifi!Events) /\ Head(q) \in BkWifi!Events
                /\ Has(q, L) <=> Head(q) \in L \/ Has(Tail(q), L)
                /\ Followed(q, K, L) => Followed(Tail(q), K, L)
                /\ Followed(q, K, L) /\ Head(q) \in K => Has(Tail(q), L)
  BY ONLY <1>1, q # <<>>, Taken, Zenon
<1> QED BY <1>2 DEF AirInv

----------------------------------------------------------------------------
(* The Beken station.                                                         *)
BkWifiInv(radio, loop, st, pc, task, handler, ip, guessed) ==
    /\ AirInv(radio, loop)
    /\ ip => handler /\ (radio.ip \/ Has(loop, Losses))
    /\ st = "connected" => radio.link = "up" \/ Has(loop, {"StaDisconnected"}) \/ guessed
    /\ st = "connecting" => \/ radio.link = "joining" \/ pc = "join"
                            \/ Has(loop, {"StaConnected"}) \/ Has(loop, {"StaDisconnected"})
    /\ st = "scanning" => radio.scan \/ Has(loop, {"ScanDone"}) \/ task = "settle" \/ pc = "scan"
BkWifiNow == BkWifiInv(v1, v2, v5, v7, v9, v10, v11, v13)

\* It is so at first,
LEMMA BkWifiBegins == ASSUME BkWifi!Init PROVE BkWifiNow
<1>1. v2 \in Seq(BkWifi!Events) /\ \A K, L : Followed(v2, K, L)
  BY DEF BkWifi!Init, Followed
<1> QED BY <1>1 DEF BkWifi!Init, BkWifiNow, BkWifiInv, AirInv, RadioFields

\* a station that does nothing tells nothing
LEMMA AirRests ==
    ASSUME NEW r, NEW q, AirInv(r, q), NEW s, DOMAIN s = RadioFields, s.link = r.link, s.ip = r.ip
    PROVE  AirInv(s, q) /\ AirKeeps(r, q, s, q)
BY DEF AirInv, AirKeeps

\* the driver's calls, and what the air does
LEMMA RadioDrops ==
    ASSUME AirInv(v1, v2), BkWifi!Leave \/ BkWifi!Stop \/ BkWifi!Join \/ BkWifi!LinkFails
    PROVE  /\ AirInv(v1, v2)' /\ AirKeeps(v1, v2, v1', v2') /\ v1'.link # "up"
           /\ BkWifi!Join => v1'.link = "joining"
           /\ ~BkWifi!Stop => v1'.scan = v1.scan
<1>1. DOMAIN v1 = RadioFields
  BY DEF AirInv
<1>2. DOMAIN v1' = RadioFields /\ v1'.link # "up" /\ ~v1'.ip
      /\ (BkWifi!Join => v1'.link = "joining") /\ (~BkWifi!Stop => v1'.scan = v1.scan)
  <2>1. ASSUME BkWifi!Leave \/ BkWifi!LinkFails
        PROVE  DOMAIN v1' = RadioFields /\ v1'.link = "down" /\ ~v1'.ip /\ v1'.scan = v1.scan
    <3>1. v1' = [v1 EXCEPT !.link = "down", !.ip = FALSE]
      BY <2>1 DEF BkWifi!Leave, BkWifi!LinkFails, BkWifi!Down, BkWifi!Air
    <3> QED BY <1>1, <3>1 DEF RadioFields
  <2>2. ASSUME BkWifi!Stop PROVE DOMAIN v1' = RadioFields /\ v1'.link = "down" /\ ~v1'.ip
    BY <1>1, <2>2 DEF BkWifi!Stop, BkWifi!Down, RadioFields
  <2>3. ASSUME BkWifi!Join
        PROVE  DOMAIN v1' = RadioFields /\ v1'.link = "joining" /\ ~v1'.ip /\ v1'.scan = v1.scan
    BY <1>1, <2>3 DEF BkWifi!Join, RadioFields
  <2> QED BY <2>1, <2>2, <2>3
<1>3. PICK e : v2' = v2 \o e /\ e = BkWifi!Farewell(v1)
  <2>1. CASE BkWifi!LinkFails
    BY <2>1 DEF BkWifi!LinkFails, BkWifi!Air, BkWifi!Post, BkWifi!Farewell
  <2>2. CASE ~BkWifi!LinkFails
    BY <2>2 DEF BkWifi!Leave, BkWifi!Stop, BkWifi!Join, BkWifi!Post
  <2> QED BY <2>1, <2>2
<1>4. Moves(v1, v1', e)
  BY <1>2, <1>3 DEF Moves, Drops, BkWifi!Farewell
<1> QED BY <1>2, <1>3, <1>4, AirMoves

\* A scan that ends or is ended tells of it,
LEMMA RadioScans ==
    ASSUME AirInv(v1, v2), BkWifi!Scan \/ BkWifi!AbortScan \/ BkWifi!ScanEnds
    PROVE  /\ AirInv(v1, v2)' /\ AirKeeps(v1, v2, v1', v2')
           /\ BkWifi!Scan => v1'.scan
           /\ v1.scan => v1'.scan \/ Has(v2', {"ScanDone"})
<1>1. DOMAIN v1 = RadioFields
  BY DEF AirInv
<1>2. CASE BkWifi!Scan
  <2>1. DOMAIN v1' = RadioFields /\ v1'.link = v1.link /\ v1'.ip = v1.ip /\ v1'.scan /\ v2' = v2
    BY <1>1, <1>2 DEF BkWifi!Scan, RadioFields
  <2> QED BY <2>1, AirRests
<1>3. CASE ~BkWifi!Scan
  <2>1. DOMAIN v1' = RadioFields /\ v1'.link = v1.link /\ v1'.ip = v1.ip
    BY <1>1, <1>3 DEF BkWifi!AbortScan, BkWifi!ScanEnds, BkWifi!Air, RadioFields
  <2>2. PICK e : v2' = v2 \o e /\ (e = IF v1.scan THEN <<"ScanDone">> ELSE <<>>)
    BY <1>3 DEF BkWifi!AbortScan, BkWifi!ScanEnds, BkWifi!Air, BkWifi!Post
  <2>3. Moves(v1, v1', e)
    BY <2>1, <2>2 DEF Moves, Rests
  <2>4. AirInv(v1, v2)' /\ AirKeeps(v1, v2, v1', v2')
    BY <2>2, <2>3, AirMoves
  <2>5. v1.scan => Has(v2', {"ScanDone"})
    <3> SUFFICES ASSUME v1.scan PROVE Has(v2', {"ScanDone"})
      OBVIOUS
    <3>1. v2 \in Seq(BkWifi!Events) /\ v2' = v2 \o <<"ScanDone">> /\ "ScanDone" \in BkWifi!Events
      BY <2>2 DEF AirInv, BkWifi!Events
    <3>2. \A x \in BkWifi!Events : <<x>> \in Seq(BkWifi!Events) /\ Has(<<x>>, {x})
      BY Few
    <3>3. Has(v2 \o <<"ScanDone">>, {"ScanDone"})
      BY ONLY <3>1, <3>2, HasJoined, Zenon
    <3> QED BY <3>1, <3>3
  <2> QED BY <1>3, <2>4, <2>5
<1> QED BY <1>2, <1>3

\* and so do an association and a lease.
LEMMA RadioAir ==
    ASSUME AirInv(v1, v2), BkWifi!Associate \/ BkWifi!GetIp
    PROVE  AirInv(v1, v2)' /\ AirKeeps(v1, v2, v1', v2') /\ v1'.scan = v1.scan
<1>1. DOMAIN v1 = RadioFields /\ (v1.ip => v1.link = "up")
  BY DEF AirInv
<1>2. CASE BkWifi!Associate
  <2>1. /\ DOMAIN v1' = RadioFields /\ v1.link = "joining" /\ v1'.link = "up" /\ v1'.ip = v1.ip
        /\ v2' = v2 \o <<"StaConnected">> /\ v1'.scan = v1.scan
    BY <1>1, <1>2 DEF BkWifi!Associate, BkWifi!Air, BkWifi!Post, RadioFields
  <2>2. Moves(v1, v1', <<"StaConnected">>)
    BY <2>1 DEF Moves, Joins
  <2> QED BY <2>1, <2>2, AirMoves
<1>3. CASE BkWifi!GetIp
  <2>1. /\ DOMAIN v1' = RadioFields /\ v1.link = "up" /\ v1'.link = "up" /\ v1'.ip
        /\ v2' = v2 \o <<"GotIp">> /\ v1'.scan = v1.scan
    BY <1>1, <1>3 DEF BkWifi!GetIp, BkWifi!Air, BkWifi!Post, RadioFields
  <2>2. Moves(v1, v1', <<"GotIp">>)
    BY <2>1 DEF Moves, Leases
  <2> QED BY <2>1, <2>2, AirMoves
<1> QED BY <1>2, <1>3

\* the Beken station's callers,
LEMMA BkWifiCalls ==
    ASSUME BkWifiNow, BkWifi!BeginScan \/ BkWifi!FinishScan \/ BkWifi!StopScan \/ BkWifi!BeginConnect
                      \/ BkWifi!FinishConnect \/ BkWifi!Disconnect \/ BkWifi!SetPowerSave
    PROVE  BkWifiNow'
<1>1. AirInv(v1, v2) /\ v9' = v9 /\ v10' = v10 /\ v11' = v11
  BY DEF BkWifiNow, BkWifiInv, BkWifi!BeginScan, BkWifi!FinishScan, BkWifi!StopScan, BkWifi!BeginConnect,
       BkWifi!FinishConnect,
     BkWifi!Disconnect, BkWifi!SetPowerSave, BkWifi!ApiFrame
<1>2. CASE BkWifi!BeginScan \/ BkWifi!BeginConnect
  BY <1>1, <1>2 DEF BkWifi!BeginScan, BkWifi!BeginConnect, BkWifi!Goto, BkWifi!Become, BkWifiNow, BkWifiInv
<1>3. CASE BkWifi!FinishScan
  <2>1. v7 = "scan" /\ v7' = "idle"
    BY <1>3 DEF BkWifi!FinishScan, BkWifi!Goto
  <2>2. CASE BkWifi!Scan /\ BkWifi!StateKept
    <3>1. AirInv(v1, v2)' /\ AirKeeps(v1, v2, v1', v2') /\ v1'.scan
      BY <1>1, <2>2, RadioScans
    <3> QED BY <1>1, <2>1, <2>2, <3>1 DEF AirKeeps, BkWifi!StateKept, BkWifiNow, BkWifiInv
  <2>3. CASE BkWifi!EndScan /\ v1' = v1 /\ v2' = v2
    BY <1>1, <2>1, <2>3 DEF BkWifi!EndScan, BkWifiNow, BkWifiInv
  <2> QED BY <1>3, <2>2, <2>3 DEF BkWifi!FinishScan
<1>4. CASE BkWifi!StopScan
  <2>1. v7' = v7 /\ BkWifi!AbortScan /\ BkWifi!EndScanIfScanning
    BY <1>4 DEF BkWifi!StopScan, BkWifi!Goto
  <2>2. AirInv(v1, v2)' /\ AirKeeps(v1, v2, v1', v2') /\ (v1.scan => v1'.scan \/ Has(v2', {"ScanDone"}))
    BY <1>1, <2>1, RadioScans
  <2> QED BY <1>1, <2>1, <2>2 DEF BkWifi!EndScanIfScanning, BkWifi!EndScan, BkWifi!StateKept, AirKeeps,
       BkWifiNow, BkWifiInv
<1>5. CASE BkWifi!FinishConnect
  <2>1. v7 = "join" /\ v7' = "idle"
    BY <1>5 DEF BkWifi!FinishConnect, BkWifi!Goto
  <2>2. CASE BkWifi!Join /\ BkWifi!StateKept
    <3>1. AirInv(v1, v2)' /\ AirKeeps(v1, v2, v1', v2') /\ v1'.link = "joining" /\ v1'.scan = v1.scan
      <4>1. ~BkWifi!Stop
        BY <1>1, <2>2 DEF BkWifi!Stop, BkWifi!Join, BkWifi!Down, AirInv, RadioFields
      <4> QED BY <1>1, <2>2, <4>1, RadioDrops
    <3> QED BY <1>1, <2>1, <2>2, <3>1 DEF AirKeeps, BkWifi!StateKept, BkWifiNow, BkWifiInv
  <2>3. CASE BkWifi!Become("idle") /\ v1' = v1 /\ v2' = v2
    BY <1>1, <2>3 DEF BkWifi!Become, BkWifiNow, BkWifiInv
  <2> QED BY <1>5, <2>2, <2>3 DEF BkWifi!FinishConnect
<1>6. CASE BkWifi!Disconnect
  <2>1. v5' = "idle" /\ BkWifi!Leave
    BY <1>6 DEF BkWifi!Disconnect, BkWifi!Become
  <2>2. AirInv(v1, v2)' /\ AirKeeps(v1, v2, v1', v2')
    BY <1>1, <2>1, RadioDrops
  <2> QED BY <1>1, <2>1, <2>2 DEF AirKeeps, BkWifiNow, BkWifiInv
<1>7. CASE BkWifi!SetPowerSave
  <2>1. v2' = v2 /\ v7' = v7 /\ v5' = v5 /\ v13' = v13
    BY <1>7 DEF BkWifi!SetPowerSave, BkWifi!Goto, BkWifi!StateKept
  <2>2. DOMAIN v1' = RadioFields /\ v1'.link = v1.link /\ v1'.ip = v1.ip /\ v1'.scan = v1.scan
    <3>1. v1' = v1 \/ \E m : v1' = [v1 EXCEPT !.ps = m]
      BY <1>7 DEF BkWifi!SetPowerSave
    <3> QED BY <1>1, <3>1 DEF AirInv, RadioFields
  <2>3. AirInv(v1, v2)'
    BY <1>1, <2>1, <2>2, AirRests
  <2> QED BY <1>1, <2>1, <2>2, <2>3 DEF BkWifiNow, BkWifiInv
<1> QED BY <1>2, <1>3, <1>4, <1>5, <1>6, <1>7

\* its callbacks, each of which takes an event from the loop,
LEMMA BkWifiCallbacks ==
    ASSUME BkWifiNow, BkWifi!EmitScanResults \/ BkWifi!Connected \/ BkWifi!Disconnected \/ BkWifi!GotIp \/ BkWifi!LostIp
    PROVE  BkWifiNow'
<1>1. AirInv(v1, v2) /\ v1' = v1 /\ v7' = v7 /\ v10' = v10
  BY DEF BkWifiNow, BkWifiInv, BkWifi!EmitScanResults, BkWifi!Connected, BkWifi!Disconnected, BkWifi!GotIp,
       BkWifi!LostIp, BkWifi!CbFrame
<1>2. v2 # <<>> /\ v2' = Tail(v2)
  BY DEF BkWifi!EmitScanResults, BkWifi!Connected, BkWifi!Disconnected, BkWifi!GotIp, BkWifi!LostIp, BkWifi!Take
<1>3. PICK h : h = Head(v2)
  OBVIOUS
<1>4. /\ AirInv(v1, v2)' /\ \A L : Has(v2, L) => h \in L \/ Has(v2', L)
      /\ h = "GotIp" => v1.ip \/ Has(v2', Losses)
      /\ h \in {"StaConnected", "GotIp"} => v1.link = "up" \/ Has(v2', {"StaDisconnected"})
  BY <1>1, <1>2, <1>3, AirTaken
<1>5. CASE BkWifi!EmitScanResults
  <2>1. h = "ScanDone" /\ v9' = "settle" /\ v5' = v5 /\ v13' = v13 /\ v11' = v11
    BY <1>3, <1>5 DEF BkWifi!EmitScanResults, BkWifi!Take, BkWifi!StateKept
  <2> QED BY <1>1, <1>4, <2>1 DEF BkWifiNow, BkWifiInv, Losses
<1>6. CASE BkWifi!Connected
  <2>1. h = "StaConnected" /\ v9' = v9 /\ v5' = "connected" /\ v11' = v11
    BY <1>3, <1>6 DEF BkWifi!Connected, BkWifi!Take, BkWifi!Become
  <2> QED BY <1>1, <1>4, <2>1 DEF BkWifiNow, BkWifiInv, Losses
<1>7. CASE BkWifi!Disconnected
  <2>1. h = "StaDisconnected" /\ v9' = v9 /\ v5' = "idle" /\ v11' = (v11 /\ ~v10)
    BY <1>3, <1>7 DEF BkWifi!Disconnected, BkWifi!Take, BkWifi!Become
  <2> QED BY <1>1, <1>4, <2>1 DEF BkWifiNow, BkWifiInv, Losses
<1>8. CASE BkWifi!GotIp
  <2>1. h = "GotIp" /\ v9' = v9 /\ v5' = v5 /\ v13' = v13 /\ v11' \in {v11, v11 \/ v10}
    BY <1>3, <1>8 DEF BkWifi!GotIp, BkWifi!Take, BkWifi!StateKept
  <2> QED BY <1>1, <1>4, <2>1 DEF BkWifiNow, BkWifiInv, Losses
<1>9. CASE BkWifi!LostIp
  <2>1. h = "LostIp" /\ v9' = v9 /\ v5' = v5 /\ v13' = v13 /\ v11' = (v11 /\ ~v10)
    BY <1>3, <1>9 DEF BkWifi!LostIp, BkWifi!Take, BkWifi!StateKept
  <2> QED BY <1>1, <1>4, <2>1 DEF BkWifiNow, BkWifiInv, Losses
<1> QED BY <1>5, <1>6, <1>7, <1>8, <1>9

\* and the rest.
LEMMA BkWifiStep ==
    ASSUME BkWifiNow, BkWifi!Next
    PROVE  BkWifiNow'
<1>1. AirInv(v1, v2)
  BY DEF BkWifiNow, BkWifiInv
<1>2. CASE BkWifi!Register \/ BkWifi!SetHandler \/ BkWifi!SettleScan
  <2>1. v1' = v1 /\ v2' = v2 /\ v7' = v7
    BY <1>2 DEF BkWifi!Register, BkWifi!SetHandler, BkWifi!SettleScan, BkWifi!CbFrame
  <2>2. CASE BkWifi!Register \/ BkWifi!SetHandler
    <3>1. v5' = v5 /\ v9' = v9 /\ v13' = v13
      BY <2>2 DEF BkWifi!Register, BkWifi!SetHandler
    <3>2. v11' => v11
      BY <2>2 DEF BkWifi!Register, BkWifi!SetHandler
    <3>3. (v11 => v10) => (v11' => v10')
      BY <2>2 DEF BkWifi!Register, BkWifi!SetHandler
    <3> QED BY <2>1, <3>1, <3>2, <3>3 DEF BkWifiNow, BkWifiInv
  <2>3. CASE BkWifi!SettleScan
    BY <2>1, <2>3 DEF BkWifi!SettleScan, BkWifi!CbFrame, BkWifi!EndScanIfScanning, BkWifi!EndScan,
         BkWifi!StateKept, BkWifiNow, BkWifiInv
  <2> QED BY <1>2, <2>2, <2>3
<1>3. CASE BkWifi!DhcpTimeout \/ BkWifi!AirMoves
  <2>1. v5' = v5 /\ v7' = v7 /\ v9' = v9 /\ v10' = v10 /\ v11' = v11 /\ v13' = v13
    BY <1>3 DEF BkWifi!DhcpTimeout, BkWifi!AirMoves
  <2>2. AirInv(v1, v2)' /\ AirKeeps(v1, v2, v1', v2') /\ (v1.scan => v1'.scan \/ Has(v2', {"ScanDone"}))
    <3>1. CASE BkWifi!DhcpTimeout
      <4>1. v1.link = "up" /\ v1' = [v1 EXCEPT !.link = "down", !.ip = FALSE] /\ v2' = v2 \o <<"LostIp", "StaDisconnected">>
        BY <3>1 DEF BkWifi!DhcpTimeout, BkWifi!Down, BkWifi!Post
      <4>2. DOMAIN v1' = RadioFields /\ v1'.link = "down" /\ ~v1'.ip /\ v1'.scan = v1.scan
        BY <1>1, <4>1 DEF AirInv, RadioFields
      <4>3. Moves(v1, v1', <<"LostIp", "StaDisconnected">>)
        BY <4>1, <4>2 DEF Moves, Drops
      <4> QED BY <1>1, <4>1, <4>2, <4>3, AirMoves
    <3>2. CASE BkWifi!LinkFails
      <4>1. v1'.scan = v1.scan
        BY <1>1, <3>2 DEF BkWifi!LinkFails, BkWifi!Air, BkWifi!Down, AirInv, RadioFields
      <4> QED BY <1>1, <3>2, <4>1, RadioDrops
    <3>3. CASE BkWifi!Associate \/ BkWifi!GetIp
      BY <1>1, <3>3, RadioAir
    <3>4. CASE BkWifi!ScanEnds
      BY <1>1, <3>4, RadioScans
    <3> QED BY <1>3, <3>1, <3>2, <3>3, <3>4 DEF BkWifi!AirMoves
  <2> QED BY <2>1, <2>2 DEF AirKeeps, BkWifiNow, BkWifiInv
<1> QED BY <1>2, <1>3, BkWifiCalls, BkWifiCallbacks DEF BkWifi!Next

\* and with it what the Beken station promises.
LEMMA BkWifiHolds ==
    ASSUME BkWifiNow
    PROVE  BkWifi!IpIsCurrent /\ BkWifi!StateIsBacked
<1>1. /\ \A k : Has(v2, {k}) <=> BkWifi!Pending(k)
      /\ Has(v2, Losses) <=> BkWifi!Pending("StaDisconnected") \/ BkWifi!Pending("LostIp")
  BY DEF Has, Losses, BkWifi!Pending
<1> QED BY <1>1 DEF BkWifiNow, BkWifiInv, BkWifi!IpIsCurrent, BkWifi!StateIsBacked, BkWifi!ConnectedIsBacked,
        BkWifi!ConnectingIsBacked, BkWifi!ScanningIsBacked

----------------------------------------------------------------------------
(* The ESP32 station.                                                         *)

\* both stations have the same driver
LEMMA SameRadio ==
    /\ EspWifi!Events = BkWifi!Events
    /\ (EspWifi!Leave <=> BkWifi!Leave) /\ (EspWifi!Stop <=> BkWifi!Stop)
    /\ (EspWifi!Join <=> BkWifi!Join) /\ (EspWifi!LinkFails <=> BkWifi!LinkFails)
    /\ (EspWifi!Scan <=> BkWifi!Scan) /\ (EspWifi!AbortScan <=> BkWifi!AbortScan)
    /\ (EspWifi!ScanEnds <=> BkWifi!ScanEnds)
    /\ (EspWifi!Associate <=> BkWifi!Associate) /\ (EspWifi!GetIp <=> BkWifi!GetIp)
<1>1. /\ EspWifi!Events = BkWifi!Events
      /\ \A r : EspWifi!Down(r) = BkWifi!Down(r) /\ EspWifi!Farewell(r) = BkWifi!Farewell(r)
      /\ \A e : EspWifi!Post(e) <=> BkWifi!Post(e)
      /\ \A r, k : EspWifi!Air(r, k) <=> BkWifi!Air(r, k)
  BY DEF EspWifi!Events, BkWifi!Events, EspWifi!Down, BkWifi!Down, EspWifi!Farewell, BkWifi!Farewell,
       EspWifi!Post, BkWifi!Post,
     EspWifi!Air, BkWifi!Air
<1>2. (EspWifi!Leave <=> BkWifi!Leave) /\ (EspWifi!Stop <=> BkWifi!Stop) /\ (EspWifi!Join <=> BkWifi!Join)
  BY <1>1 DEF EspWifi!Leave, BkWifi!Leave, EspWifi!Stop, BkWifi!Stop, EspWifi!Join, BkWifi!Join
<1>3. (EspWifi!Scan <=> BkWifi!Scan) /\ (EspWifi!AbortScan <=> BkWifi!AbortScan)
  BY <1>1 DEF EspWifi!Scan, BkWifi!Scan, EspWifi!AbortScan, BkWifi!AbortScan
<1>4. (EspWifi!LinkFails <=> BkWifi!LinkFails) /\ (EspWifi!ScanEnds <=> BkWifi!ScanEnds)
      /\ (EspWifi!Associate <=> BkWifi!Associate) /\ (EspWifi!GetIp <=> BkWifi!GetIp)
  BY <1>1 DEF EspWifi!LinkFails, BkWifi!LinkFails, EspWifi!ScanEnds, BkWifi!ScanEnds, EspWifi!Associate,
       BkWifi!Associate,
     EspWifi!GetIp, BkWifi!GetIp
<1> QED BY <1>1, <1>2, <1>3, <1>4

\* the queue had no room for the word of a loss
Dropped(lost) == \E k \in Losses : k \in lost
EspWifiUp(boot, ini, st, pc, handler, ip) ==
    /\ ip => handler
    /\ handler => ini
    /\ ini => boot = "none"
    /\ st = "scanning" \/ pc \in {"scanStart", "scan"} => ini
    /\ pc = "halt" => st # "scanning"
EspWifiIp(radio, loop, queue, ip, lost) ==
    /\ queue \in Seq(BkWifi!Events \cup {"Result"})
    /\ radio.ip \/ Has(loop, Losses) \/ Dropped(lost) \/ Followed(queue, {"GotIp"}, Losses)
    /\ ip => radio.ip \/ Has(loop, Losses) \/ Dropped(lost) \/ Has(queue, Losses)
EspWifiState(radio, loop, st, pc, queue, task, lost) ==
    /\ st = "connected" => radio.link = "up" \/ Has(loop, {"StaDisconnected"})
    /\ st = "connecting" => \/ radio.link = "joining" \/ pc = "join"
                            \/ Has(loop, {"StaConnected"}) \/ Has(loop, {"StaDisconnected"})
    /\ st = "scanning" => \/ radio.scan \/ Has(loop, {"ScanDone"}) \/ Has(queue, {"ScanDone"})
                          \/ task = "settle" \/ "ScanDone" \in lost
EspWifiNow == /\ AirInv(v1, v2) /\ EspWifiUp(v3, v5, v7, v9, v13, v14)
              /\ EspWifiIp(v1, v2, v11, v14, v15) /\ EspWifiState(v1, v2, v7, v9, v11, v12, v15)

\* It is so at first.
LEMMA EspWifiBegins == ASSUME EspWifi!Init PROVE EspWifiNow
<1>1. /\ v2 \in Seq(BkWifi!Events) /\ \A K, L : Followed(v2, K, L)
      /\ v11 \in Seq(BkWifi!Events \cup {"Result"}) /\ \A K, L : Followed(v11, K, L)
  BY DEF EspWifi!Init, EspWifi!RadioInit, Followed
<1> QED BY <1>1 DEF EspWifi!Init, EspWifi!RadioInit, EspWifiNow, EspWifiUp, EspWifiIp, EspWifiState, AirInv, RadioFields

\* the address, whatever the caller and the air do
LEMMA EspWifiKeepsIp ==
    ASSUME EspWifiNow, AirKeeps(v1, v2, v1', v2'), v11' = v11, v14' = v14,
           v15' = v15 \/ v15' = v15 \ {"ScanDone"}
    PROVE  EspWifiIp(v1, v2, v11, v14, v15)'
<1>1. Dropped(v15') <=> Dropped(v15)
  BY DEF Dropped, Losses
<1> QED BY <1>1 DEF EspWifiNow, EspWifiIp, AirKeeps

\* Its start: a queue is made only while there is neither a scan nor a listener.
LEMMA EspWifiBoots ==
    ASSUME EspWifiNow, EspWifi!Boot
    PROVE  EspWifiNow'
<1>1. v9' = v9 /\ v12' = v12 /\ v13' = v13 /\ v14' = v14 /\ v15' = v15 /\ v2' = v2
  BY DEF EspWifi!Boot, EspWifi!CreateQueue, EspWifi!CreateTask, EspWifi!CreateNetif, EspWifi!InitDriver,
       EspWifi!RegisterHandlers,
     EspWifi!StartWifi, EspWifi!BootFrame, EspWifi!app_vars
<1>2. CASE EspWifi!CreateQueue
  <2>1. ~v5 /\ v5' = v5 /\ v11' = <<>> /\ v1' = v1 /\ v7' = v7
    BY <1>2 DEF EspWifi!CreateQueue, EspWifi!BootFrame
  <2>2. v11' \in Seq(BkWifi!Events \cup {"Result"}) /\ Followed(v11', {"GotIp"}, Losses)
    BY <2>1 DEF Followed
  <2> QED BY <1>1, <2>1, <2>2 DEF EspWifiNow, EspWifiUp, EspWifiIp, EspWifiState
<1>3. CASE EspWifi!CreateTask \/ EspWifi!CreateNetif \/ EspWifi!InitDriver \/ EspWifi!RegisterHandlers
  <2>1. v3 # "none" /\ v5' = v5 /\ v11' = v11 /\ v1' = v1 /\ v7' = v7
    BY <1>3 DEF EspWifi!CreateTask, EspWifi!CreateNetif, EspWifi!InitDriver, EspWifi!RegisterHandlers,
         EspWifi!Stage, EspWifi!BootFrame
  <2> QED BY <1>1, <2>1 DEF EspWifiNow, EspWifiUp, EspWifiIp, EspWifiState
<1>4. CASE EspWifi!StartWifi
  <2>1. v3 # "none" /\ v3' = "none" /\ v11' = v11 /\ (v7' = v7 \/ v7' = "idle")
    BY <1>4 DEF EspWifi!StartWifi, EspWifi!app_vars
  <2>2. DOMAIN v1' = RadioFields /\ v1'.link = v1.link /\ v1'.ip = v1.ip /\ v1'.scan = v1.scan
    <3>1. CASE v1' = v1
      BY <3>1 DEF EspWifiNow, AirInv
    <3>2. CASE EspWifi!ApplyPowerSave([v1 EXCEPT !.on = TRUE])
      BY <3>2 DEF EspWifi!ApplyPowerSave, EspWifiNow, AirInv, RadioFields
    <3> QED BY <1>4, <3>1, <3>2 DEF EspWifi!StartWifi
  <2>3. AirInv(v1, v2)' /\ AirKeeps(v1, v2, v1', v2')
    BY <1>1, <2>2, AirRests DEF EspWifiNow
  <2>4. EspWifiIp(v1, v2, v11, v14, v15)'
    BY <1>1, <2>1, <2>3, EspWifiKeepsIp
  <2>5. ~v5
    BY <2>1 DEF EspWifiNow, EspWifiUp
  <2> QED BY <1>1, <2>1, <2>2, <2>3, <2>4, <2>5 DEF EspWifiNow, EspWifiUp, EspWifiState
<1> QED BY <1>2, <1>3, <1>4 DEF EspWifi!Boot

\* The application listens, or forgets its address with its listener.
LEMMA EspWifiListens ==
    ASSUME EspWifiNow, EspWifi!SetHandler \/ EspWifi!ClearHandler
    PROVE  EspWifiNow'
<1>1. v1' = v1 /\ v2' = v2 /\ v3' = v3 /\ v5' = v5 /\ v7' = v7 /\ v9' = v9 /\ v11' = v11 /\ v12' = v12 /\ v15' = v15
  BY DEF EspWifi!SetHandler, EspWifi!ClearHandler, EspWifi!api_vars, EspWifi!app_vars
<1>2. (v5 /\ v13' /\ v14' = v14) \/ (~v13' /\ ~v14')
  BY DEF EspWifi!SetHandler, EspWifi!ClearHandler, EspWifi!app_vars
<1> QED BY <1>1, <1>2 DEF EspWifiNow, EspWifiUp, EspWifiIp, EspWifiState

\* What the air takes from the station goes with the word of it.
LEMMA EspWifiAir ==
    ASSUME EspWifiNow, EspWifi!AirMoves
    PROVE  EspWifiNow'
<1>1. /\ v3' = v3 /\ v5' = v5 /\ v13' = v13 /\ v7' = v7 /\ v9' = v9 /\ v11' = v11 /\ v12' = v12 /\ v14' = v14 /\ v15' = v15
  BY DEF EspWifi!AirMoves, EspWifi!own_vars, EspWifi!api_vars, EspWifi!app_vars
<1>2. AirInv(v1, v2)
  BY DEF EspWifiNow
<1>3. AirInv(v1, v2)' /\ AirKeeps(v1, v2, v1', v2') /\ (v1.scan => v1'.scan \/ Has(v2', {"ScanDone"}))
  <2>1. CASE BkWifi!LinkFails
    <3>1. v1'.scan = v1.scan
      BY <1>2, <2>1 DEF BkWifi!LinkFails, BkWifi!Air, BkWifi!Down, AirInv, RadioFields
    <3> QED BY <1>2, <2>1, <3>1, RadioDrops
  <2>2. CASE BkWifi!Associate \/ BkWifi!GetIp
    BY <1>2, <2>2, RadioAir
  <2>3. CASE BkWifi!ScanEnds
    BY <1>2, <2>3, RadioScans
  <2>4. CASE EspWifi!LoseIp
    <3>1. v1' = [v1 EXCEPT !.ip = FALSE] /\ v2' = v2 \o <<"LostIp">>
      BY <2>4 DEF EspWifi!LoseIp, EspWifi!Air, EspWifi!Post
    <3>2. DOMAIN v1' = RadioFields /\ v1'.link = v1.link /\ ~v1'.ip /\ v1'.scan = v1.scan
      BY <1>2, <3>1 DEF AirInv, RadioFields
    <3>3. Moves(v1, v1', <<"LostIp">>)
      BY <3>2 DEF Moves, Loses
    <3> QED BY <1>2, <3>1, <3>2, <3>3, AirMoves
  <2> QED BY <2>1, <2>2, <2>3, <2>4, SameRadio DEF EspWifi!AirMoves
<1>4. EspWifiIp(v1, v2, v11, v14, v15)'
  BY <1>1, <1>3, EspWifiKeepsIp
<1> QED BY <1>1, <1>3, <1>4 DEF EspWifiNow, EspWifiUp, EspWifiState, AirKeeps

\* The event loop's task: an event goes to the queue, or is dropped.
LEMMA EspWifiHandles ==
    ASSUME EspWifiNow, EspWifi!HandleEvent
    PROVE  EspWifiNow'
<1>1. /\ v1' = v1 /\ v3' = v3 /\ v5' = v5 /\ v13' = v13 /\ v9' = v9 /\ v12' = v12 /\ v14' = v14
      /\ v2 # <<>> /\ v2' = Tail(v2) /\ v7' = EspWifi!StateAfter(Head(v2)) /\ EspWifi!Emit(Head(v2))
  BY DEF EspWifi!HandleEvent, EspWifi!own_vars
<1>2. PICK h : h = Head(v2)
  OBVIOUS
<1>3. /\ AirInv(v1, v2)' /\ h \in BkWifi!Events /\ \A L : Has(v2, L) => h \in L \/ Has(v2', L)
      /\ h = "GotIp" => v1.ip \/ Has(v2', Losses)
      /\ h \in {"StaConnected", "GotIp"} => v1.link = "up" \/ Has(v2', {"StaDisconnected"})
  BY <1>1, <1>2, AirTaken DEF EspWifiNow
<1>4. v11 \in Seq(BkWifi!Events \cup {"Result"})
  BY DEF EspWifiNow, EspWifiIp
<1>5. PICK one : one = <<h>>
  OBVIOUS
<1>6. /\ one \in Seq(BkWifi!Events \cup {"Result"}) /\ v11 \o one = Append(v11, h)
      /\ \A L : Has(one, L) <=> h \in L
  <2>1. \A L : \A x \in BkWifi!Events \cup {"Result"} : <<x>> \in Seq(BkWifi!Events \cup {"Result"}) /\ (Has(<<x>>, L) <=> x \in L)
    BY Few
  <2>2. v11 \o <<h>> = Append(v11, h)
    BY <1>3, <1>4
  <2> QED BY <1>3, <1>5, <2>1, <2>2
<1>7. /\ Append(v11, h) \in Seq(BkWifi!Events \cup {"Result"})
      /\ \A L : Has(Append(v11, h), L) <=> Has(v11, L) \/ h \in L
      /\ \A K, L : h \notin K /\ (Followed(v11, K, L) \/ h \in L) => Followed(Append(v11, h), K, L)
  <2>1. v11 \o one \in Seq(BkWifi!Events \cup {"Result"})
    BY ONLY <1>4, <1>6, Joined
  <2>2. \A L : Has(v11 \o one, L) <=> Has(v11, L) \/ Has(one, L)
    BY ONLY <1>4, <1>6, HasJoined
  <2>3. \A K, L : ~Has(one, K) /\ (Followed(v11, K, L) \/ Has(one, L)) => Followed(v11 \o one, K, L)
    BY ONLY <1>4, <1>6, FollowedJoined
  <2> QED BY ONLY <1>6, <2>1, <2>2, <2>3
<1>8. \/ v11' = Append(v11, h) /\ (v15' = IF h = "GotIp" THEN v15 \cap {"ScanDone"} ELSE v15)
      \/ v11' = v11 /\ v15' = v15 \cup ({h} \cap EspWifi!Ends)
  BY <1>1, <1>2 DEF EspWifi!Emit
<1>9. /\ h # "GotIp" => (Dropped(v15) => Dropped(v15'))
      /\ "ScanDone" \in v15 => "ScanDone" \in v15'
      /\ v11' = v11 /\ h \in Losses => Dropped(v15') \/ Has(v11', Losses)
      /\ v11' = v11 /\ h = "ScanDone" => "ScanDone" \in v15' \/ Has(v11', {"ScanDone"})
  BY <1>7, <1>8 DEF Dropped, Losses, EspWifi!Ends
<1>10. EspWifiIp(v1, v2, v11, v14, v15)'
  <2>1. CASE h = "GotIp"
    <3>1. v11' \in Seq(BkWifi!Events \cup {"Result"})
      BY <1>4, <1>7, <1>8
    <3>2. v1.ip \/ Has(v2', Losses)
      BY <1>3, <2>1
    <3> QED BY <1>1, <3>1, <3>2 DEF EspWifiIp
  <2>2. CASE h # "GotIp" /\ v11' = v11 /\ v15' = v15 \cup ({h} \cap EspWifi!Ends)
    <3>1. EspWifiIp(v1, v2, v11, v14, v15)
      BY DEF EspWifiNow
    <3>2. Has(v2, Losses) => h \in Losses \/ Has(v2', Losses)
      BY <1>3
    <3>3. v11' = v11 /\ v14' = v14 /\ v1' = v1 /\ (Dropped(v15) => Dropped(v15'))
          /\ (h \in Losses => Dropped(v15') \/ Has(v11', Losses))
      BY <1>1, <1>9, <2>2
    <3>4. h \in Losses => Dropped(v15')
      BY <2>2 DEF Dropped, Losses, EspWifi!Ends
    <3> QED BY <3>1, <3>2, <3>3, <3>4 DEF EspWifiIp
  <2>3. CASE h # "GotIp" /\ v11' = Append(v11, h)
    BY <1>1, <1>3, <1>7, <1>9, <2>3 DEF EspWifiNow, EspWifiIp
  <2> QED BY <1>8, <2>1, <2>2, <2>3
<1>11. v7' = IF h \in {"StaConnected", "GotIp"} THEN "connected" ELSE IF h = "StaDisconnected" THEN "idle" ELSE v7
  BY <1>1, <1>2 DEF EspWifi!StateAfter
<1>12. EspWifiState(v1, v2, v7, v9, v11, v12, v15)'
  <2>1. v7' = "connected" => v1.link = "up" \/ Has(v2', {"StaDisconnected"})
    BY <1>1, <1>3, <1>11 DEF EspWifiNow, EspWifiState
  <2>2. v7' = "connecting" => \/ v1.link = "joining" \/ v9 = "join"
                              \/ Has(v2', {"StaConnected"}) \/ Has(v2', {"StaDisconnected"})
    BY <1>1, <1>3, <1>11 DEF EspWifiNow, EspWifiState
  <2>3. v7' = "scanning" => \/ v1.scan \/ Has(v2', {"ScanDone"}) \/ Has(v11', {"ScanDone"})
                            \/ v12 = "settle" \/ "ScanDone" \in v15'
    <3> SUFFICES ASSUME v7' = "scanning"
                 PROVE  \/ v1.scan \/ Has(v2', {"ScanDone"}) \/ Has(v11', {"ScanDone"})
                        \/ v12 = "settle" \/ "ScanDone" \in v15'
      OBVIOUS
    <3>1. \/ v1.scan \/ Has(v2, {"ScanDone"}) \/ Has(v11, {"ScanDone"}) \/ v12 = "settle" \/ "ScanDone" \in v15
      BY <1>11 DEF EspWifiNow, EspWifiState
    <3>2. Has(v11, {"ScanDone"}) => Has(v11', {"ScanDone"})
      BY <1>7, <1>8
    <3>3. h = "ScanDone" => Has(v11', {"ScanDone"}) \/ "ScanDone" \in v15'
      BY <1>7, <1>8, <1>9
    <3> QED BY <1>3, <1>9, <3>1, <3>2, <3>3
  <2> QED BY <1>1, <2>1, <2>2, <2>3 DEF EspWifiState
<1>13. EspWifiUp(v3, v5, v7, v9, v13, v14)'
  BY <1>1, <1>11 DEF EspWifiNow, EspWifiUp
<1> QED BY <1>3, <1>10, <1>12, <1>13 DEF EspWifiNow

\* event_task, which hands the queue's events to the application.
LEMMA EspWifiDelivers ==
    ASSUME EspWifiNow, EspWifi!DeliverEvent \/ EspWifi!EmitScanResults \/ EspWifi!SettleScan
    PROVE  EspWifiNow'
<1>1. /\ v1' = v1 /\ v2' = v2 /\ v3' = v3 /\ v5' = v5 /\ v13' = v13 /\ v9' = v9 /\ v15' = v15
  BY DEF EspWifi!DeliverEvent, EspWifi!EmitScanResults, EspWifi!SettleScan, EspWifi!own_vars, EspWifi!api_vars
<1>2. CASE EspWifi!SettleScan
  <2>1. v11' = v11 /\ v14' = v14 /\ v7' # "scanning" /\ (v7' = v7 \/ v7' = "idle")
    BY <1>2 DEF EspWifi!SettleScan
  <2> QED BY <1>1, <2>1 DEF EspWifiNow, EspWifiUp, EspWifiIp, EspWifiState
<1>3. CASE EspWifi!DeliverEvent \/ EspWifi!EmitScanResults
  <2>1. PICK h : h = Head(v11)
    OBVIOUS
  <2>2. v11 \in Seq(BkWifi!Events \cup {"Result"}) /\ v11 # <<>> /\ v7' = v7 /\ v12 = "wait"
    BY <1>3 DEF EspWifi!DeliverEvent, EspWifi!EmitScanResults, EspWifi!api_vars, EspWifiNow, EspWifiIp
  <2>3. \A K, L : /\ Tail(v11) \in Seq(BkWifi!Events \cup {"Result"})
                  /\ Has(v11, L) <=> h \in L \/ Has(Tail(v11), L)
                  /\ Followed(v11, K, L) => Followed(Tail(v11), K, L)
                  /\ Followed(v11, K, L) /\ h \in K => Has(Tail(v11), L)
    BY ONLY <2>1, <2>2, Taken, Zenon
  <2>4. CASE EspWifi!DeliverEvent
    <3>1. h # "ScanDone" /\ v11' = Tail(v11) /\ v12' = v12 /\ v14' = IF v13 THEN EspWifi!IpAfter(h) ELSE v14
      BY <2>1, <2>4 DEF EspWifi!DeliverEvent
    <3>2. EspWifiUp(v3, v5, v7, v9, v13, v14)'
      BY <1>1, <2>2, <3>1 DEF EspWifiNow, EspWifiUp, EspWifi!IpAfter
    <3>3. EspWifiState(v1, v2, v7, v9, v11, v12, v15)'
      BY <1>1, <2>2, <2>3, <3>1 DEF EspWifiNow, EspWifiState
    <3>4. EspWifiIp(v1, v2, v11, v14, v15)'
      <4>1. CASE v14' /\ h = "GotIp"
        BY <1>1, <2>3, <3>1, <4>1 DEF EspWifiNow, EspWifiIp
      <4>2. CASE v14' /\ h # "GotIp"
        <5>1. v14 /\ h \notin Losses
          BY <3>1, <4>2 DEF EspWifi!IpAfter, Losses, EspWifiNow, EspWifiUp
        <5> QED BY <1>1, <2>3, <3>1, <5>1 DEF EspWifiNow, EspWifiIp
      <4>3. CASE ~v14'
        BY <1>1, <2>3, <3>1, <4>3 DEF EspWifiNow, EspWifiIp
      <4> QED BY <4>1, <4>2, <4>3
    <3> QED BY <1>1, <3>2, <3>3, <3>4 DEF EspWifiNow
  <2>5. CASE EspWifi!EmitScanResults
    <3>1. h = "ScanDone" /\ v12' = "settle" /\ v14' = v14
      BY <2>1, <2>5 DEF EspWifi!EmitScanResults
    <3>2. PICK n \in 0..MaxFound : v11' = Tail(v11) \o [i \in 1..n |-> "Result"]
      BY <2>5 DEF EspWifi!EmitScanResults
    <3>9. n \in Nat
      BY <3>2
    <3>3. PICK r : r = [i \in 1..n |-> "Result"]
      OBVIOUS
    <3>4. r \in Seq(BkWifi!Events \cup {"Result"}) /\ ~Has(r, {"GotIp"})
      BY <3>9, <3>3 DEF Has
    <3>5. v11' \in Seq(BkWifi!Events \cup {"Result"}) /\ \A L : Has(Tail(v11), L) => Has(v11', L)
      <4>1. Tail(v11) \in Seq(BkWifi!Events \cup {"Result"}) /\ v11' = Tail(v11) \o r
        BY <2>3, <3>2, <3>3
      <4>2. Tail(v11) \o r \in Seq(BkWifi!Events \cup {"Result"})
        BY ONLY <3>4, <4>1, Joined
      <4>3. \A L : Has(Tail(v11), L) => Has(Tail(v11) \o r, L)
        BY ONLY <3>4, <4>1, HasJoined
      <4> QED BY ONLY <4>1, <4>2, <4>3
    <3>6. \A L : Followed(Tail(v11), {"GotIp"}, L) => Followed(v11', {"GotIp"}, L)
      <4>1. Tail(v11) \in Seq(BkWifi!Events \cup {"Result"}) /\ v11' = Tail(v11) \o r
        BY <2>3, <3>2, <3>3
      <4> QED BY ONLY <3>4, <4>1, FollowedJoined
    <3>7. "ScanDone" \notin Losses
      BY DEF Losses
    <3>8. EspWifiIp(v1, v2, v11, v14, v15)'
      BY <1>1, <2>3, <3>1, <3>5, <3>6, <3>7 DEF EspWifiNow, EspWifiIp
    <3> QED BY <1>1, <2>2, <3>1, <3>8 DEF EspWifiNow, EspWifiUp, EspWifiState
  <2> QED BY <1>3, <2>4, <2>5
<1> QED BY <1>2, <1>3

\* The caller: steps that leave the radio alone but for its mode,
LEMMA EspWifiRests ==
    ASSUME EspWifiNow, v2' = v2, DOMAIN v1' = RadioFields, v1'.link = v1.link, v1'.ip = v1.ip, v1'.scan = v1.scan,
           EspWifi!ApiFrame, v9' # "halt", v9' \in {"scanStart", "scan"} => v5,
           \/ v7' = v7 /\ v9 # "join"
           \/ v7' = "idle"
           \/ v7' = "connecting" /\ v9' = "join"
    PROVE  EspWifiNow'
<1>1. /\ v3' = v3 /\ v5' = v5 /\ v13' = v13 /\ v11' = v11 /\ v12' = v12 /\ v14' = v14 /\ v15' = v15
  BY DEF EspWifi!ApiFrame, EspWifi!own_vars, EspWifi!app_vars
<1>2. AirInv(v1, v2)' /\ AirKeeps(v1, v2, v1', v2')
  BY AirRests DEF EspWifiNow
<1>3. EspWifiIp(v1, v2, v11, v14, v15)'
  BY <1>1, <1>2, EspWifiKeepsIp
<1> QED BY <1>1, <1>2, <1>3 DEF EspWifiNow, EspWifiUp, EspWifiState

\* or the radio and its events altogether,
LEMMA EspWifiIdles ==
    ASSUME EspWifiNow, v1' = v1, v2' = v2, EspWifi!ApiFrame, v9' # "halt", v9' \in {"scanStart", "scan"} => v5,
           \/ v7' = v7 /\ v9 # "join"
           \/ v7' = "idle"
           \/ v7' = "connecting" /\ v9' = "join"
    PROVE  EspWifiNow'
<1>1. DOMAIN v1' = RadioFields /\ v1'.link = v1.link /\ v1'.ip = v1.ip /\ v1'.scan = v1.scan
  BY DEF EspWifiNow, AirInv
<1> QED BY <1>1, EspWifiRests

\* and those that call the driver, after which it scans and joins as before,
\* unless the state says otherwise.
LEMMA EspWifiCalls ==
    ASSUME EspWifiNow, AirInv(v1, v2)', AirKeeps(v1, v2, v1', v2'), EspWifi!ApiFrame,
           v9' = "halt" => v7' # "scanning", v9' \notin {"scanStart", "scan"},
           v7' = v7 \/ v7' = "idle", v9 = "join" => v7' = "idle" \/ v1'.link = "joining",
           v1.scan => v1'.scan \/ Has(v2', {"ScanDone"}) \/ v7' # "scanning"
    PROVE  EspWifiNow'
<1>1. /\ v3' = v3 /\ v5' = v5 /\ v13' = v13 /\ v11' = v11 /\ v12' = v12 /\ v14' = v14 /\ v15' = v15
  BY DEF EspWifi!ApiFrame, EspWifi!own_vars, EspWifi!app_vars
<1>2. EspWifiIp(v1, v2, v11, v14, v15)'
  BY <1>1, EspWifiKeepsIp
<1>3. v7' = "connecting" => \/ v1'.link = "joining" \/ v9' = "join"
                            \/ Has(v2', {"StaConnected"}) \/ Has(v2', {"StaDisconnected"})
  BY DEF EspWifiNow, EspWifiState, AirKeeps
<1> QED BY <1>1, <1>2, <1>3 DEF EspWifiNow, EspWifiUp, EspWifiState, AirKeeps

\* A scan starts, or ends before its time.
LEMMA EspWifiScans ==
    ASSUME EspWifiNow, EspWifi!BeginScan \/ EspWifi!EnsureStarted \/ EspWifi!StartScan \/ EspWifi!StopScan
    PROVE  EspWifiNow'
<1>1. AirInv(v1, v2)
  BY DEF EspWifiNow
<1>2. CASE EspWifi!BeginScan
  <2>1. v1' = v1 /\ v2' = v2 /\ EspWifi!ApiFrame /\ v9 = "idle" /\ v9' = "scanStart" /\ v5 /\ v7' = v7
    BY <1>2 DEF EspWifi!BeginScan, EspWifi!Accepts, EspWifi!Goto
  <2>2. v9' # "halt" /\ v9 # "join"
    BY <2>1
  <2> QED BY <2>1, <2>2, EspWifiIdles
<1>3. CASE EspWifi!EnsureStarted
  <2>1. /\ v2' = v2 /\ EspWifi!ApiFrame /\ v9 \in {"scanStart", "connStart"} /\ v9' \in {"scan", "config", "idle"}
        /\ v9' = "scan" => v9 = "scanStart"
        /\ v7' = v7 \/ v7' = "idle"
    BY <1>3 DEF EspWifi!EnsureStarted
  <2>2. DOMAIN v1' = RadioFields /\ v1'.link = v1.link /\ v1'.ip = v1.ip /\ v1'.scan = v1.scan
    <3>1. CASE v1' = v1
      BY <1>1, <3>1 DEF AirInv
    <3>2. CASE EspWifi!ApplyPowerSave([v1 EXCEPT !.on = TRUE])
      BY <1>1, <3>2 DEF EspWifi!ApplyPowerSave, AirInv, RadioFields
    <3> QED BY <1>3, <3>1, <3>2 DEF EspWifi!EnsureStarted
  <2>3. v9 = "scanStart" => v5
    BY DEF EspWifiNow, EspWifiUp
  <2>4. v9' # "halt" /\ (v9' \in {"scanStart", "scan"} => v5) /\ v9 # "join"
    BY <2>1, <2>3
  <2> QED BY <2>1, <2>2, <2>4, EspWifiRests
<1>4. CASE EspWifi!StartScan
  <2>1. /\ v9 = "scan" /\ v9' = "idle" /\ v5 /\ v3' = v3 /\ v5' = v5 /\ v13' = v13
        /\ v11' = v11 /\ v12' = v12 /\ v14' = v14
    BY <1>4 DEF EspWifi!StartScan, EspWifi!Goto, EspWifi!own_vars, EspWifiNow, EspWifiUp
  <2>2. CASE BkWifi!Scan /\ v7' = "scanning" /\ v15' = v15 \ {"ScanDone"}
    <3>1. AirInv(v1, v2)' /\ AirKeeps(v1, v2, v1', v2') /\ v1'.scan
      BY <1>1, <2>2, RadioScans
    <3>2. EspWifiIp(v1, v2, v11, v14, v15)'
      BY <2>1, <2>2, <3>1, EspWifiKeepsIp
    <3> QED BY <2>1, <2>2, <3>1, <3>2 DEF EspWifiNow, EspWifiUp, EspWifiState
  <2>3. CASE v7' = "idle" /\ v1' = v1 /\ v2' = v2 /\ v15' = v15
    BY <2>1, <2>3 DEF EspWifiNow, EspWifiUp, EspWifiIp, EspWifiState
  <2> QED BY <1>4, <2>2, <2>3, SameRadio DEF EspWifi!StartScan
<1>5. CASE EspWifi!StopScan
  <2>1. v9' = "idle" /\ v9 = "idle" /\ BkWifi!AbortScan /\ EspWifi!ApiFrame /\ v7' # "scanning" /\ (v7' = v7 \/ v7' = "idle")
    BY <1>5, SameRadio DEF EspWifi!StopScan, EspWifi!Goto
  <2>2. AirInv(v1, v2)' /\ AirKeeps(v1, v2, v1', v2')
    BY <1>1, <2>1, RadioScans
  <2> QED BY <2>1, <2>2, EspWifiCalls
<1> QED BY <1>2, <1>3, <1>4, <1>5

\* A connect leaves the network before it joins one.
LEMMA EspWifiConnects ==
    ASSUME EspWifiNow, EspWifi!BeginConnect \/ EspWifi!LeaveNetwork \/ EspWifi!StopRadio \/ EspWifi!BeginJoin \/ EspWifi!FinishJoin
    PROVE  EspWifiNow'
<1>1. AirInv(v1, v2) /\ EspWifi!ApiFrame /\ (v9 = "halt" => v7 # "scanning")
  BY DEF EspWifiNow, EspWifiUp, EspWifi!BeginConnect, EspWifi!LeaveNetwork, EspWifi!StopRadio,
       EspWifi!BeginJoin, EspWifi!FinishJoin
<1>2. CASE EspWifi!BeginConnect
  <2>1. v9 = "idle" /\ v9' = "leave" /\ v7' = v7
    BY <1>2 DEF EspWifi!BeginConnect, EspWifi!Goto
  <2>2. CASE v1' = v1 /\ v2' = v2
    <3>1. v9' # "halt" /\ v9' \notin {"scanStart", "scan"} /\ v9 # "join"
      BY <2>1
    <3> QED BY <1>1, <2>1, <2>2, <3>1, EspWifiIdles
  <2>3. CASE BkWifi!AbortScan
    <3>1. AirInv(v1, v2)' /\ AirKeeps(v1, v2, v1', v2') /\ (v1.scan => v1'.scan \/ Has(v2', {"ScanDone"}))
      BY <1>1, <2>3, RadioScans
    <3> QED BY <1>1, <2>1, <3>1, EspWifiCalls
  <2> QED BY <1>2, <2>2, <2>3, SameRadio DEF EspWifi!BeginConnect
<1>3. CASE EspWifi!LeaveNetwork
  <2>1. v9 = "leave" /\ v7' = v7
    BY <1>3 DEF EspWifi!LeaveNetwork, EspWifi!Goto
  <2>2. CASE v7 = "connected"
    <3>1. v9' = "halt" /\ BkWifi!Leave
      BY <1>3, <2>2, SameRadio DEF EspWifi!LeaveNetwork, EspWifi!Goto
    <3>2. AirInv(v1, v2)' /\ AirKeeps(v1, v2, v1', v2')
      BY <1>1, <3>1, RadioDrops
    <3> QED BY <1>1, <2>1, <2>2, <3>1, <3>2, EspWifiCalls
  <2>3. CASE v7 # "connected"
    <3>1. v9' = "connStart" /\ v1' = v1 /\ v2' = v2
      BY <1>3, <2>3 DEF EspWifi!LeaveNetwork, EspWifi!Goto
    <3>2. v9' # "halt" /\ v9' \notin {"scanStart", "scan"} /\ v9 # "join"
      BY <2>1, <3>1
    <3> QED BY <1>1, <2>1, <3>1, <3>2, EspWifiIdles
  <2> QED BY <2>2, <2>3
<1>4. CASE EspWifi!StopRadio
  <2>1. v9 = "halt" /\ v9' \in {"connStart", "idle"}
    BY <1>4 DEF EspWifi!StopRadio, EspWifi!Goto
  <2>2. CASE BkWifi!Stop /\ v7' = v7
    <3>1. AirInv(v1, v2)' /\ AirKeeps(v1, v2, v1', v2')
      BY <1>1, <2>2, RadioDrops
    <3> QED BY <1>1, <2>1, <2>2, <3>1, EspWifiCalls
  <2>3. CASE v7' = "idle" /\ v1' = v1 /\ v2' = v2
    <3>1. v9' # "halt" /\ v9' \notin {"scanStart", "scan"}
      BY <2>1
    <3> QED BY <1>1, <2>1, <2>3, <3>1, EspWifiIdles
  <2> QED BY <1>4, <2>2, <2>3, SameRadio DEF EspWifi!StopRadio
<1>5. CASE EspWifi!BeginJoin
  <2>1. v1' = v1 /\ v2' = v2 /\ v9' = "join" /\ v7' = "connecting"
    BY <1>5 DEF EspWifi!BeginJoin, EspWifi!Goto
  <2>2. v9' # "halt" /\ v9' \notin {"scanStart", "scan"}
    BY <2>1
  <2> QED BY <1>1, <2>1, <2>2, EspWifiIdles
<1>6. CASE EspWifi!FinishJoin
  <2>1. v9 = "join" /\ v9' = "idle"
    BY <1>6 DEF EspWifi!FinishJoin, EspWifi!Goto
  <2>2. CASE BkWifi!Join /\ v7' = v7
    <3>1. AirInv(v1, v2)' /\ AirKeeps(v1, v2, v1', v2') /\ v1'.link = "joining"
      BY <1>1, <2>2, RadioDrops
    <3>2. v1'.scan = v1.scan
      BY <1>1, <2>2 DEF BkWifi!Join, AirInv, RadioFields
    <3> QED BY <1>1, <2>1, <2>2, <3>1, <3>2, EspWifiCalls
  <2>3. CASE v7' = "idle" /\ v1' = v1 /\ v2' = v2
    <3>1. v9' # "halt" /\ v9' \notin {"scanStart", "scan"}
      BY <2>1
    <3> QED BY <1>1, <2>1, <2>3, <3>1, EspWifiIdles
  <2> QED BY <1>6, <2>2, <2>3, SameRadio DEF EspWifi!FinishJoin
<1> QED BY <1>2, <1>3, <1>4, <1>5, <1>6

\* A disconnect, and the power save mode.
LEMMA EspWifiLeaves ==
    ASSUME EspWifiNow, EspWifi!BeginDisconnect \/ EspWifi!FinishDisconnect \/ EspWifi!SetPowerSave
    PROVE  EspWifiNow'
<1>1. AirInv(v1, v2) /\ EspWifi!ApiFrame
  BY DEF EspWifiNow, EspWifi!BeginDisconnect, EspWifi!FinishDisconnect, EspWifi!SetPowerSave
<1>2. CASE EspWifi!BeginDisconnect
  <2>1. v9 = "idle" /\ v9' = "drop" /\ v7' = v7 /\ BkWifi!Leave
    BY <1>2, SameRadio DEF EspWifi!BeginDisconnect, EspWifi!Goto
  <2>2. AirInv(v1, v2)' /\ AirKeeps(v1, v2, v1', v2')
    BY <1>1, <2>1, RadioDrops
  <2>3. v1'.scan = v1.scan
    BY <1>1, <2>1 DEF BkWifi!Leave, BkWifi!Down, AirInv, RadioFields
  <2> QED BY <1>1, <2>1, <2>2, <2>3, EspWifiCalls
<1>3. CASE EspWifi!FinishDisconnect
  <2>1. v9 = "drop" /\ v9' = "idle" /\ v7' = "idle"
    BY <1>3 DEF EspWifi!FinishDisconnect, EspWifi!Goto
  <2>2. CASE BkWifi!Stop
    <3>1. AirInv(v1, v2)' /\ AirKeeps(v1, v2, v1', v2')
      BY <1>1, <2>2, RadioDrops
    <3> QED BY <1>1, <2>1, <3>1, EspWifiCalls
  <2>3. CASE v1' = v1 /\ v2' = v2
    <3>1. v9' # "halt" /\ v9' \notin {"scanStart", "scan"}
      BY <2>1
    <3> QED BY <1>1, <2>1, <2>3, <3>1, EspWifiIdles
  <2> QED BY <1>3, <2>2, <2>3, SameRadio DEF EspWifi!FinishDisconnect
<1>4. CASE EspWifi!SetPowerSave
  <2>1. v2' = v2 /\ v9 = "idle" /\ v9' = "idle" /\ v7' = v7
    BY <1>4 DEF EspWifi!SetPowerSave, EspWifi!Goto
  <2>2. DOMAIN v1' = RadioFields /\ v1'.link = v1.link /\ v1'.ip = v1.ip /\ v1'.scan = v1.scan
    <3>1. CASE v1' = v1
      BY <1>1, <3>1 DEF AirInv
    <3>2. CASE \E ok \in BOOLEAN : v1' = [v1 EXCEPT !.ps = IF ok THEN v8' ELSE @]
      BY <1>1, <3>2 DEF AirInv, RadioFields
    <3> QED BY <1>4, <3>1, <3>2 DEF EspWifi!SetPowerSave
  <2>3. v9' # "halt" /\ v9' \notin {"scanStart", "scan"} /\ v9 # "join"
    BY <2>1
  <2> QED BY <1>1, <2>1, <2>2, <2>3, EspWifiRests
<1> QED BY <1>2, <1>3, <1>4

\* So all steps keep what is so of the station,
LEMMA EspWifiStep ==
    ASSUME EspWifiNow, EspWifi!Next
    PROVE  EspWifiNow'
BY EspWifiBoots, EspWifiListens, EspWifiAir, EspWifiHandles, EspWifiDelivers, EspWifiScans, EspWifiConnects,
     EspWifiLeaves
   DEF EspWifi!Next, EspWifi!ApiStep

\* and with it what it promises.
LEMMA EspWifiHolds ==
    ASSUME EspWifiNow
    PROVE  EspWifi!IpIsCurrent /\ EspWifi!StateIsBacked
<1>1. /\ \A k : (Has(v2, {k}) <=> EspWifi!Pending(k)) /\ (Has(v11, {k}) <=> EspWifi!Queued(k))
      /\ Has(v2, Losses) <=> EspWifi!Pending("StaDisconnected") \/ EspWifi!Pending("LostIp")
      /\ Has(v11, Losses) <=> EspWifi!Queued("StaDisconnected") \/ EspWifi!Queued("LostIp")
  BY DEF Has, Losses, EspWifi!Pending, EspWifi!Queued
<1>2. EspWifi!IpIsCurrent
  BY <1>1 DEF EspWifiNow, EspWifiIp, EspWifi!IpIsCurrent, Dropped, Losses
<1>3. EspWifi!StateIsBacked
  BY <1>1 DEF EspWifiNow, EspWifiState, EspWifi!StateIsBacked, EspWifi!ConnectedIsBacked,
       EspWifi!ConnectingIsBacked,
     EspWifi!ScanningIsBacked
<1> QED BY <1>2, <1>3

----------------------------------------------------------------------------
(* What the stations' driver has been told to do, and what init has made.     *)

\* no move of the radio changes its power saving,
LEMMA RadioKeepsPs ==
    ASSUME DOMAIN v1 = RadioFields,
           \/ EspWifi!Leave \/ EspWifi!Stop \/ EspWifi!Join \/ EspWifi!Scan \/ EspWifi!AbortScan
           \/ EspWifi!Associate \/ EspWifi!LinkFails \/ EspWifi!GetIp \/ EspWifi!ScanEnds \/ EspWifi!LoseIp
    PROVE  v1'.ps = v1.ps
BY DEF RadioFields, EspWifi!Leave, EspWifi!Stop, EspWifi!Join, EspWifi!Scan, EspWifi!AbortScan, EspWifi!Associate,
       EspWifi!LinkFails, EspWifi!GetIp, EspWifi!ScanEnds, EspWifi!LoseIp, EspWifi!Air, EspWifi!Down

\* of the Beken's neither;
LEMMA BkRadioKeepsPs ==
    ASSUME DOMAIN v1 = RadioFields,
           \/ BkWifi!Leave \/ BkWifi!Join \/ BkWifi!Scan \/ BkWifi!AbortScan
           \/ BkWifi!Associate \/ BkWifi!LinkFails \/ BkWifi!GetIp \/ BkWifi!ScanEnds
    PROVE  v1'.ps = v1.ps
BY DEF RadioFields, BkWifi!Leave, BkWifi!Join, BkWifi!Scan, BkWifi!AbortScan, BkWifi!Associate,
       BkWifi!LinkFails, BkWifi!GetIp, BkWifi!ScanEnds, BkWifi!Air, BkWifi!Down

\* The Beken station reports the driver's mode,
LEMMA BkPowerSave ==
    ASSUME BkWifiNow, BkWifi!PowerSaveKept, BkWifi!Next
    PROVE  BkWifi!PowerSaveKept'
<1>1. DOMAIN v1 = RadioFields
  BY DEF BkWifiNow, BkWifiInv, AirInv
<1>2. CASE v6' = v6 /\ v12' = v12 /\ v1'.ps = v1.ps
  BY <1>2 DEF BkWifi!PowerSaveKept
<1>3. CASE BkWifi!SetPowerSave
  BY <1>1, <1>3 DEF BkWifi!SetPowerSave, BkWifi!PowerSaveKept, RadioFields
<1>4. CASE \/ BkWifi!Register \/ BkWifi!SetHandler \/ BkWifi!EmitScanResults \/ BkWifi!SettleScan
           \/ BkWifi!Connected \/ BkWifi!Disconnected \/ BkWifi!GotIp \/ BkWifi!LostIp
  <2>1. v1' = v1 /\ v6' = v6 /\ v12' = v12
    BY <1>4 DEF BkWifi!Register, BkWifi!SetHandler, BkWifi!EmitScanResults, BkWifi!SettleScan, BkWifi!Connected,
         BkWifi!Disconnected, BkWifi!GotIp, BkWifi!LostIp, BkWifi!CbFrame
  <2> QED BY <1>2, <2>1
<1>5. CASE BkWifi!DhcpTimeout \/ BkWifi!AirMoves
  <2>1. v6' = v6 /\ v12' = v12
    BY <1>5 DEF BkWifi!DhcpTimeout, BkWifi!AirMoves
  <2>2. v1'.ps = v1.ps
    BY <1>1, <1>5, BkRadioKeepsPs DEF BkWifi!DhcpTimeout, BkWifi!AirMoves, BkWifi!Down, RadioFields
  <2> QED BY <1>2, <2>1, <2>2
<1>6. CASE \/ BkWifi!BeginScan \/ BkWifi!FinishScan \/ BkWifi!StopScan \/ BkWifi!BeginConnect
           \/ BkWifi!FinishConnect \/ BkWifi!Disconnect
  <2>1. v6' = v6 /\ v12' = v12
    BY <1>6 DEF BkWifi!BeginScan, BkWifi!FinishScan, BkWifi!StopScan, BkWifi!BeginConnect, BkWifi!FinishConnect,
         BkWifi!Disconnect
  <2>2. v1' = v1 \/ BkWifi!Scan \/ BkWifi!AbortScan \/ BkWifi!Join \/ BkWifi!Leave
    BY <1>6 DEF BkWifi!BeginScan, BkWifi!FinishScan, BkWifi!StopScan, BkWifi!BeginConnect, BkWifi!FinishConnect,
         BkWifi!Disconnect
  <2> QED BY <1>1, <1>2, <2>1, <2>2, BkRadioKeepsPs
<1> QED BY <1>3, <1>4, <1>5, <1>6 DEF BkWifi!Next

\* the ESP32's is the one last asked for, over stops and starts of the radio.
LEMMA EspPowerSave ==
    ASSUME EspWifiNow, EspWifi!PowerSaveKept, EspWifi!Next
    PROVE  EspWifi!PowerSaveKept'
<1>1. DOMAIN v1 = RadioFields
  BY DEF EspWifiNow, AirInv
<1>2. CASE v8' = v8 /\ v16' = v16 /\ v6' = v6 /\ v1'.ps = v1.ps
  BY <1>2 DEF EspWifi!PowerSaveKept, EspWifi!PowerSave
<1>3. CASE ~v6'
  BY <1>3 DEF EspWifi!PowerSaveKept
<1>4. CASE EspWifi!SetPowerSave
  BY <1>1, <1>4 DEF EspWifi!SetPowerSave, EspWifi!PowerSaveKept, EspWifi!PowerSave, RadioFields
<1>5. ASSUME EspWifi!ApplyPowerSave([v1 EXCEPT !.on = TRUE]), v8' = v8
      PROVE  EspWifi!PowerSaveKept'
  BY <1>1, <1>5 DEF EspWifi!ApplyPowerSave, EspWifi!PowerSaveKept, EspWifi!PowerSave, RadioFields
<1>6. CASE EspWifi!StartWifi \/ EspWifi!EnsureStarted
  <2>1. v8' = v8
    BY <1>6 DEF EspWifi!StartWifi, EspWifi!EnsureStarted
  <2>2. \/ v1' = v1 /\ v6' = v6 /\ v16' = v16
        \/ EspWifi!ApplyPowerSave([v1 EXCEPT !.on = TRUE])
    BY <1>6 DEF EspWifi!StartWifi, EspWifi!EnsureStarted
  <2> QED BY <1>2, <1>5, <2>1, <2>2
<1>7. CASE \/ EspWifi!CreateQueue \/ EspWifi!CreateTask \/ EspWifi!CreateNetif \/ EspWifi!InitDriver
           \/ EspWifi!RegisterHandlers \/ EspWifi!SetHandler \/ EspWifi!ClearHandler \/ EspWifi!HandleEvent
           \/ EspWifi!DeliverEvent \/ EspWifi!EmitScanResults \/ EspWifi!SettleScan
  <2>1. v8' = v8 /\ v16' = v16 /\ v6' = v6 /\ v1' = v1
    BY <1>7 DEF EspWifi!CreateQueue, EspWifi!CreateTask, EspWifi!CreateNetif, EspWifi!InitDriver,
         EspWifi!RegisterHandlers, EspWifi!SetHandler, EspWifi!ClearHandler, EspWifi!HandleEvent,
         EspWifi!DeliverEvent, EspWifi!EmitScanResults, EspWifi!SettleScan, EspWifi!BootFrame, EspWifi!api_vars
  <2> QED BY <1>2, <2>1
<1>8. CASE EspWifi!AirMoves
  BY <1>1, <1>2, <1>8, RadioKeepsPs DEF EspWifi!AirMoves, EspWifi!api_vars
<1>9. CASE \/ EspWifi!BeginScan \/ EspWifi!StartScan \/ EspWifi!StopScan \/ EspWifi!BeginConnect
           \/ EspWifi!LeaveNetwork \/ EspWifi!StopRadio \/ EspWifi!BeginJoin \/ EspWifi!FinishJoin
           \/ EspWifi!BeginDisconnect \/ EspWifi!FinishDisconnect
  <2>1. v8' = v8 /\ v16' = v16 /\ (v6' = v6 \/ ~v6')
    BY <1>9 DEF EspWifi!BeginScan, EspWifi!StartScan, EspWifi!StopScan, EspWifi!BeginConnect, EspWifi!LeaveNetwork,
         EspWifi!StopRadio, EspWifi!BeginJoin, EspWifi!FinishJoin, EspWifi!BeginDisconnect, EspWifi!FinishDisconnect
  <2>2. \/ v1' = v1 \/ EspWifi!Scan \/ EspWifi!AbortScan \/ EspWifi!Leave \/ EspWifi!Stop \/ EspWifi!Join
    BY <1>9 DEF EspWifi!BeginScan, EspWifi!StartScan, EspWifi!StopScan, EspWifi!BeginConnect, EspWifi!LeaveNetwork,
         EspWifi!StopRadio, EspWifi!BeginJoin, EspWifi!FinishJoin, EspWifi!BeginDisconnect, EspWifi!FinishDisconnect
  <2> QED BY <1>1, <1>2, <1>3, <2>1, <2>2, RadioKeepsPs
<1> QED BY <1>4, <1>6, <1>7, <1>8, <1>9 DEF EspWifi!Next, EspWifi!Boot, EspWifi!ApiStep

\* what a running or failed init has made, stage by stage
Unheard == [h \in EspWifi!Handlers |-> 0]
Heard   == [h \in EspWifi!Handlers |-> 1]
EspWifiMade(boot, own, ini) ==
    /\ own \in [task : BOOLEAN, netif : BOOLEAN, regs : [EspWifi!Handlers -> Nat]]
    /\ ~own.netif => own.regs = Unheard
    /\ boot \in {"netif", "wifi", "handlers", "mode"} => own.task
    /\ boot \in {"wifi", "handlers"} => own.netif /\ own.regs = Unheard
    /\ boot = "mode" => own.netif /\ own.regs = Heard
    /\ ini => own.task /\ own.netif /\ own.regs = Heard
EspWifiWhole == EspWifiMade(v3, v4, v5)

\* A stage is only passed with the ones before it whole, and an interface is
\* made once, before any handler: so each handler is registered once.
LEMMA EspWifiMakes ==
    ASSUME EspWifiNow, EspWifiWhole, EspWifi!Next
    PROVE  EspWifiWhole'
<1> USE DEF EspWifiWhole, EspWifiMade
<1>1. v5 => v3 = "none"
  BY DEF EspWifiNow, EspWifiUp
<1>2. CASE EspWifi!CreateQueue
  BY <1>2 DEF EspWifi!CreateQueue, EspWifi!BootFrame
<1>3. CASE EspWifi!CreateTask
  BY <1>1, <1>3 DEF EspWifi!CreateTask, EspWifi!Stage, EspWifi!BootFrame
<1>4. CASE EspWifi!CreateNetif
  BY <1>1, <1>4 DEF EspWifi!CreateNetif, EspWifi!NetifRefused, EspWifi!Stage, EspWifi!BootFrame
<1>5. CASE EspWifi!InitDriver
  BY <1>1, <1>5 DEF EspWifi!InitDriver, EspWifi!Stage, EspWifi!BootFrame
<1>6. CASE EspWifi!RegisterHandlers
  <2>1. PICK done \in SUBSET EspWifi!Handlers :
           /\ v3' = "mode" <=> done = EspWifi!Handlers
           /\ v4' = [v4 EXCEPT !.regs = [h \in EspWifi!Handlers |-> IF h \in done THEN v4.regs[h] + 1 ELSE v4.regs[h]]]
    BY <1>6 DEF EspWifi!RegisterHandlers, EspWifi!Handlers
  <2>2. v3 = "handlers" /\ v3' \in {"mode", "none"} /\ v5' = v5 /\ ~v5
    BY <1>1, <1>6 DEF EspWifi!RegisterHandlers, EspWifi!Stage
  <2>3. v4.regs = Unheard /\ v4.netif /\ v4.task
    BY <2>2
  <2>4. DOMAIN v4' = DOMAIN v4 /\ v4'.task = v4.task /\ v4'.netif = v4.netif
        /\ v4'.regs = [h \in EspWifi!Handlers |-> IF h \in done THEN v4.regs[h] + 1 ELSE v4.regs[h]]
    BY <2>1
  <2>5. done = EspWifi!Handlers => v4'.regs = Heard
    BY <2>3, <2>4 DEF Unheard, Heard
  <2> QED BY <2>1, <2>2, <2>3, <2>4, <2>5
<1>7. CASE EspWifi!StartWifi
  <2>1. v3 = "mode" /\ v3' = "none" /\ v4' = v4
    BY <1>7 DEF EspWifi!StartWifi
  <2> QED BY <2>1
<1>8. CASE \/ EspWifi!SetHandler \/ EspWifi!ClearHandler \/ EspWifi!AirMoves \/ EspWifi!HandleEvent
           \/ EspWifi!DeliverEvent \/ EspWifi!EmitScanResults \/ EspWifi!SettleScan \/ EspWifi!ApiStep
  <2>1. v3' = v3 /\ v4' = v4 /\ v5' = v5
    BY <1>8 DEF EspWifi!SetHandler, EspWifi!ClearHandler, EspWifi!AirMoves, EspWifi!HandleEvent,
         EspWifi!DeliverEvent, EspWifi!EmitScanResults, EspWifi!SettleScan, EspWifi!ApiStep, EspWifi!own_vars,
         EspWifi!BeginScan, EspWifi!EnsureStarted, EspWifi!StartScan, EspWifi!StopScan, EspWifi!BeginConnect,
         EspWifi!LeaveNetwork, EspWifi!StopRadio, EspWifi!BeginJoin, EspWifi!FinishJoin, EspWifi!BeginDisconnect,
         EspWifi!FinishDisconnect, EspWifi!SetPowerSave, EspWifi!ApiFrame
  <2> QED BY <2>1
<1> QED BY <1>2, <1>3, <1>4, <1>5, <1>6, <1>7, <1>8 DEF EspWifi!Next, EspWifi!Boot

----------------------------------------------------------------------------
(* What a get answers.                                                       *)

\* a get of the Beken preferences that has seen a shorter value is marked
Reads(x, db) ==
    /\ x.at \in Nat /\ x.len \in Nat
    /\ x.op = "read" => /\ x.full \in BkPref!FullKeys /\ x.at <= x.len
                        /\ db[x.full].there /\ x.at < db[x.full].len => x.grew
BkPrefReads(db, pc) == /\ \A f \in BkPref!FullKeys : db[f].len \in Nat
                       /\ \A c \in Clients : Reads(pc[c], db)
BkPrefReadsNow == BkPrefReads(v2, v4)

\* as nobody is at first,
LEMMA ReadsIdle ==
    ASSUME NEW db
    PROVE  Reads(BkPref!Idle, db)
BY DEF Reads, BkPref!Idle

\* one client goes on, over the same database,
LEMMA BkReadsGoOn ==
    ASSUME BkPrefNow, BkPrefReadsNow, NEW c \in Clients, NEW r, BkPref!Set(c, r), Reads(r, v2), BkPref!KeepDb
    PROVE  BkPrefReadsNow'
<1>1. v2' = v2 /\ DOMAIN v4 = Clients /\ v4' = [v4 EXCEPT ![c] = r]
  BY DEF BkPref!KeepDb, BkPref!Set, BkPrefNow, BkPrefInv, BkPrefCalls
<1>2. v4'[c] = r /\ \A d \in Clients \ {c} : v4'[d] = v4[d]
  BY <1>1
<1>3. \A d \in Clients : Reads(v4'[d], v2')
  BY <1>1, <1>2 DEF BkPrefReadsNow, BkPrefReads
<1> QED BY <1>1, <1>3 DEF BkPrefReadsNow, BkPrefReads

\* to another stage of its call,
LEMMA BkReadsStage ==
    ASSUME BkPrefNow, BkPrefReadsNow, NEW c \in Clients, NEW op, op # "read", NEW saved
    PROVE  /\ Reads([v4[c] EXCEPT !.op = op], v2)
           /\ Reads([v4[c] EXCEPT !.op = op, !.saved = saved], v2)
           /\ \A f : Reads([v4[c] EXCEPT !.op = op, !.full = f], v2)
           /\ \A a \in Nat : Reads([v4[c] EXCEPT !.op = op, !.at = a], v2)
<1>1. Call(v4[c]) /\ Reads(v4[c], v2)
  BY DEF BkPrefNow, BkPrefInv, BkPrefCalls, BkPrefReadsNow, BkPrefReads
<1>2. Reads([v4[c] EXCEPT !.op = op], v2) /\ Reads([v4[c] EXCEPT !.op = op, !.saved = saved], v2)
  BY <1>1 DEF Call, Reads
<1>3. \A f : Reads([v4[c] EXCEPT !.op = op, !.full = f], v2)
  BY <1>1 DEF Call, Reads
<1>4. \A a \in Nat : Reads([v4[c] EXCEPT !.op = op, !.at = a], v2)
  BY <1>1 DEF Call, Reads
<1> QED BY <1>2, <1>3, <1>4

\* or deletes a key, which nobody then finds;
LEMMA BkReadsDelete ==
    ASSUME BkPrefNow, BkPrefReadsNow, NEW c \in Clients, NEW r, BkPref!Set(c, r), Reads(r, v2), r.op # "read",
           NEW f, BkPref!Change(f, FALSE, 0)
    PROVE  BkPrefReadsNow'
<1>1. /\ DOMAIN v4 = Clients /\ v4' = [v4 EXCEPT ![c] = r] /\ DOMAIN v2 = BkPref!FullKeys
      /\ v2' = [v2 EXCEPT ![f] = [there |-> FALSE, age |-> v3, len |-> 0]]
  BY DEF BkPref!Change, BkPref!Set, BkPrefNow, BkPrefInv, BkPrefCalls, BkPrefAges
<1>2. v4'[c] = r /\ \A d \in Clients \ {c} : v4'[d] = v4[d]
  BY <1>1
<1>3. ASSUME NEW g \in BkPref!FullKeys
      PROVE  v2'[g] = v2[g] \/ (~v2'[g].there /\ v2'[g].len = 0)
  BY <1>1
<1>4. \A g \in BkPref!FullKeys : v2'[g].len \in Nat
  BY <1>3 DEF BkPrefReadsNow, BkPrefReads
<1>5. ASSUME NEW d \in Clients PROVE Reads(v4'[d], v2')
  <2>1. Reads(v4'[d], v2)
    BY <1>2 DEF BkPrefReadsNow, BkPrefReads
  <2> QED BY <1>3, <2>1 DEF Reads
<1> QED BY <1>4, <1>5 DEF BkPrefReadsNow, BkPrefReads

\* or puts one, and those that have seen it shorter are marked.
LEMMA BkReadsPut ==
    ASSUME BkPrefNow, BkPrefReadsNow, NEW c \in Clients, BkPref!FinishPut(c)
    PROVE  BkPrefReadsNow'
<1>1. PICK f, n : f = v4[c].full /\ n = v4[c].len
  OBVIOUS
<1>2. /\ DOMAIN v4 = Clients /\ DOMAIN v2 = BkPref!FullKeys /\ n \in Nat
      /\ v2' = [v2 EXCEPT ![f] = [there |-> TRUE, age |-> v3, len |-> n]]
      /\ v4' = [BkPref!Seen(f, n) EXCEPT ![c] = BkPref!Idle]
  BY <1>1 DEF BkPref!FinishPut, BkPref!Change, BkPrefNow, BkPrefInv, BkPrefCalls, BkPrefAges, BkPrefReadsNow,
     BkPrefReads, Reads
<1>3. /\ v4'[c] = BkPref!Idle
      /\ \A d \in Clients \ {c} :
            v4'[d] = [v4[d] EXCEPT !.grew = v4[d].grew \/ (v4[d].op = "read" /\ v4[d].full = f /\ n > v4[d].at)]
  BY <1>2 DEF BkPref!Seen
<1>4. \A g \in BkPref!FullKeys : IF g = f THEN v2'[g].len = n ELSE v2'[g] = v2[g]
  BY <1>2
<1>5. \A g \in BkPref!FullKeys : v2'[g].len \in Nat
  BY <1>2, <1>4 DEF BkPrefReadsNow, BkPrefReads
<1>6. ASSUME NEW d \in Clients \ {c} PROVE Reads(v4'[d], v2')
  <2>1. Call(v4[d]) /\ Reads(v4[d], v2)
    BY DEF BkPrefNow, BkPrefInv, BkPrefCalls, BkPrefReadsNow, BkPrefReads
  <2>2. /\ v4'[d].at = v4[d].at /\ v4'[d].len = v4[d].len /\ v4'[d].op = v4[d].op /\ v4'[d].full = v4[d].full
        /\ v4'[d].grew = (v4[d].grew \/ (v4[d].op = "read" /\ v4[d].full = f /\ n > v4[d].at))
    BY <1>3, <2>1 DEF Call
  <2> QED BY <1>2, <1>4, <2>1, <2>2 DEF Reads
<1>7. \A d \in Clients : Reads(v4'[d], v2')
  BY <1>3, <1>6, ReadsIdle
<1> QED BY <1>5, <1>7 DEF BkPrefReadsNow, BkPrefReads

\* So every step keeps it,
LEMMA BkReadsStep ==
    ASSUME BkPrefNow, BkPrefReadsNow, BkPref!Next
    PROVE  BkPrefReadsNow'
<1>1. CASE BkPref!Initialise
  BY <1>1 DEF BkPref!Initialise, BkPrefReadsNow
<1>2. CASE BkPref!PowerFails
  <2>1. \A c \in Clients : v4'[c] = BkPref!Idle
    BY <1>2 DEF BkPref!PowerFails
  <2>2. \/ v2' = v2
        \/ \E c \in Clients : \E there :
              v2' = [v2 EXCEPT ![v4[c].full] = [there |-> there, age |-> v3, len |-> v4[c].len]]
    BY <1>2 DEF BkPref!PowerFails, BkPref!Change
  <2>3. DOMAIN v2 = BkPref!FullKeys /\ \A c \in Clients : v4[c].len \in Nat
    BY DEF BkPrefNow, BkPrefInv, BkPrefAges, BkPrefReadsNow, BkPrefReads, Reads
  <2>4. \A f \in BkPref!FullKeys : v2'[f].len \in Nat
    <3>1. CASE v2' = v2
      BY <3>1 DEF BkPrefReadsNow, BkPrefReads
    <3>2. CASE v2' # v2
      <4>1. PICK c, e : c \in Clients /\ v2' = [v2 EXCEPT ![v4[c].full] = e] /\ e.len = v4[c].len
        BY <2>2, <3>2
      <4>2. \A f \in BkPref!FullKeys : v2'[f] = e \/ v2'[f] = v2[f]
        BY <2>3, <4>1
      <4> QED BY <2>3, <4>1, <4>2 DEF BkPrefReadsNow, BkPrefReads
    <3> QED BY <3>1, <3>2
  <2> QED BY <2>1, <2>4, ReadsIdle DEF BkPrefReadsNow, BkPrefReads
<1>3. ASSUME NEW c \in Clients, NEW op \in {"put", "remove", "clear"}, BkPref!Call(c, op)
      PROVE  BkPrefReadsNow'
  <2>1. PICK ns \in {n \in NsNames : BkPref!Valid(n)}, key \in {k \in KeyNames : BkPref!Valid(k)},
             n \in 0..PrefLen :
            BkPref!Set(c, [BkPref!Idle EXCEPT !.op = op, !.ns = ns, !.len = n,
                               !.full = IF op = "clear" THEN <<>> ELSE BkPref!FullKey(ns, key)])
    BY <1>3, Zenon DEF BkPref!Call
  <2>2. PICK r : r = [BkPref!Idle EXCEPT !.op = op, !.ns = ns, !.len = n,
                                         !.full = IF op = "clear" THEN <<>> ELSE BkPref!FullKey(ns, key)]
    OBVIOUS
  <2>3. Reads(r, v2)
    BY <2>2 DEF Reads, BkPref!Idle
  <2>4. BkPref!KeepDb
    BY <1>3 DEF BkPref!Call
  <2> QED BY <2>1, <2>2, <2>3, <2>4, BkReadsGoOn
<1>4. ASSUME NEW c \in Clients, BkPref!BeginGet(c) PROVE BkPrefReadsNow'
  <2>1. PICK f \in BkPref!Here : \E room \in v2[f].len..PrefLen :
            BkPref!Set(c, [BkPref!Idle EXCEPT !.op = "read", !.full = f, !.ns = BkPref!Split(f)[1],
                                              !.at = v2[f].len, !.len = room])
    BY <1>4 DEF BkPref!BeginGet
  <2>2. PICK room \in v2[f].len..PrefLen :
            BkPref!Set(c, [BkPref!Idle EXCEPT !.op = "read", !.full = f, !.ns = BkPref!Split(f)[1],
                                              !.at = v2[f].len, !.len = room])
    BY <2>1
  <2>3. PICK r : r = [BkPref!Idle EXCEPT !.op = "read", !.full = f, !.ns = BkPref!Split(f)[1],
                                         !.at = v2[f].len, !.len = room]
    OBVIOUS
  <2>4. f \in BkPref!FullKeys /\ v2[f].len \in Nat
    BY DEF BkPref!Here, BkPrefReadsNow, BkPrefReads
  <2>5. Reads(r, v2)
    BY <2>3, <2>4 DEF Reads, BkPref!Idle
  <2>6. BkPref!KeepDb
    BY <1>4 DEF BkPref!BeginGet
  <2> QED BY <2>2, <2>3, <2>5, <2>6, BkReadsGoOn
<1>5. ASSUME NEW c \in Clients, BkPref!Return(c) /\ BkPref!KeepDb PROVE BkPrefReadsNow'
  BY <1>5, ReadsIdle, BkReadsGoOn DEF BkPref!Return
<1>6. ASSUME NEW c \in Clients,
             BkPref!BeginPut(c) \/ BkPref!BeginErase(c) \/ BkPref!FinishErase(c) \/ BkPref!BeginRemove(c)
      PROVE  BkPrefReadsNow'
  <2>1. PICK r : /\ BkPref!Set(c, r)
                 /\ \/ r = BkPref!Idle
                    \/ \E op \in {"write", "delete"} : r = [v4[c] EXCEPT !.op = op]
                    \/ \E op \in {"erase", "write"} : \E saved : r = [v4[c] EXCEPT !.op = op, !.saved = saved]
    <3>1. CASE BkPref!Return(c)
      BY <3>1 DEF BkPref!Return
    <3>2. CASE \E op \in {"write", "delete"} : BkPref!Set(c, [v4[c] EXCEPT !.op = op])
      BY <3>2
    <3>3. CASE \E op \in {"erase", "write"} : \E saved : BkPref!Set(c, [v4[c] EXCEPT !.op = op, !.saved = saved])
      BY <3>3
    <3> QED BY <1>6, <3>1, <3>2, <3>3 DEF BkPref!BeginPut, BkPref!BeginErase, BkPref!FinishErase,
              BkPref!BeginRemove, BkPref!Become
  <2>2. Reads(r, v2)
    <3>1. CASE r = BkPref!Idle
      BY <3>1, ReadsIdle
    <3>2. ASSUME NEW op \in {"write", "delete"}, r = [v4[c] EXCEPT !.op = op] PROVE Reads(r, v2)
      <4>1. op # "read"
        OBVIOUS
      <4> QED BY ONLY <3>2, <4>1, BkPrefNow, BkPrefReadsNow, c \in Clients, BkReadsStage
    <3>3. ASSUME NEW op \in {"erase", "write"}, NEW saved, r = [v4[c] EXCEPT !.op = op, !.saved = saved]
          PROVE  Reads(r, v2)
      <4>1. op # "read"
        OBVIOUS
      <4> QED BY ONLY <3>3, <4>1, BkPrefNow, BkPrefReadsNow, c \in Clients, BkReadsStage
    <3> QED BY <2>1, <3>1, <3>2, <3>3
  <2>3. BkPref!KeepDb
    BY <1>6 DEF BkPref!BeginPut, BkPref!BeginErase, BkPref!FinishErase, BkPref!BeginRemove
  <2> QED BY <2>1, <2>2, <2>3, BkReadsGoOn
<1>7. ASSUME NEW c \in Clients, BkPref!FinishRemove(c) PROVE BkPrefReadsNow'
  <2>1. BkPref!Idle.op # "read"
    BY DEF BkPref!Idle
  <2> QED BY <1>5, <1>7, <2>1, ReadsIdle, BkReadsDelete DEF BkPref!FinishRemove, BkPref!Return
<1>8. ASSUME NEW c \in Clients, BkPref!ClearDelete(c) PROVE BkPrefReadsNow'
  <2>1. PICK r : r = [v4[c] EXCEPT !.op = "clear", !.at = 0]
    OBVIOUS
  <2>2. Reads(r, v2) /\ r.op = "clear"
    <3>1. DOMAIN v4[c] = {"op", "full", "ns", "at", "len", "saved", "grew"}
      BY DEF BkPrefNow, BkPrefInv, BkPrefCalls, Call
    <3> QED BY <2>1, <3>1, BkReadsStage
  <2> QED BY <1>5, <1>8, <2>1, <2>2, BkReadsDelete DEF BkPref!ClearDelete
<1>9. ASSUME NEW c \in Clients, BkPref!ClearStep(c) PROVE BkPrefReadsNow'
  <2>1. BkPref!KeepDb /\ v4[c].op = "clear"
    BY <1>9 DEF BkPref!ClearStep, BkPref!At
  <2>2. CASE ~BkPref!Return(c)
    <3>1. PICK next \in BkPref!Here :
              IF BkPref!Matches(next, v4[c].ns) THEN BkPref!Set(c, [v4[c] EXCEPT !.op = "wipe", !.full = next])
              ELSE BkPref!Set(c, [v4[c] EXCEPT !.at = v2[next].age])
      BY <1>9, <2>2 DEF BkPref!ClearStep
    <3>2. PICK r : \/ r = [v4[c] EXCEPT !.op = "wipe", !.full = next] /\ BkPref!Set(c, r)
                   \/ r = [v4[c] EXCEPT !.at = v2[next].age] /\ BkPref!Set(c, r)
      BY <3>1
    <3>3. v2[next].age \in Nat
      BY DEF BkPref!Here, BkPrefNow, BkPrefInv, BkPrefAges
    <3>4. Call(v4[c]) /\ Reads(v4[c], v2)
      BY DEF BkPrefNow, BkPrefInv, BkPrefCalls, BkPrefReadsNow, BkPrefReads
    <3>5. Reads(r, v2)
      BY <2>1, <3>2, <3>3, <3>4 DEF Call, Reads
    <3> QED BY <2>1, <3>2, <3>5, BkReadsGoOn
  <2> QED BY <1>5, <2>1, <2>2
<1>10. ASSUME NEW c \in Clients, BkPref!FinishGet(c) \/ BkPref!FailPut(c) PROVE BkPrefReadsNow'
  BY <1>5, <1>10 DEF BkPref!FinishGet, BkPref!FailPut
<1> QED BY <1>1, <1>2, <1>3, <1>4, <1>6, <1>7, <1>8, <1>9, <1>10, BkReadsPut DEF BkPref!Next

\* and what a get answers is right.
LEMMA BkPrefAnswers ==
    ASSUME BkPrefNow, BkPrefReadsNow, BkPref!GetIsTrue, BkPref!Next
    PROVE  BkPref!GetIsTrue'
<1>1. CASE v6' = v6
  BY <1>1 DEF BkPref!GetIsTrue
<1>2. CASE v6' # v6
  <2>1. PICK c \in Clients : BkPref!FinishGet(c)
    BY <1>2 DEF BkPref!Next, BkPref!Initialise, BkPref!PowerFails, BkPref!Call, BkPref!BeginGet, BkPref!BeginPut,
       BkPref!BeginErase, BkPref!FinishErase, BkPref!FinishPut, BkPref!FailPut, BkPref!BeginRemove,
       BkPref!FinishRemove, BkPref!ClearStep, BkPref!ClearDelete
  <2>2. v4[c].op = "read" /\ v6' = BkPref!Result(c) /\ BkPref!ReadNow(c) = v4[c].at
    BY <1>2, <2>1 DEF BkPref!FinishGet, BkPref!At
  <2>3. Reads(v4[c], v2) /\ v2[v4[c].full].len \in Nat
    BY <2>2 DEF BkPrefReadsNow, BkPrefReads, Reads
  <2>4. v2[v4[c].full].there => BkPref!ReadNow(c) = v2[v4[c].full].len \/ v4[c].grew
    BY <2>2, <2>3 DEF Reads, BkPref!ReadNow
  <2>5. /\ v6'.told = v4[c].at /\ v6'.read = BkPref!ReadNow(c) /\ v6'.grew = v4[c].grew
        /\ v6'.whole = (v2[v4[c].full].there => BkPref!ReadNow(c) = v2[v4[c].full].len)
    BY <2>2 DEF BkPref!Result
  <2> QED BY <2>2, <2>4, <2>5 DEF BkPref!GetIsTrue
<1> QED BY <1>1, <1>2

\* The ESP32's has one look at the length and one at the value.
LEMMA EspPrefAnswers ==
    ASSUME EspPref!GetIsTrue, EspPref!Next
    PROVE  EspPref!GetIsTrue'
<1>1. CASE v7' = v7
  BY <1>1 DEF EspPref!GetIsTrue
<1>2. CASE \E c \in Clients : EspPref!FinishGet(c)
  <2>1. PICK c \in Clients : EspPref!FinishGet(c)
    BY <1>2
  <2>2. v7' = v7 \/ v7' = [told |-> v5[c].len, read |-> v5[c].len]
    BY <2>1 DEF EspPref!FinishGet
  <2> QED BY <1>1, <2>2 DEF EspPref!GetIsTrue
<1> QED BY <1>1, <1>2 DEF EspPref!Next, EspPref!InitFlash, EspPref!WriteOut, EspPref!PowerFails, EspPref!Open,
        EspPref!Close, EspPref!BeginGet, EspPref!Put, EspPref!RemoveKey, EspPref!Clear, EspPref!Commit, EspPref!Sync,
        EspPref!Change, EspPref!Frame

----------------------------------------------------------------------------
(* The theorems.                                                              *)

\* What a GCM context accepts was encrypted just so, whatever was begun and given
\* up on either side before: AcceptedIsAuthentic for every set of texts.
THEOREM GcmAuthentic == BoardSpec => []AcceptedIsAuthentic
<1> DEFINE Inv == part = "gcm" => GcmInv(v2)
<1>1. BoardInit => Inv
  BY Begins DEF GcmInv, Whole, Gcm!AcceptedIsAuthentic, Gcm!Init
<1>2. Inv /\ [BoardNext]_vars => Inv'
  <2> SUFFICES ASSUME Inv, [BoardNext]_vars, part' = "gcm" PROVE GcmInv(v2)'
    OBVIOUS
  <2>1. part = "gcm"
    BY Steps
  <2>2. CASE Gcm!Next
    BY <2>1, <2>2, GcmStep
  <2>3. CASE UNCHANGED vars
    <3>1. v2' = v2 /\ v3' = v3
      BY <2>3, Stays
    <3> QED BY <2>1, <3>1, GcmSends
  <2> QED BY <2>1, <2>2, <2>3, Steps
<1>3. Inv => AcceptedIsAuthentic
  BY DEF GcmInv, AcceptedIsAuthentic
<1> QED BY <1>1, <1>2, <1>3, PTL DEF BoardSpec

\* what is so of the preferences of both boards
PrefsInv == /\ part = "esp prefs" => EspPrefInv(v2, v3, v4, v6)
            /\ part = "bk prefs" => BkPrefNow

\* It is so at first,
LEMMA PrefsBegin ==
    ASSUME BoardInit
    PROVE  PrefsInv
<1>1. EspPref!Init => EspPrefInv(v2, v3, v4, v6)
  BY DEF EspPref!Init, EspPrefInv, EspPref!Gone
<1> QED BY <1>1, Begins, BkPrefBegins DEF PrefsInv

\* and a step keeps it and leaves the other namespaces alone.
LEMMA PrefsStep ==
    ASSUME PrefsInv, [BoardNext]_vars
    PROVE  /\ PrefsInv'
           /\ part = "esp prefs" => EspPref!OnlyOwn
           /\ part = "bk prefs" => BkPref!OnlyOwn
<1>1. part' = part
  BY Steps
<1>2. CASE UNCHANGED vars
  <2>1. v1' = v1 /\ v2' = v2 /\ v3' = v3 /\ v4' = v4 /\ v5' = v5 /\ v6' = v6 /\ v7' = v7 /\ v8' = v8 /\ v9' = v9
    BY <1>2, Stays
  <2>2. BkPrefNow => BkPrefNow'
    BY <2>1 DEF BkPrefNow
  <2>3. EspPrefInv(v2, v3, v4, v6) => EspPrefInv(v2, v3, v4, v6)'
    BY <2>1
  <2>4. EspPref!OnlyOwn /\ BkPref!OnlyOwn
    BY <2>1 DEF EspPref!OnlyOwn, BkPref!OnlyOwn
  <2> QED BY <1>1, <2>2, <2>3, <2>4 DEF PrefsInv
<1>3. CASE part = "esp prefs" /\ EspPref!Next
  BY <1>1, <1>3, EspPrefStep, EspPrefOwn DEF PrefsInv
<1>4. CASE part = "bk prefs" /\ BkPref!Next
  BY <1>1, <1>4, BkPrefStep, BkPrefOwn DEF PrefsInv
<1>5. CASE part # "esp prefs" /\ part # "bk prefs"
  BY <1>1, <1>5 DEF PrefsInv
<1> QED BY <1>2, <1>3, <1>4, <1>5, Steps

\* Whatever was acknowledged survives any loss of power, on both boards, for
\* every number of clients: AckedSurvives.
THEOREM AcksSurvive == BoardSpec => []AckedSurvives
<1>1. BoardInit => PrefsInv
  BY PrefsBegin
<1>2. PrefsInv /\ [BoardNext]_vars => PrefsInv'
  BY PrefsStep
<1>3. PrefsInv => AckedSurvives
  BY DEF PrefsInv, AckedSurvives, EspPrefInv, EspPref!AckedSurvives, BkPrefNow, BkPrefInv, BkPrefAges,
       BkPref!AckedSurvives
<1> QED BY <1>1, <1>2, <1>3, PTL DEF BoardSpec

\* The flash of the Beken board is unprotected only while a client erases, or
\* after a loss of power in an erasure, however calls cross: ProtectionBack.
THEOREM ProtectionReturns == BoardSpec => []ProtectionBack
<1>1. BoardInit => PrefsInv
  BY PrefsBegin
<1>2. PrefsInv /\ [BoardNext]_vars => PrefsInv'
  BY PrefsStep
<1>3. PrefsInv => ProtectionBack
  BY DEF PrefsInv, ProtectionBack, BkPrefNow, BkPrefInv, BkPrefGuard, BkPref!ProtectionBack
<1> QED BY <1>1, <1>2, <1>3, PTL DEF BoardSpec

\* A call changes entries of its own namespace only, prefixes and separators in
\* the names or not: the action property NamespacesApart.
THEOREM NamespacesStayApart == BoardSpec => NamespacesApart
<1>1. BoardInit => PrefsInv
  BY PrefsBegin
<1>2. PrefsInv /\ [BoardNext]_vars => PrefsInv'
  BY PrefsStep
<1>3. PrefsInv /\ [BoardNext]_vars =>
        [/\ part = "esp prefs" => EspPref!OnlyOwn
         /\ part = "bk prefs" => BkPref!OnlyOwn]_vars
  BY PrefsStep
<1> QED BY <1>1, <1>2, <1>3, PTL DEF BoardSpec, NamespacesApart

\* what is so of the WiFi stations of both boards
WifiInv == /\ part = "esp wifi" => EspWifiNow
           /\ part = "bk wifi" => BkWifiNow

\* It is so at first,
LEMMA WifiBegin ==
    ASSUME BoardInit
    PROVE  WifiInv
BY Begins, EspWifiBegins, BkWifiBegins DEF WifiInv

\* and stays so.
LEMMA WifiStep ==
    ASSUME WifiInv, [BoardNext]_vars
    PROVE  WifiInv'
<1>1. part' = part
  BY Steps
<1>2. CASE UNCHANGED vars
  <2>1. /\ v1' = v1 /\ v2' = v2 /\ v3' = v3 /\ v5' = v5 /\ v7' = v7 /\ v9' = v9
        /\ v10' = v10 /\ v11' = v11 /\ v12' = v12 /\ v13' = v13 /\ v14' = v14 /\ v15' = v15
    BY <1>2, Stays
  <2>2. EspWifiNow => EspWifiNow'
    BY <2>1 DEF EspWifiNow
  <2>3. BkWifiNow => BkWifiNow'
    BY <2>1 DEF BkWifiNow
  <2> QED BY <1>1, <2>2, <2>3 DEF WifiInv
<1>3. CASE part = "esp wifi" /\ EspWifi!Next
  BY <1>1, <1>3, EspWifiStep DEF WifiInv
<1>4. CASE part = "bk wifi" /\ BkWifi!Next
  BY <1>1, <1>4, BkWifiStep DEF WifiInv
<1>5. CASE part # "esp wifi" /\ part # "bk wifi"
  BY <1>1, <1>5 DEF WifiInv
<1> QED BY <1>2, <1>3, <1>4, <1>5, Steps

\* The application believes in an address only while the station has one or word
\* of its loss is due, for queues of every length: IpIsCurrent.
THEOREM AddressIsCurrent == BoardSpec => []IpIsCurrent
<1>1. BoardInit => WifiInv
  BY WifiBegin
<1>2. WifiInv /\ [BoardNext]_vars => WifiInv'
  BY WifiStep
<1>3. WifiInv => IpIsCurrent
  BY EspWifiHolds, BkWifiHolds DEF WifiInv, IpIsCurrent
<1> QED BY <1>1, <1>2, <1>3, PTL DEF BoardSpec

\* What the stations' state claims has its cause in the radio or in an event
\* under way, whatever calls, callbacks and the air do between: StateIsBacked.
THEOREM StatesAreBacked == BoardSpec => []StateIsBacked
<1>1. BoardInit => WifiInv
  BY WifiBegin
<1>2. WifiInv /\ [BoardNext]_vars => WifiInv'
  BY WifiStep
<1>3. WifiInv => StateIsBacked
  BY EspWifiHolds, BkWifiHolds DEF WifiInv, StateIsBacked
<1> QED BY <1>1, <1>2, <1>3, PTL DEF BoardSpec

\* A driver that runs has the power saving mode last asked for, unless it
\* refused it, over stops and starts of the radio: both stations' PowerSaveKept.
THEOREM PowerSaveStaysKept ==
    BoardSpec => [](/\ part = "esp wifi" => EspWifi!PowerSaveKept
                    /\ part = "bk wifi" => BkWifi!PowerSaveKept)
<1> DEFINE Kept == /\ part = "esp wifi" => EspWifi!PowerSaveKept
                   /\ part = "bk wifi" => BkWifi!PowerSaveKept
<1>1. BoardInit => WifiInv /\ Kept
  <2>1. EspWifi!Init => EspWifi!PowerSaveKept
    BY DEF EspWifi!Init, EspWifi!PowerSaveKept
  <2>2. BkWifi!Init => BkWifi!PowerSaveKept
    BY DEF BkWifi!Init, BkWifi!PowerSaveKept
  <2> QED BY <2>1, <2>2, Begins, WifiBegin
<1>2. WifiInv /\ Kept /\ [BoardNext]_vars => WifiInv' /\ Kept'
  <2> SUFFICES ASSUME WifiInv, Kept, [BoardNext]_vars PROVE Kept'
    BY WifiStep
  <2>1. CASE UNCHANGED vars
    <3>1. part' = part /\ v1' = v1 /\ v6' = v6 /\ v8' = v8 /\ v12' = v12 /\ v16' = v16
      BY <2>1, Stays
    <3> QED BY <3>1 DEF EspWifi!PowerSaveKept, EspWifi!PowerSave, BkWifi!PowerSaveKept
  <2>2. CASE part = "esp wifi" /\ EspWifi!Next
    BY <2>2, Steps, EspPowerSave DEF WifiInv
  <2>3. CASE part = "bk wifi" /\ BkWifi!Next
    BY <2>3, Steps, BkPowerSave DEF WifiInv
  <2> QED BY <2>1, <2>2, <2>3, Steps
<1> QED BY <1>1, <1>2, PTL DEF BoardSpec

\* A station that came up, after whatever stages of init failed before, has its
\* interface, its task and one handler for each event: the ESP32's InitIsWhole.
THEOREM InitsAreWhole == BoardSpec => [](part = "esp wifi" => EspWifi!InitIsWhole)
<1> DEFINE Made == part = "esp wifi" => EspWifiWhole
<1>1. BoardInit => WifiInv /\ Made
  <2>1. EspWifi!Init => EspWifiWhole
    BY DEF EspWifi!Init, EspWifiWhole, EspWifiMade, Unheard
  <2> QED BY <2>1, Begins, WifiBegin
<1>2. WifiInv /\ Made /\ [BoardNext]_vars => WifiInv' /\ Made'
  <2> SUFFICES ASSUME WifiInv, Made, [BoardNext]_vars PROVE Made'
    BY WifiStep
  <2>1. CASE UNCHANGED vars
    <3>1. part' = part /\ v3' = v3 /\ v4' = v4 /\ v5' = v5
      BY <2>1, Stays
    <3> QED BY <3>1 DEF EspWifiWhole
  <2>2. CASE part = "esp wifi" /\ EspWifi!Next
    BY <2>2, Steps, EspWifiMakes DEF WifiInv
  <2>3. CASE part # "esp wifi"
    BY <2>3, Steps
  <2> QED BY <2>1, <2>2, <2>3, Steps
<1>3. EspWifiWhole => EspWifi!InitIsWhole
  <2> SUFFICES ASSUME EspWifiWhole, v5
               PROVE  v4 = [task |-> TRUE, netif |-> TRUE, regs |-> [h \in EspWifi!Handlers |-> 1]]
    BY DEF EspWifi!InitIsWhole
  <2>1. /\ v4 \in [task : BOOLEAN, netif : BOOLEAN, regs : [EspWifi!Handlers -> Nat]]
        /\ v4.task = TRUE /\ v4.netif = TRUE /\ v4.regs = Heard
    BY DEF EspWifiWhole, EspWifiMade
  <2> QED BY <2>1 DEF Heard
<1> QED BY <1>1, <1>2, <1>3, PTL DEF BoardSpec

\* A get that succeeds read the value whole, however puts and removals cross it,
\* unless the Beken's saw a longer one put between its two looks: GetIsTrue.
THEOREM GetsAreTrue ==
    BoardSpec => [](/\ part = "esp prefs" => EspPref!GetIsTrue
                    /\ part = "bk prefs" => BkPref!GetIsTrue)
<1> DEFINE Reading == part = "bk prefs" => BkPrefReadsNow
           Kept == /\ part = "esp prefs" => EspPref!GetIsTrue
                   /\ part = "bk prefs" => BkPref!GetIsTrue
<1>1. BoardInit => PrefsInv /\ Reading /\ Kept
  <2>1. EspPref!Init => EspPref!GetIsTrue
    BY DEF EspPref!Init, EspPref!GetIsTrue
  <2>2. BkPref!Init => BkPref!GetIsTrue
    BY DEF BkPref!Init, BkPref!GetIsTrue
  <2>3. BkPref!Init => BkPrefReadsNow
    BY ReadsIdle DEF BkPref!Init, BkPrefReadsNow, BkPrefReads
  <2> QED BY <2>1, <2>2, <2>3, Begins, PrefsBegin
<1>2. PrefsInv /\ Reading /\ Kept /\ [BoardNext]_vars => PrefsInv' /\ Reading' /\ Kept'
  <2> SUFFICES ASSUME PrefsInv, Reading, Kept, [BoardNext]_vars PROVE Reading' /\ Kept'
    BY PrefsStep
  <2>1. CASE UNCHANGED vars
    <3>1. part' = part /\ v2' = v2 /\ v4' = v4 /\ v6' = v6 /\ v7' = v7
      BY <2>1, Stays
    <3> QED BY <3>1 DEF BkPrefReadsNow, EspPref!GetIsTrue, BkPref!GetIsTrue
  <2>2. CASE part = "esp prefs" /\ EspPref!Next
    BY <2>2, Steps, EspPrefAnswers
  <2>3. CASE part = "bk prefs" /\ BkPref!Next
    BY <2>3, Steps, BkReadsStep, BkPrefAnswers DEF PrefsInv
  <2> QED BY <2>1, <2>2, <2>3, Steps
<1> QED BY <1>1, <1>2, PTL DEF BoardSpec
=============================================================================
