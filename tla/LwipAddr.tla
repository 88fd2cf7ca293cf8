------------------------------- MODULE LwipAddr -------------------------------
(* Addresses and interfaces between the Zig runtime and lwIP, on both chips:   *)
(* esp/lib/grt/net/binding.c and bk/lib/grt/net/binding.c. Two threads ask;    *)
(* interfaces come, go and change underneath.                                 *)
EXTENDS Naturals, Sequences, SequencesExt, FiniteSets

CONSTANTS Netifs,     \* the esp_netif objects, also their ids
          Bytes,      \* byte values addresses are made of
          ListCap     \* the binding's raw_buf, 16 in the code

VARIABLES chip,       \* esp, bk, or bkv4: built without LWIP_IPV6
          net,        \* the stack: list of interfaces, the default one, their ipv4, index
          conn,       \* the connection: what it is bound to
          asked, told \* the application's last call and its answer
vars == <<chip, net, conn, asked, told>>

Says(rc)      == [rc |-> rc, value |-> <<>>]
Answers(v)    == [rc |-> "ok", value |-> v]

V4 == {[v6 |-> FALSE, bytes |-> <<b, 0, 1, 2>>, zone |-> 0] : b \in Bytes}
V6 == {[v6 |-> TRUE, bytes |-> [i \in 1..16 |-> IF i = 16 THEN b ELSE i], zone |-> 3] : b \in Bytes}
Addrs == V4 \cup V6

Init ==
    /\ chip \in {"esp", "bk", "bkv4"}
    /\ net = [list |-> <<>>, default |-> {}, ip |-> [n \in Netifs |-> 0], idx |-> [n \in Netifs |-> 0]]
    /\ conn = [addr |-> <<>>, if |-> 0] /\ asked = <<"none", {}>> /\ told = Says("none")

----------------------------------------------------------------------------
(* Conversions. A word of lwIP's address is its four bytes as they lie in      *)
(* memory, lowest address first, on little-endian processors.                 *)
\* a word computed with the first byte on top lies in memory the other way round
Stored(word) == Reverse(word)
Htonl(word)  == Reverse(word)
Word(b, w)   == SubSeq(b, 4 * w + 1, 4 * w + 4)

\* mutant: the words are left in the processor's order
ToIpAddrHost(a) == IF a.v6 THEN [v6 |-> TRUE, words |-> [w \in 0..3 |-> Stored(Word(a.bytes, w))], zone |-> a.zone]
                   ELSE [v6 |-> FALSE, words |-> [w \in 0..0 |-> a.bytes], zone |-> 0]

ToIpAddr(a) ==
    IF a.v6 THEN [v6 |-> TRUE, words |-> [w \in 0..3 |-> Stored(Htonl(Word(a.bytes, w)))], zone |-> a.zone]
    ELSE [v6 |-> FALSE, words |-> [w \in 0..0 |-> a.bytes], zone |-> 0]

\* read as a number and turned, the first byte is on top again
Shown(word) == Reverse(Htonl(word))
FromIpAddr(ip) == [v6 |-> ip.v6, zone |-> ip.zone,
                   bytes |-> IF ip.v6 THEN FlattenSeq([w \in 1..4 |-> Shown(ip.words[w - 1])]) ELSE ip.words[0]]

Supported(a) == chip = "bkv4" => ~a.v6

\* bind and connect: an address the build cannot hold never reaches the stack
Bind(a) ==
    /\ asked' = <<"bind", a>>
    /\ \/ ~Supported(a) /\ told' = Says("ERR_VAL") /\ UNCHANGED conn
       \/ Supported(a) /\ told' = Says("ok") /\ conn' = [conn EXCEPT !.addr = <<ToIpAddr(a)>>]
       \/ Supported(a) /\ told' = Says("refused") /\ UNCHANGED conn
    /\ UNCHANGED <<chip, net>>

GetAddr ==
    /\ asked[1] = "bind" /\ asked' = <<"addr", asked[2]>>
    /\ told' = IF conn.addr = <<>> THEN Says("refused") ELSE Answers(FromIpAddr(conn.addr[1]))
    /\ UNCHANGED <<chip, net, conn>>

----------------------------------------------------------------------------
(* Interfaces, on the ESP32.                                                *)
Here == ToSet(net.list)
BindDefaultNetif ==
    /\ chip = "esp" /\ asked' = <<"bindIf", net.default>>
    /\ \/ net.default = {} /\ told' = Says("ERR_RTE") /\ UNCHANGED conn
       \/ \E n \in net.default :
             \/ net.idx[n] \notin 1..255 /\ told' = Says("ERR_IF") /\ UNCHANGED conn
             \/ /\ net.idx[n] \in 1..255 /\ told' = Says("ok")
                /\ conn' = [conn EXCEPT !.if = net.idx[n] % 256]
             \/ net.idx[n] \in 1..255 /\ told' = Says("refused") /\ UNCHANGED conn
    /\ UNCHANGED <<chip, net>>

Info(n) == [id |-> n, default |-> n \in net.default, has4 |-> net.ip[n] # 0, ip |-> net.ip[n]]

\* mutant: a list that does not fit passes for a whole one
NetifListClipped(cap) == [count |-> IF Len(net.list) < cap THEN Len(net.list) ELSE cap,
                          out |-> [i \in 1..(IF Len(net.list) < cap THEN Len(net.list) ELSE cap) |-> Info(net.list[i])]]

\* one more than fits is counted, no more than fits is written
NetifList(cap) ==
    LET n == Len(net.list) IN
    [count |-> IF n <= cap THEN n ELSE cap + 1,
     out |-> [i \in 1..(IF n <= cap THEN n ELSE cap) |-> Info(net.list[i])]]

List(room) ==
    /\ chip = "esp" /\ room > 0
    /\ LET cap == IF room < ListCap THEN room ELSE ListCap
           raw == NetifList(cap)
       IN  told' = IF raw.count > cap THEN Says("BufferTooSmall") ELSE Answers(raw.out)
    /\ asked' = <<"list", Here>> /\ UNCHANGED <<chip, net, conn>>

\* getDefault: the id first, then the list, in which it may be no more
GetDefault ==
    /\ chip = "esp" /\ asked' = <<"default", net.default>>
    /\ told' = Says("none") /\ UNCHANGED <<chip, net, conn>>
FindDefault ==
    /\ chip = "esp" /\ asked[1] = "default"
    /\ LET found == {i \in DOMAIN NetifList(ListCap).out : NetifList(ListCap).out[i].id \in asked[2]} IN
       told' = IF asked[2] = {} THEN Says("null")
               ELSE Answers([id |-> asked[2], gateway |-> {NetifList(ListCap).out[i].ip : i \in found} \ {0}])
    /\ asked' = <<"route", asked[2]>> /\ UNCHANGED <<chip, net, conn>>

SetDefault(n) ==
    /\ chip = "esp" /\ asked' = <<"setDefault", n>>
    /\ \/ n \notin Here /\ told' = Says("unknown") /\ UNCHANGED net
       \/ n \in Here /\ told' = Says("ok") /\ net' = [net EXCEPT !.default = {n}]
       \/ n \in Here /\ told' = Says("refused") /\ UNCHANGED net
    /\ UNCHANGED <<chip, conn>>

----------------------------------------------------------------------------
\* the stack: an interface appears with an index, gets and loses an address
\* (and its gateway with it), goes; the default one is its choice, too
Appear(n, idx) ==
    /\ n \notin Here
    /\ net' = [net EXCEPT !.list = Append(@, n), !.idx[n] = idx]
    /\ UNCHANGED <<chip, conn, asked, told>>
Vanish(n) ==
    /\ n \in Here
    /\ net' = [net EXCEPT !.list = Remove(@, n), !.default = @ \ {n}, !.ip[n] = 0, !.idx[n] = 0]
    /\ UNCHANGED <<chip, conn, asked, told>>
Lease(n, ip) ==
    /\ n \in Here /\ net' = [net EXCEPT !.ip[n] = ip, !.default = IF ip # 0 /\ @ = {} THEN {n} ELSE @]
    /\ UNCHANGED <<chip, conn, asked, told>>

Next ==
    \/ \E a \in Addrs : Bind(a)
    \/ GetAddr \/ BindDefaultNetif \/ GetDefault \/ FindDefault
    \/ \E room \in 1..(ListCap + 1) : List(room)
    \/ \E n \in Netifs : SetDefault(n) \/ Vanish(n) \/ Appear(n, 1) \/ Appear(n, 256) \/ Lease(n, 0) \/ Lease(n, 1)

Spec == Init /\ [][Next]_vars

----------------------------------------------------------------------------
\* An address the stack holds lies there in network order, byte for byte what
\* was bound; what getAddr gives back is what was bound, and an address the
\* build cannot hold was refused.
AddrExact ==
    /\ asked[1] = "bind" /\ told.rc = "ok" =>
          Supported(asked[2]) /\ FlattenSeq([w \in 1..(Len(asked[2].bytes) \div 4) |-> conn.addr[1].words[w - 1]]) = asked[2].bytes
    /\ asked[1] = "addr" /\ told.rc = "ok" => \E a \in Addrs : Answers(a) = told /\ conn.addr = <<ToIpAddr(a)>>

\* A list that is given out holds each interface there was, once, and at most
\* one of them as the default; what does not fit is refused as a whole.
ListIsWhole ==
    asked[1] = "list" /\ told.rc = "ok" =>
        /\ {told.value[i].id : i \in DOMAIN told.value} = asked[2] /\ IsInjective(told.value)
        /\ \A i, j \in DOMAIN told.value : told.value[i].default /\ told.value[j].default => i = j

\* A connection that was bound to an interface is bound to one of lwIP's
\* numbers: the number is not cut when it is stored in a byte.
IndexFits == asked[1] = "bindIf" /\ told.rc = "ok" => conn.if # 0
=============================================================================
