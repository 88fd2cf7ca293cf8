------------------------------ MODULE EspInflate ------------------------------
(* Decompression on the ESP32: esp/lib/grt/compress/binding.c around miniz's     *)
(* tinfl_decompress, into one buffer or by a callback, buffer after buffer. The *)
(* stream is a number of input blocks, each of which gives one block of output. *)
EXTENDS Integers, Sequences

CONSTANTS MaxIn,    \* blocks in a stream
          Dict      \* blocks the stream call's buffer holds

VARIABLES inf,   \* the call: kind, container, stream, room, position, output
          mem,   \* what it has allocated
          pc, ans
vars == <<inf, mem, pc, ans>>

\* a stream of n blocks, of which "have" came, and which goes bad at "bad"
Streams == {s \in [n: 0..MaxIn, have: 0..MaxIn, bad: 0..MaxIn + 1] : s.have <= s.n /\ s.bad > 0}
Idle == [kind |-> "none", stream |-> [n |-> 0, have |-> 0, bad |-> 1], room |-> 0, at |-> 0, got |-> <<>>]
NoAnswer == [rc |-> "none", written |-> 0]

Init == inf = Idle /\ mem = {} /\ pc = "idle" /\ ans = NoAnswer

Call(kind, s, room) ==
    /\ pc = "idle" /\ pc' = "alloc" /\ ans' = NoAnswer /\ UNCHANGED mem
    /\ inf' = [kind |-> kind, stream |-> s, room |-> room, at |-> 0, got |-> <<>>]

\* gzip, or a call without a buffer, is refused before anything is allocated
Refuse == pc = "alloc" /\ pc' = "idle" /\ ans' \in {[NoAnswer EXCEPT !.rc = e] : e \in {"unsupported", "unexpected"}} /\ UNCHANGED <<inf, mem>>

Needed == IF inf.kind = "stream" THEN {"decomp", "out"} ELSE {"decomp"}
Allocate ==
    /\ pc = "alloc" /\ UNCHANGED inf
    /\ \/ mem' = Needed /\ pc' = "run" /\ UNCHANGED ans
       \/ mem' = {} /\ pc' = "idle" /\ ans' = [NoAnswer EXCEPT !.rc = "unexpected"]

\* tinfl_decompress: as many blocks as there are, fit and are sound
Blocks(i) ==
    LET room == IF i.kind = "stream" THEN Dict ELSE i.room - i.at
        n == CHOOSE k \in 0..room : /\ i.at + k <= i.stream.have /\ i.at + k < i.stream.bad
                                    /\ \A j \in 0..room : j <= k \/ i.at + j > i.stream.have \/ i.at + j >= i.stream.bad
    IN [out |-> n,
        status |-> IF i.at + n + 1 = i.stream.bad /\ i.at + n < i.stream.have /\ n < room THEN "failed"
                   ELSE IF i.at + n = i.stream.n THEN "done"
                   ELSE IF n = room THEN "more"
                   ELSE "input"]

Free(rc, written) == mem' = {} /\ pc' = "idle" /\ ans' = [rc |-> rc, written |-> written]

\* mutant: a stream that stops short is taken as done
InflateEnd(i, status) ==
    CASE status \in {"done", "input"} -> Free("ok", Len(i.got))
      [] status = "more" -> Free("small", 0)
      [] OTHER -> Free("invalid", 0)

\* espz_compress_inflate answers whatever the status
Inflate(i, status) ==
    CASE status = "done" -> Free("ok", Len(i.got))
      [] status = "more" -> Free("small", 0)
      [] status = "input" -> Free("truncated", 0)
      [] OTHER -> Free("invalid", 0)

\* espz_compress_inflate_stream goes on after a full buffer
InflateStream(i, status) ==
    CASE status = "done" -> Free("ok", Len(i.got))
      [] status = "more" -> UNCHANGED <<mem, pc, ans>>
      [] status = "input" -> Free("truncated", 0)
      [] OTHER -> Free("invalid", 0)

Given(i, n) == [i EXCEPT !.at = @ + n, !.got = @ \o [k \in 1..n |-> i.at + k]]

\* mutant: the buffer stays when the callback refuses
put_bufLeaving == ans' = [NoAnswer EXCEPT !.rc = "callback"] /\ mem' = mem \ {"decomp"} /\ pc' = "idle"

\* espz_compress_put_buf: the callback refuses what it is given
put_buf == ans' = [NoAnswer EXCEPT !.rc = "callback"] /\ mem' = {} /\ pc' = "idle"

Run ==
    /\ pc = "run"
    /\ LET b == Blocks(inf) IN
       \/ /\ inf' = Given(inf, b.out)
          /\ IF inf.kind = "stream" THEN InflateStream(inf', b.status) ELSE Inflate(inf', b.status)
       \/ inf.kind = "stream" /\ b.out > 0 /\ put_buf /\ UNCHANGED inf

Next ==
    \/ \E kind \in {"whole", "stream"}, s \in Streams, room \in 0..MaxIn : Call(kind, s, room)
    \/ Refuse \/ Allocate \/ Run
Spec == Init /\ [][Next]_vars

----------------------------------------------------------------------------
\* No way out of a call keeps the decompressor or the buffer.
BuffersFreed == pc = "idle" => mem = {}

\* Success means the whole stream, in order and each block once, and a count of
\* what was given; a stream that is short, damaged or too long is never success.
InflateHonest ==
    pc = "idle" /\ ans.rc = "ok" =>
        /\ inf.got = [k \in 1..inf.stream.n |-> k] /\ ans.written = inf.stream.n
        /\ inf.stream.have = inf.stream.n
=============================================================================
