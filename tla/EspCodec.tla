------------------------------- MODULE EspCodec -------------------------------
(* The I2S side of the two codec boards of the ESP32,                         *)
(* esp/lib/embed/audio/es8311_es7210_native.c and es8311_native.c: static      *)
(* state, two channels of the driver, buffers of a fixed size. One thread      *)
(* brings it up, down and reads; several write.                               *)
EXTENDS Integers, Sequences

CONSTANTS Writers,   \* tasks that play
          MaxChunk,  \* MAX_MONO_CHUNK_SAMPLES, 512 in the code
          MaxRx,     \* MAX_RX_CHANNELS, 4 in the code
          MaxPlays   \* bound on the writes of a behaviour

MaxMics == 2

VARIABLES codec,   \* es8311 or es8311_es7210
          st,      \* configured, config, audio_ready, mic_capture_streaming, handles, mutex
          drv,     \* the driver's channels
          writer,  \* per task: the samples it has left, and how many it has played
          line,    \* the writes whose samples have gone out, as they followed each other
          mic,     \* the driver's position in a frame, whether a read fell short, what it gave
          last
vars == <<codec, st, drv, writer, line, mic, last>>

\* what a board asks for, and what one wrong field makes of it
Board   == [chunk |-> MaxChunk, rx |-> MaxRx, mics |-> MaxMics, lane0 |-> 0, lane1 |-> 1, ref |-> 1]
Configs == {[Board EXCEPT ![f] = v] : f \in DOMAIN Board, v \in {-1, 0, 1, MaxChunk, MaxChunk + 1}}
NoConfig == [chunk |-> 0, rx |-> 0, mics |-> 0, lane0 |-> 0, lane1 |-> 0, ref |-> 0]
Down == [tx |-> "none", rx |-> "none"]
Idle == [at |-> "idle", left |-> 0, done |-> 0]
NoRead == [at |-> 0, short |-> FALSE, mic0 |-> {}, ref |-> {}]

CodecTypeOK ==
    /\ codec \in {"es8311", "es8311_es7210"}
    /\ st.configured \in BOOLEAN /\ st.ready \in BOOLEAN /\ st.streaming \in BOOLEAN
    /\ st.handles \subseteq {"tx", "rx"} /\ st.mutex \in BOOLEAN
    /\ drv \in [{"tx", "rx"} -> {"none", "made", "enabled"}]
    /\ \A w \in Writers : writer[w].at \in {"idle", "locking", "chunk", "end"}

Init ==
    /\ codec \in {"es8311", "es8311_es7210"}
    /\ st = [configured |-> FALSE, config |-> NoConfig, ready |-> FALSE, streaming |-> FALSE,
             handles |-> {}, mutex |-> FALSE]
    /\ drv = Down /\ writer = [w \in Writers |-> Idle] /\ line = <<>> /\ mic = NoRead /\ last = "ok"

----------------------------------------------------------------------------
(* Up and down.                                                             *)
Sizes(c) == c.chunk \in 1..MaxChunk /\ c.rx \in 1..MaxRx /\ c.lane0 >= 0

\* mutant: a lane is not compared with the channels of a frame
RequireConfig8311Loose(c) == Sizes(c) /\ c.ref # c.lane0

RequireConfig8311(c) == Sizes(c) /\ c.lane0 < c.rx /\ (c.ref >= 0 => c.ref < c.rx) /\ c.ref # c.lane0
RequireConfig7210(c) == /\ Sizes(c) /\ c.lane0 < c.rx /\ (c.ref >= 0 => c.ref < c.rx)
                        /\ c.mics \in 1..MaxMics /\ (c.mics > 1 => c.lane1 >= 0 /\ c.lane1 < c.rx)
RequireConfig(c) == IF codec = "es8311" THEN RequireConfig8311(c) ELSE RequireConfig7210(c)

\* an invalid configuration is stored, too
Configure(c) ==
    /\ \/ st.ready /\ UNCHANGED st /\ last' = "state"
       \/ /\ ~st.ready /\ st' = [st EXCEPT !.config = c, !.configured = TRUE]
          /\ last' = IF RequireConfig(c) THEN "ok" ELSE "arg"
    /\ UNCHANGED <<codec, drv, writer, line, mic>>

\* mutant: the channel that was made second is forgotten
ClosedTxOnly(s, d) == <<[s EXCEPT !.handles = {}, !.ready = FALSE], [d EXCEPT !.tx = "none"]>>

\* deinit_i2s_channels
Closed(s, d) == <<[s EXCEPT !.handles = {}, !.ready = FALSE],
                  [c \in DOMAIN d |-> IF c \in s.handles THEN "none" ELSE d[c]]>>

\* new channels, both set up, both enabled; what fails takes all of it back but
\* the mutex
Opened(s) ==
    {<<[s EXCEPT !.mutex = TRUE, !.handles = {"tx", "rx"}], [tx |-> "enabled", rx |-> "enabled"], TRUE>>}
        \cup {<<r[1], r[2], FALSE>> : r \in {Closed([s EXCEPT !.mutex = TRUE, !.handles = DOMAIN d], d) :
                 d \in {[tx |-> "made", rx |-> "made"], [tx |-> "enabled", rx |-> "made"]}}}
        \cup {<<[s EXCEPT !.mutex = m], Down, FALSE>> : m \in {s.mutex, TRUE}}

AudioInit(then) ==
    /\ \/ st.ready /\ st' = [st EXCEPT !.streaming = @ \/ then] /\ UNCHANGED drv /\ last' = "ok"
       \/ ~st.ready /\ ~(st.configured /\ RequireConfig(st.config)) /\ UNCHANGED <<st, drv>> /\ last' = "arg"
       \/ /\ ~st.ready /\ st.configured /\ RequireConfig(st.config)
          /\ \E o \in Opened(st) :
                /\ st' = [o[1] EXCEPT !.ready = o[3], !.streaming = @ \/ (o[3] /\ then)]
                /\ drv' = o[2] /\ last' = IF o[3] THEN "ok" ELSE "error"
          /\ mic' = NoRead
    /\ (st.ready \/ ~st.configured \/ ~RequireConfig(st.config)) => UNCHANGED mic
    /\ UNCHANGED <<codec, writer, line>>
AudioInitAlone   == AudioInit(FALSE)
MicCaptureStart  == AudioInit(TRUE)
MicCaptureStop   == st' = [st EXCEPT !.streaming = FALSE] /\ last' = "ok" /\ UNCHANGED <<codec, drv, writer, line, mic>>

\* the owner ends the tasks that write before it takes the device down
Deinit ==
    /\ \A w \in Writers : writer[w].at = "idle"
    /\ LET r == Closed([st EXCEPT !.streaming = FALSE], drv) IN
       st' = [r[1] EXCEPT !.mutex = FALSE, !.configured = FALSE] /\ drv' = r[2]
    /\ last' = "ok" /\ UNCHANGED <<codec, writer, line, mic>>

----------------------------------------------------------------------------
(* Playing.                                                                 *)
Held == \E w \in Writers : writer[w].at = "chunk"

\* tasks that have not played yet are interchangeable
Play(w, n) ==
    /\ writer[w].at = "idle" /\ writer[w].done < MaxPlays /\ st.ready
    /\ w = CHOOSE v \in Writers : writer[v] = writer[w]
    /\ writer' = [writer EXCEPT ![w].at = "locking", ![w].left = n]
    /\ UNCHANGED <<codec, st, drv, line, mic, last>>

\* mutant: the mutex is not waited for
LockEager(w) == /\ writer[w].at = "locking" /\ writer' = [writer EXCEPT ![w].at = "chunk"]
                /\ UNCHANGED <<codec, st, drv, line, mic, last>>

Lock(w) == /\ writer[w].at = "locking" /\ ~Held /\ writer' = [writer EXCEPT ![w].at = "chunk"]
           /\ UNCHANGED <<codec, st, drv, line, mic, last>>

\* write_i16 goes chunk by chunk through the one static buffer, write_raw in
\* one piece; the driver may take less, which ends the write
Chunk(w) ==
    /\ writer[w].at = "chunk"
    /\ LET n == IF codec = "es8311_es7210" /\ writer[w].left > st.config.chunk THEN st.config.chunk ELSE writer[w].left
       IN  \E taken \in {n, n - 1} :
              /\ LET write == <<w, writer[w].done>> IN
                 line' = IF taken = 0 \/ (line # <<>> /\ line[Len(line)] = write) THEN line ELSE Append(line, write)
              /\ writer' = [writer EXCEPT ![w].left = @ - taken,
                                          ![w].at = IF taken < n \/ writer[w].left = n THEN "end" ELSE @]
    /\ UNCHANGED <<codec, st, drv, mic, last>>

Unlock(w) == /\ writer[w].at = "end"
             /\ writer' = [writer EXCEPT ![w] = [at |-> "idle", left |-> 0, done |-> @.done + 1]]
             /\ UNCHANGED <<codec, st, drv, line, mic, last>>

----------------------------------------------------------------------------
(* Recording. The samples of a frame follow each other, lane by lane.         *)
\* mutant: samples are asked for where frames are meant
AskedSamples(cap) == IF cap > st.config.chunk THEN st.config.chunk ELSE cap

Asked(cap) == (IF cap > st.config.chunk THEN st.config.chunk ELSE cap) * st.config.rx

\* what is left of a broken frame is dropped, and the next read begins inside it
MicRead(cap) ==
    /\ codec = "es8311_es7210" /\ st.streaming /\ st.ready /\ st.config.ref >= 0
    /\ LET c == st.config IN \E n \in 0..Asked(cap) :
       LET frames == n \div c.rx
           lane(l) == {(mic.at + i * c.rx + l) % c.rx : i \in 0..(frames - 1)}
       IN  mic' = [at |-> (mic.at + n) % c.rx, short |-> mic.short \/ n < Asked(cap),
                   mic0 |-> lane(c.lane0), ref |-> lane(c.ref)]
    /\ UNCHANGED <<codec, st, drv, writer, line, last>>

\* read_raw hands the bytes on; the reader counts the lanes
ReadRaw ==
    /\ st.streaming /\ st.ready
    /\ mic' \in {[NoRead EXCEPT !.at = p, !.short = mic.short \/ p # mic.at] : p \in 0..(st.config.rx - 1)}
    /\ UNCHANGED <<codec, st, drv, writer, line, last>>

Next ==
    \/ \E c \in Configs : Configure(c)
    \/ AudioInitAlone \/ MicCaptureStart \/ MicCaptureStop \/ Deinit
    \/ \E w \in Writers : Lock(w) \/ Chunk(w) \/ Unlock(w) \/ \E n \in {1, MaxChunk + 1} : Play(w, n)
    \/ \E cap \in {1, MaxChunk + 1} : MicRead(cap)
    \/ ReadRaw

Spec == Init /\ [][Next]_vars

----------------------------------------------------------------------------
\* The driver has a channel exactly for each handle that is held; a device that
\* is ready has both channels running, and a configuration under which no index
\* leaves a static buffer or a frame.
ChannelsKept ==
    /\ \A c \in {"tx", "rx"} : drv[c] # "none" <=> c \in st.handles
    /\ st.ready => drv = [tx |-> "enabled", rx |-> "enabled"] /\ st.mutex
    /\ st.handles # {} => st.ready

IndexesFit ==
    st.ready => LET c == st.config IN
        /\ c.chunk * 2 <= MaxChunk * 2 /\ c.chunk * c.rx <= MaxChunk * MaxRx /\ c.chunk > 0 /\ c.rx > 0
        /\ {c.lane0, c.ref} \subseteq -1..(c.rx - 1) /\ c.lane0 # -1
        /\ codec = "es8311_es7210" /\ c.mics > 1 => c.lane1 \in 0..(c.rx - 1)

\* The samples of one write go out together, however many tasks play.
WritesWhole == \A i, j \in DOMAIN line : line[i] = line[j] => i = j

\* Microphone and reference samples come from their own lanes as long as no
\* read fell short; after one that ended inside a frame they need not (line 288).
LanesRight == st.ready /\ ~mic.short => mic.mic0 \subseteq {st.config.lane0} /\ mic.ref \subseteq {st.config.ref}
=============================================================================
