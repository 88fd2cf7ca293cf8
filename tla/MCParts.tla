------------------------------ MODULE MCParts -------------------------------
(* The smaller modules for TLC: the C bindings, and the primitives and services *)
(* that have one module each. They share no state, so a behaviour is that of    *)
(* one part; the parts of BoardParts come first. What the same word promises of *)
(* several parts is one property here.                                          *)
EXTENDS BoardParts

CONSTANTS Tasks, Slots, Buffers,                            \* crypto
          DrawFrames, Areas, Colours,                       \* panels
          MaxEvents,                                        \* PPP
          MaxPieces,                                        \* sockets
          Netifs, Bytes, ListCap,                           \* addresses
          QueueLen, HciPackets, MaxInits,                   \* Bluetooth
          Contexts, FrameSamples,                           \* audio
          Writers, MaxChunk, MaxRx, MaxPlays,
          SrHandles, SrFrame,
          Lengths, Room, Versions, Wanted,                  \* coprocessor
          Depth, Width, Height,                             \* ADC, touch
          MaxIn, Dict,                                      \* inflate
          CondTasks, MaxItems,                              \* condition variable
          Senders, Receivers, ChanItems,                    \* channel
          MaxArms, MaxTime, Racers, Askers,                 \* timer, racer
          Values, Tickers, Subscribers, MaxTicks,           \* store
          Sources, Pollers, InboxCap,                       \* pipeline
          Hosts, Requests, PoolConns, Caps, MaxIdle, MaxIdlePerHost, MaxGenerations, MaxRounds,
          ServerConns,                                      \* HTTP
          Users, RecvTasks, MaxFaults, Callers,             \* Bluetooth host
          Roles, AttOps, Total, MaxRequests, MaxUnasked,
          RingCap, MaxWrites                                \* audio mixer

\* one namespace begins another's name; the last of each is not a valid name
SomeNsNames  == {<<"a">>, <<"a", "b">>, <<"a", ":">>}
SomeKeyNames == {<<"k">>, <<"k", "k", "k">>}

\* numbers on both sides of the lengths and of the sign bit of DER
Fill(n, first) == [i \in 1..n |-> IF i = 1 THEN first ELSE 200]
Moduli == {Fill(n, b) : n \in {1, 2, 3, 127, 128, 129, 255, 256, 257}, b \in {0, 1, 127, 128, 255}}
          \cup {<<0, 0, 128>>, <<0, 0, 0>>}
Exponents == {<<3>>, <<1, 0, 1>>, <<0, 255>>}
FirstYear == 1895
LastYear  == 2105
Times == 0..3

\* samples of the converters
Raws == {-100, 5, 100}

\* what a request's options make of it: a connection that is not reused needs no
\* context to show what its wait is for
RequestKinds == {[reuse |-> TRUE, ctx |-> FALSE], [reuse |-> TRUE, ctx |-> TRUE], [reuse |-> FALSE, ctx |-> FALSE]}

----------------------------------------------------------------------------
(* The parts.                                                               *)
Psa == INSTANCE EspPsa WITH build <- v1, ready <- v2, keys <- v3, heap <- v4,
    ctx <- v5, pc <- v6, out <- v7, last <- v8
Crt == INSTANCE EspCerts WITH in <- v1
Panel == INSTANCE BkPanel WITH Frames <- DrawFrames, st <- v1, sys <- v2, last
    <- v3
Ppp == INSTANCE EspPpp WITH ppp <- v1, modem <- v2, reader <- v3, link <- v4,
    told <- v5, events <- v6, pc <- v7, rc <- v8
Sock == INSTANCE LwipSocket WITH sock <- v1, st <- v2, box <- v3, arrived <-
    v4, netbufs <- v5, room <- v6, cb <- v7, reader <- v8, writer <- v9, owner
    <- v10, missed <- v11
Addr == INSTANCE LwipAddr WITH chip <- v1, net <- v2, conn <- v3, asked <- v4,
    told <- v5
Hci == INSTANCE BtHci WITH MaxPackets <- HciPackets, kind <- v1, hci <- v2,
    stack <- v3, pushing <- v4, sender <- v5, got <- v6, lost <- v7
Audio == INSTANCE BkAudio WITH st <- v1, sys <- v2, zig <- v3, heard <- v4,
    last <- v5
Codec == INSTANCE EspCodec WITH codec <- v1, st <- v2, drv <- v3, writer <-
    v4, line <- v5, mic <- v6, last <- v7
Sr == INSTANCE EspSr WITH Handles <- SrHandles, Frame <- SrFrame, st <- v1,
    sys <- v2, out <- v3
Copro == INSTANCE EspCopro WITH host <- v1, slave <- v2, image <- v3, pc <-
    v4, off <- v5, size <- v6, rc <- v7
Adc == INSTANCE BkAdc WITH st <- v1, dev <- v2, fifo <- v3, adc <- v4
Touch == INSTANCE BkTouch WITH st <- v1, drv <- v2, chip <- v3, point <- v4,
    last <- v5
Inflate == INSTANCE EspInflate WITH inf <- v1, mem <- v2, pc <- v3, ans <- v4
Display == INSTANCE EspDisplay WITH board <- v1, st <- v2, hw <- v3, panel <-
    v4
Cond == INSTANCE RtosCondition WITH Tasks <- CondTasks, chip <- v1, cond <-
    v2, mon <- v3, task <- v4
Chan == INSTANCE EspChannel WITH MaxItems <- ChanItems, ch <- v1, snd <- v2,
    rcv <- v3, hist <- v4
Task == INSTANCE EspTask WITH cmd <- v1, body <- v2, owner <- v3, used <- v4
Timer == INSTANCE SyncTimer WITH timer <- v1, worker <- v2, owner <- v3, now
    <- v4, hist <- v5
Racer == INSTANCE SyncRacer WITH shared <- v1, task <- v2, asker <- v3,
    cancelled <- v4
Store == INSTANCE StoreObject WITH obj <- v1, ticker <- v2, saw <- v3, missed
    <- v4
Pipe == INSTANCE ZuxPipeline WITH Capacity <- InboxCap, pipe <- v1, box <- v2,
    task <- v3, receiver <- v4, source <- v5, owner <- v6, used <- v7
Pool == INSTANCE HttpPool WITH Conns <- PoolConns, Kinds <- RequestKinds, pool
    <- v1, conn <- v2, req <- v3, lost <- v4
Server == INSTANCE HttpServer WITH Conns <- ServerConns, srv <- v1, conn <-
    v2, serve <- v3, worker <- v4, owner <- v5, leaked <- v6, slipped <- v7,
    late <- v8
Host == INSTANCE BtHostLife WITH host <- v1, recv <- v2, user <- v3, hand <-
    v4, faults <- v5, raced <- v6, slipped <- v7
Mix == INSTANCE AudioMixer WITH mixer <- v1, track <- v2, ring <- v3, hand <-
    v4, reader <- v5, owner <- v6, hist <- v7
Att == INSTANCE BtHostAtt WITH Ops <- AttOps, host <- v1, slot <- v2, caller
    <- v3, recv <- v4, ctrl <- v5, peer <- v6, mixed <- v7, off <- v8

----------------------------------------------------------------------------
Init == \/ BoardInit
        \/ part = "psa" /\ Psa!Init /\ Zero8
        \/ part = "certs" /\ Crt!Init /\ Zero1
        \/ part = "rgb" /\ Panel!Init /\ Zero3
        \/ part = "qspi" /\ Panel!Init /\ Zero3
        \/ part = "ppp" /\ Ppp!Init /\ Zero8
        \/ part = "socket" /\ Sock!Init /\ Zero11
        \/ part = "addr" /\ Addr!Init /\ Zero5
        \/ part = "hci" /\ Hci!Init /\ Zero7
        \/ part = "audio" /\ Audio!Init /\ Zero5
        \/ part = "codec" /\ Codec!Init /\ Zero7
        \/ part = "sr" /\ Sr!Init /\ Zero3
        \/ part = "copro" /\ Copro!Init /\ Zero7
        \/ part = "adc" /\ Adc!Init /\ Zero4
        \/ part = "touch" /\ Touch!Init /\ Zero5
        \/ part = "inflate" /\ Inflate!Init /\ Zero4
        \/ part = "display" /\ Display!Init /\ Zero4
        \/ part = "condition" /\ Cond!Init /\ Zero4
        \/ part = "channel" /\ Chan!Init /\ Zero4
        \/ part = "task" /\ Task!Init /\ Zero4
        \/ part = "timer" /\ Timer!Init /\ Zero5
        \/ part = "racer" /\ Racer!Init /\ Zero4
        \/ part = "store" /\ Store!Init /\ Zero4
        \/ part = "pipeline" /\ Pipe!Init /\ Zero7
        \/ part = "http pool" /\ Pool!Init /\ Zero4
        \/ part = "http server" /\ Server!Init /\ Zero8
        \/ part = "bt host" /\ Host!Init /\ Zero7
        \/ part = "mixer" /\ Mix!Init /\ Zero7
        \/ part = "bt requests" /\ Att!Init /\ Zero8

Next == \/ BoardNext
        \/ part = "psa" /\ Psa!Next /\ UNCHANGED <<part, Rest8>>
        \/ part = "certs" /\ Crt!Next /\ UNCHANGED <<part, Rest1>>
        \/ part = "rgb" /\ Panel!RgbNext /\ UNCHANGED <<part, Rest3>>
        \/ part = "qspi" /\ Panel!QspiNext /\ UNCHANGED <<part, Rest3>>
        \/ part = "ppp" /\ Ppp!Next /\ UNCHANGED <<part, Rest8>>
        \/ part = "socket" /\ Sock!Next /\ UNCHANGED <<part, Rest11>>
        \/ part = "addr" /\ Addr!Next /\ UNCHANGED <<part, Rest5>>
        \/ part = "hci" /\ Hci!Next /\ UNCHANGED <<part, Rest7>>
        \/ part = "audio" /\ Audio!Next /\ UNCHANGED <<part, Rest5>>
        \/ part = "codec" /\ Codec!Next /\ UNCHANGED <<part, Rest7>>
        \/ part = "sr" /\ Sr!Next /\ UNCHANGED <<part, Rest3>>
        \/ part = "copro" /\ Copro!Next /\ UNCHANGED <<part, Rest7>>
        \/ part = "adc" /\ Adc!Next /\ UNCHANGED <<part, Rest4>>
        \/ part = "touch" /\ Touch!Next /\ UNCHANGED <<part, Rest5>>
        \/ part = "inflate" /\ Inflate!Next /\ UNCHANGED <<part, Rest4>>
        \/ part = "display" /\ Display!Next /\ UNCHANGED <<part, Rest4>>
        \/ part = "condition" /\ Cond!Next /\ UNCHANGED <<part, Rest4>>
        \/ part = "channel" /\ Chan!Next /\ UNCHANGED <<part, Rest4>>
        \/ part = "task" /\ Task!Next /\ UNCHANGED <<part, Rest4>>
        \/ part = "timer" /\ Timer!Next /\ UNCHANGED <<part, Rest5>>
        \/ part = "racer" /\ Racer!Next /\ UNCHANGED <<part, Rest4>>
        \/ part = "store" /\ Store!Next /\ UNCHANGED <<part, Rest4>>
        \/ part = "pipeline" /\ Pipe!Next /\ UNCHANGED <<part, Rest7>>
        \/ part = "http pool" /\ Pool!Next /\ UNCHANGED <<part, Rest4>>
        \/ part = "http server" /\ Server!Next /\ UNCHANGED <<part, Rest8>>
        \/ part = "bt host" /\ Host!Next /\ UNCHANGED <<part, Rest7>>
        \/ part = "mixer" /\ Mix!Next /\ UNCHANGED <<part, Rest7>>
        \/ part = "bt requests" /\ Att!Next /\ UNCHANGED <<part, Rest8>>

Spec == Init /\ [][Next]_vars

----------------------------------------------------------------------------
(* What the parts promise. Each part states its share in its own module. *)
\* Types of the parts: the values the code's variables can have.
TypeOK ==
    /\ part = "esp wifi" => EspWifi!TypeOK
    /\ part = "bk wifi" => BkWifi!TypeOK
    /\ part = "esp prefs" => EspPref!TypeOK
    /\ part = "bk prefs" => BkPref!TypeOK
    /\ part = "pref lists" => PrefList!TypeOK
    /\ part = "psa" => Psa!TypeOK
    /\ part = "gcm" => Gcm!TypeOK
    /\ part = "rgb" => Panel!TypeOK
    /\ part = "qspi" => Panel!TypeOK
    /\ part = "ppp" => Ppp!PppTypeOK
    /\ part = "socket" => Sock!SocketTypeOK
    /\ part = "hci" => Hci!HciTypeOK
    /\ part = "audio" => Audio!AudioTypeOK
    /\ part = "codec" => Codec!CodecTypeOK
    /\ part = "sr" => Sr!SrTypeOK
    /\ part = "condition" => Cond!CondTypeOK
    /\ part = "channel" => Chan!ChannelTypeOK
    /\ part = "task" => Task!TaskTypeOK
    /\ part = "timer" => Timer!TimerTypeOK
    /\ part = "racer" => Racer!RacerTypeOK
    /\ part = "store" => Store!StoreTypeOK
    /\ part = "pipeline" => Pipe!PipelineTypeOK
    /\ part = "http pool" => Pool!PoolTypeOK
    /\ part = "http server" => Server!ServerTypeOK
    /\ part = "bt host" => Host!LifeTypeOK
    /\ part = "mixer" => Mix!MixerTypeOK
    /\ part = "bt requests" => Att!AttTypeOK

\* No call, failed or not, keeps what it took: key slots, buffers, packets,
\* channels, models, update sessions, tasks' commands, messages, places for
\* connections, workers, roles, tracks, credits.
NothingLeaks ==
    /\ part = "psa" => Psa!NothingLeaks
    /\ part = "rgb" => Panel!FramesKept
    /\ part = "qspi" => Panel!FramesKept
    /\ part = "socket" => Sock!NetbufsKept
    /\ part = "codec" => Codec!ChannelsKept
    /\ part = "sr" => Sr!ResourcesWhole
    /\ part = "audio" => Audio!AecKept
    /\ part = "inflate" => Inflate!BuffersFreed
    /\ part = "copro" => Copro!SessionsEnd
    /\ part = "task" => Task!CommandFreed
    /\ part = "pipeline" => Pipe!InboxDrained
    /\ part = "http pool" => Pool!PlacesCounted
    /\ part = "http server" => Server!WorkersCounted
    /\ part = "bt host" => Host!RolesCounted
    /\ part = "mixer" => Mix!TrackCounted
    /\ part = "bt requests" => Att!CreditsKept /\ Att!PacketsFit

\* What a call gives is what its result says: output buffers, packets,
\* samples, readings, points, pixels, sends, receives, timers, winners,
\* notifications, connections, ends, answers.
OutputIsHonest ==
    /\ part = "psa" => Psa!OutputIsHonest
    /\ part = "hci" => Hci!PacketsInOrder
    /\ part = "codec" => Codec!WritesWhole /\ Codec!LanesRight
    /\ part = "sr" => Sr!SamplesHonest
    /\ part = "inflate" => Inflate!InflateHonest
    /\ part = "adc" => Adc!ReadingFresh
    /\ part = "touch" => Touch!TouchExact /\ Touch!ReportedOnce
    /\ part = "display" => Display!DrawnInside
    /\ part = "channel" => Chan!SendsHonest /\ Chan!DesertedIsThere /\ Chan!EndIsEnd
    /\ part = "timer" => Timer!FiresRight
    /\ part = "racer" => Racer!OneWinner /\ Racer!RaceHonest
    /\ part = "store" => Store!SubscribersCurrent
    /\ part = "http pool" => Pool!PoolHonest
    /\ part = "http server" => Server!DrainedIsDrained
    /\ part = "mixer" => Mix!EndIsEnd
    /\ part = "bt requests" => Att!AnswersMatch

\* Inputs are read for what they are: keys, dates, certificates' verdicts,
\* addresses, interfaces, packet headers, channel numbers.
InputsExact ==
    /\ part = "certs" => Crt!KeyExact /\ Crt!DaysExact /\ Crt!VerdictExact
    /\ part = "addr" => Addr!AddrExact /\ Addr!ListIsWhole /\ Addr!IndexFits
    /\ part = "hci" => Hci!HeadersExact
    /\ part = "codec" => Codec!IndexesFit

\* No callback, task or call uses an object that has been deleted, or one
\* whose setup stopped half way; what was set up again after a failure is
\* whole.
HandlesAlive ==
    /\ part = "esp wifi" => EspWifi!InitIsWhole
    /\ part = "ppp" => Ppp!PppAlive
    /\ part = "socket" => Sock!SocketAlive
    /\ part = "hci" => Hci!QueuesAlive
    /\ part = "display" => Display!DisplayWhole
    /\ part = "adc" => Adc!ConverterRuns
    /\ part = "task" => Task!CommandAlive
    /\ part = "timer" => Timer!TimerAlive
    /\ part = "racer" => Racer!RacerAlive
    /\ part = "store" => Store!OneNotification
    /\ part = "pipeline" => Pipe!PipelineAlive
    /\ part = "http server" => Server!ServerAlive
    /\ part = "bt host" => Host!OneReceiver

\* The device is in the state the last successful call asked for, failed
\* calls in between or not: power saving, light, link, playing, mirroring,
\* firmware, Bluetooth host.
DeviceFollows ==
    /\ part = "esp wifi" => EspWifi!PowerSaveKept
    /\ part = "bk wifi" => BkWifi!PowerSaveKept
    /\ part = "rgb" => Panel!BacklightFollows
    /\ part = "qspi" => Panel!BacklightFollows
    /\ part = "ppp" => Ppp!LinkTold
    /\ part = "audio" => Audio!DeviceRuns
    /\ part = "touch" => Touch!DriverFollows
    /\ part = "copro" => Copro!ReadyIsRight /\ Copro!FlashedWhole
    /\ part = "bt host" => Host!HoldersServed

\* A task sleeps only while what it waits for is not there: no wakeup is
\* lost.
SleepersHaveReason ==
    /\ part = "socket" => Sock!SleepersHaveReason
    /\ part = "hci" => Hci!SenderHasReason
    /\ part = "condition" => Cond!WaitersCounted /\ Cond!NoItemUnseen
    /\ part = "channel" => Chan!ReceiversCounted
    /\ part = "timer" => Timer!WorkerHasReason
    /\ part = "racer" => Racer!AskersHaveReason
    /\ part = "pipeline" => Pipe!JoinsEnd
    /\ part = "http pool" => Pool!RequestsHaveReason
    /\ part = "http server" => Server!WorkersTold
    /\ part = "mixer" => Mix!WritersHaveReason
    /\ part = "bt requests" => Att!WaitersListed

=============================================================================
