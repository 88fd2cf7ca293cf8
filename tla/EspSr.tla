-------------------------------- MODULE EspSr --------------------------------
(* The echo canceller of the ESP32: esp/lib/embed/audio/esp_sr_native.c, one    *)
(* handle and three buffers in static state, made on first use, used by the    *)
(* one task that records (EspSr.zig).                                         *)
EXTENDS Naturals, FiniteSets

CONSTANTS Frame,    \* samples the library works on
          Handles   \* the library's objects

VARIABLES st,   \* configured, the configuration, the handle, its buffers, the frame
          sys,  \* what is allocated
          out   \* the last call: its result, how many samples it claims and gave
vars == <<st, sys, out>>

BufferNames == {"mic", "ref", "out"}
\* what validate_config refuses is one kind of configuration here
AfeConfigs == [valid: BOOLEAN, aec: BOOLEAN, samples: {Frame, Frame + 1}]

SrTypeOK ==
    /\ st.configured \in BOOLEAN /\ st.config \in AfeConfigs /\ st.handle \subseteq Handles
    /\ st.buffers \subseteq BufferNames /\ st.frame \in {0, Frame}
    /\ sys.handles \subseteq Handles /\ sys.buffers \in [BufferNames -> 0..3]

Init ==
    /\ st = [configured |-> FALSE, config |-> [valid |-> FALSE, aec |-> FALSE, samples |-> Frame],
             handle |-> {}, buffers |-> {}, frame |-> 0]
    /\ sys = [handles |-> {}, buffers |-> [b \in BufferNames |-> 0]]
    /\ out = [rc |-> "ok", count |-> 0, given |-> 0, whole |-> TRUE]

Says(rc) == out' = [rc |-> rc, count |-> 0, given |-> 0, whole |-> TRUE]

----------------------------------------------------------------------------
Configure(c) ==
    /\ UNCHANGED sys
    /\ \/ st.handle # {} /\ UNCHANGED st /\ Says("state")
       \/ st.handle = {} /\ ~c.valid /\ UNCHANGED st /\ Says("arg")
       \/ st.handle = {} /\ c.valid /\ st' = [st EXCEPT !.config = c, !.configured = TRUE] /\ Says("ok")

\* mutant: the buffers stay when the handle goes
ReleasedHandleOnly(p) ==
    [st |-> [p.st EXCEPT !.handle = {}, !.buffers = {}, !.frame = 0],
     sys |-> [p.sys EXCEPT !.handles = @ \ p.st.handle]]

\* deinit_aec_resources
Released(p) ==
    [st |-> [p.st EXCEPT !.handle = {}, !.buffers = {}, !.frame = 0],
     sys |-> [handles |-> p.sys.handles \ p.st.handle,
              buffers |-> [b \in BufferNames |-> p.sys.buffers[b] - (IF b \in p.st.buffers THEN 1 ELSE 0)]]]

\* a handle, the frame it wants, then the buffers one after the other
Created(h, chunk) == [st |-> [st EXCEPT !.handle = {h}, !.frame = chunk],
                      sys |-> [sys EXCEPT !.handles = @ \cup {h}]]
Allocated(p, bs)  == [st |-> [p.st EXCEPT !.buffers = bs],
                      sys |-> [p.sys EXCEPT !.buffers = [b \in BufferNames |-> @[b] + (IF b \in bs THEN 1 ELSE 0)]]]
Stages(h) == {Created(h, 0), Created(h, Frame), Allocated(Created(h, Frame), {"mic"}),
              Allocated(Created(h, Frame), {"mic", "ref"})}

\* what init can come to: the state, and its result
Refused  == ~st.configured \/ ~st.config.valid
Inited   ==
    IF Refused THEN {[p |-> [st |-> st, sys |-> sys], rc |-> "state"]}
    ELSE IF st.handle # {} \/ ~st.config.aec THEN {[p |-> [st |-> st, sys |-> sys], rc |-> "ok"]}
    ELSE {[p |-> [st |-> st, sys |-> sys], rc |-> "error"]}
         \cup UNION {{[p |-> Released(s), rc |-> "error"] : s \in Stages(h)} : h \in Handles \ sys.handles}
         \cup (IF st.config.samples # Frame THEN {}
               ELSE {[p |-> Allocated(Created(h, Frame), BufferNames), rc |-> "ok"] : h \in Handles \ sys.handles})

AfeInit == \E i \in Inited : st' = i.p.st /\ sys' = i.p.sys /\ Says(i.rc)

Deinit ==
    /\ st' = [Released([st |-> st, sys |-> sys]).st EXCEPT !.configured = FALSE]
    /\ sys' = Released([st |-> st, sys |-> sys]).sys /\ Says("ok")

\* init, and the buffers that are there are cleared
Reset == AfeInit

\* mutant: what does not fit is given as if it did
PassedThroughCut(n, cap) ==
    [rc |-> "ok", count |-> n, given |-> IF n < cap THEN n ELSE cap, whole |-> n <= cap]

\* without the canceller the microphone is copied, as far as it fits
PassedThrough(n, cap) ==
    LET m == IF n < cap THEN n ELSE cap IN
    [rc |-> IF m = n THEN "ok" ELSE "size", count |-> m, given |-> m, whole |-> m = n]

\* with it, exactly one frame goes in and comes out
Cancelled(s, n, cap) ==
    IF n = s.frame /\ cap >= s.frame
    THEN [rc |-> IF s.buffers = BufferNames THEN "ok" ELSE "wild", count |-> n, given |-> n, whole |-> TRUE]
    ELSE [rc |-> "size", count |-> 0, given |-> 0, whole |-> FALSE]

Process(n, cap) ==
    \E i \in Inited :
        /\ st' = i.p.st /\ sys' = i.p.sys
        /\ out' = IF i.rc # "ok" \/ n = 0 THEN [rc |-> i.rc, count |-> 0, given |-> 0, whole |-> n = 0]
                  ELSE IF st.config.aec THEN Cancelled(i.p.st, n, cap) ELSE PassedThrough(n, cap)

Next ==
    \/ \E c \in AfeConfigs : Configure(c)
    \/ AfeInit \/ Deinit \/ Reset
    \/ \E n, cap \in {0, Frame - 1, Frame, Frame + 1} : Process(n, cap)

Spec == Init /\ [][Next]_vars

----------------------------------------------------------------------------
\* The handle and the three buffers exist together or not at all, each once,
\* whichever step of an initialisation failed, and only under a configuration
\* that asked for them.
ResourcesWhole ==
    /\ sys.handles = st.handle /\ Cardinality(st.handle) <= 1
    /\ \A b \in BufferNames : sys.buffers[b] = (IF b \in st.buffers THEN 1 ELSE 0)
    /\ st.buffers = (IF st.handle = {} THEN {} ELSE BufferNames)
    /\ st.handle # {} => st.configured /\ st.config.aec /\ st.frame = Frame /\ st.config.samples = Frame

\* A call that says ok has given as many samples as it was handed, and no call
\* claims more than it gave.
SamplesHonest == out.rc # "wild" /\ out.count = out.given /\ (out.rc = "ok" => out.whole)
=============================================================================
