-------------------------------- MODULE BkPanel --------------------------------
(* The two panels of the BK boards, bk/lib/embed/display/rgb_binding.c and     *)
(* qspi_binding.c, with what they stand on: the frame heap and the vendor's    *)
(* display driver. The driver keeps the frames it is given until it has drawn  *)
(* them, in a task of its own, and hands them back through a callback. One task *)
(* calls a panel; what the driver's task does within a call only frees frames. *)
EXTENDS Naturals

CONSTANTS
    Frames,            \* frame buffers the heap has room for
    Areas, Colours     \* parts of the screen and what can be drawn there

VARIABLES
    st,    \* the binding's static variables
    sys,   \* heap: the picture in each frame, or free; queue: frames with the
           \* driver; handles: existing controllers; open: those that are open;
           \* light: backlight pin; ldo: its supply
    last   \* the result of the last call
vars == <<st, sys, last>>

Free  == [a \in Areas |-> "free"]   \* no picture: the frame is not taken
Blank == [a \in Areas |-> "black"]
Bars  == [a \in Areas |-> "bars"]
Pictures == [Areas -> Colours \cup {"black"}] \cup {Bars}
Handles  == {"panel", "probe"}
Results  == {"ok", "invalid", "noMem", "unexpected"}

SysType ==
    [heap: [Frames -> Pictures \cup {Free}],
     queue: SUBSET [frame: Frames, picture: Pictures, handle: Handles],
     handles: SUBSET Handles, open: SUBSET Handles, light: BOOLEAN, ldo: BOOLEAN]

SysInit == [heap |-> [f \in Frames |-> Free], queue |-> {}, handles |-> {}, open |-> {},
            light |-> FALSE, ldo |-> FALSE]

----------------------------------------------------------------------------
FreeFrames == {f \in Frames : sys.heap[f] = Free}
Held(s, f, p) == [s EXCEPT !.heap[f] = p]
Released(s, fs) == [s EXCEPT !.heap = [f \in Frames |-> IF f \in fs THEN Free ELSE @[f]]]

\* the driver owns a frame from a flush that succeeds to its callback
Queued(s, h, f, p) == [Held(s, f, p) EXCEPT !.queue = @ \cup {[frame |-> f, picture |-> p, handle |-> h]}]
Done(s, xs) == [Released(s, {x.frame : x \in xs}) EXCEPT !.queue = @ \ xs]

Opened(s, h)  == [s EXCEPT !.open = @ \cup {h}]
Closed(s, h)  == [Done(s, {x \in s.queue : x.handle = h}) EXCEPT !.open = @ \ {h}]
Deleted(s, h) == [Closed(s, h) EXCEPT !.handles = @ \ {h}]

Says(rc) == last' = rc
Refuse(rc) == Says(rc) /\ UNCHANGED <<st, sys>>

Levels == {0, 255}

TypeOK ==
    /\ st \in [initialized: BOOLEAN, enabled: BOOLEAN, brightness: Levels,
               shadow: {{}} \cup {{f} : f \in Frames}, debugHandle: BOOLEAN, probed: BOOLEAN]
    /\ sys \in SysType /\ last \in Results

Init ==
    /\ st = [initialized |-> FALSE, enabled |-> FALSE, brightness |-> 0, shadow |-> {},
             debugHandle |-> FALSE, probed |-> FALSE]
    /\ sys = SysInit /\ last = "ok"

----------------------------------------------------------------------------
(* What the two bindings share.                                              *)
\* display_frame_free_cb, called by the driver when a frame has been drawn
FrameDone == \E x \in sys.queue : sys' = Done(sys, {x}) /\ UNCHANGED <<st, last>>

\* backlight_set
Lit(s, on) == [s EXCEPT !.light = on]

\* init: without a shadow buffer the new controller is deleted again
Starts(level) ==
    \/ st.initialized /\ Refuse("ok")
    \/ ~st.initialized /\ Refuse("unexpected")
    \/ ~st.initialized /\ Refuse("noMem")
    \/ /\ ~st.initialized
       /\ \E f \in FreeFrames :
             /\ st' = [st EXCEPT !.initialized = TRUE, !.enabled = FALSE, !.brightness = level, !.shadow = {f}]
             /\ sys' = [Held(sys, f, Blank) EXCEPT !.handles = @ \cup {"panel"}]
       /\ Says("ok")

Deinit ==
    /\ st.initialized
    /\ sys' = Lit(Deleted(Released(sys, st.shadow), "panel"), FALSE)
    /\ st' = [st EXCEPT !.initialized = FALSE, !.enabled = FALSE, !.brightness = 0, !.shadow = {}, !.probed = FALSE]
    /\ Says("ok")

\* a flush of one area: into the shadow first, whatever comes after; then a
\* copy of all of it for the driver, which is freed here if it is not taken
Drawn(a, c) == [sys.heap[CHOOSE f \in st.shadow : TRUE] EXCEPT ![a] = c]
Painted(a, c) == [sys EXCEPT !.heap = [f \in Frames |-> IF f \in st.shadow THEN Drawn(a, c) ELSE @[f]]]

\* mutant: the driver is given the shadow itself
FlushShadow(a, c) ==
    \/ ~st.enabled /\ Refuse("invalid")
    \/ /\ st.enabled /\ UNCHANGED st
       /\ \E f \in st.shadow : sys' = Queued(Painted(a, c), "panel", f, Drawn(a, c)) /\ Says("ok")

Flush(a, c) ==
    \/ ~st.enabled /\ Refuse("invalid")
    \/ /\ st.enabled /\ UNCHANGED st
       /\ \/ sys' = Painted(a, c) /\ last' \in {"noMem", "unexpected"}
          \/ \E f \in FreeFrames : sys' = Queued(Painted(a, c), "panel", f, Drawn(a, c)) /\ Says("ok")

----------------------------------------------------------------------------
(* The RGB panel.                                                            *)
RgbInit == Starts(255)

\* the supply is raised before the panel is opened, and not lowered again
RgbSetEnabled(on) ==
    \/ ~st.initialized /\ Refuse("invalid")
    \/ /\ st.initialized /\ on = st.enabled /\ Says("ok")
       /\ IF on THEN sys' = Lit(sys, st.brightness > 0) /\ st' = [st EXCEPT !.probed = FALSE]
                ELSE UNCHANGED <<st, sys>>
    \/ /\ st.initialized /\ on # st.enabled
       /\ LET s == [sys EXCEPT !.ldo = @ \/ on]
          IN  \/ sys' = s /\ UNCHANGED st /\ Says("unexpected")
              \/ /\ sys' = IF on THEN Lit(Opened(s, "panel"), st.brightness > 0)
                           ELSE Lit(Closed(s, "panel"), FALSE)
                 /\ st' = [st EXCEPT !.enabled = on, !.probed = FALSE] /\ Says("ok")

RgbSetBrightness(level) ==
    \/ ~st.initialized /\ Refuse("invalid")
    \/ /\ st.initialized /\ Says("ok")
       /\ IF st.enabled
          THEN sys' = Lit(sys, level > 0) /\ st' = [st EXCEPT !.brightness = level, !.probed = FALSE]
          ELSE st' = [st EXCEPT !.brightness = level] /\ UNCHANGED sys

DebugColorbar ==
    \/ ~st.enabled /\ Refuse("invalid")
    \/ st.enabled /\ \/ last' \in {"noMem", "unexpected"} /\ UNCHANGED <<st, sys>>
                     \/ \E f \in FreeFrames : sys' = Queued(sys, "panel", f, Bars) /\ Says("ok") /\ UNCHANGED st

\* the probe brings up a controller of its own, opened each time and never
\* deleted, and the backlight of the default pin
Probed(s) == [s EXCEPT !.handles = @ \cup {"probe"}, !.ldo = TRUE]
OfficialColorbar ==
    \/ Refuse("noMem")
    \/ ~st.debugHandle /\ Refuse("unexpected")
    \/ sys' = Probed(sys) /\ st' = [st EXCEPT !.debugHandle = TRUE] /\ Says("unexpected")
    \/ /\ sys' = Lit(Opened(Probed(sys), "probe"), TRUE) /\ Says("unexpected")
       /\ st' = [st EXCEPT !.debugHandle = TRUE, !.probed = TRUE]
    \/ /\ \E f \in FreeFrames : sys' = Lit(Queued(Opened(Probed(sys), "probe"), "probe", f, Bars), TRUE)
       /\ st' = [st EXCEPT !.debugHandle = TRUE, !.probed = TRUE] /\ Says("ok")

RgbNext ==
    \/ RgbInit \/ Deinit \/ FrameDone \/ DebugColorbar \/ OfficialColorbar
    \/ \E on \in BOOLEAN : RgbSetEnabled(on)
    \/ \E level \in Levels : RgbSetBrightness(level)
    \/ \E a \in Areas, c \in Colours : Flush(a, c)

----------------------------------------------------------------------------
(* The QSPI panel.                                                           *)
QspiInit == Starts(0)

\* mutant: the brightness is not asked when the panel is enabled
QspiSetEnabledBright(on) ==
    /\ st.initialized /\ on # st.enabled
    /\ sys' = IF on THEN Lit(Opened(sys, "panel"), TRUE) ELSE Lit(Closed(sys, "panel"), FALSE)
    /\ st' = [st EXCEPT !.enabled = on] /\ Says("ok")

QspiSetEnabled(on) ==
    \/ ~st.initialized /\ Refuse("invalid")
    \/ /\ st.initialized /\ on = st.enabled
       /\ sys' = Lit(sys, on /\ st.brightness > 0) /\ UNCHANGED st /\ Says("ok")
    \/ /\ st.initialized /\ on # st.enabled
       /\ \/ Refuse("unexpected")
          \/ /\ sys' = Lit(IF on THEN Opened(sys, "panel") ELSE Closed(sys, "panel"), on /\ st.brightness > 0)
             /\ st' = [st EXCEPT !.enabled = on] /\ Says("ok")

QspiSetBrightness(level) ==
    \/ ~st.initialized /\ Refuse("invalid")
    \/ /\ st.initialized /\ Says("ok")
       /\ sys' = Lit(sys, st.enabled /\ level > 0) /\ st' = [st EXCEPT !.brightness = level]

QspiNext ==
    \/ QspiInit \/ Deinit \/ FrameDone
    \/ \E on \in BOOLEAN : QspiSetEnabled(on)
    \/ \E level \in Levels : QspiSetBrightness(level)
    \/ \E a \in Areas, c \in Colours : Flush(a, c)

RgbSpec == Init /\ [][RgbNext]_vars
QspiSpec == Init /\ [][QspiNext]_vars

----------------------------------------------------------------------------
\* Every frame taken from the heap is the binding's picture of the screen or
\* with the driver, and never both: nothing leaks, however often a flush fails,
\* and nothing is given back twice. A frame with the driver shows what it showed
\* when it was handed over: later drawing goes into another buffer.
FramesKept ==
    /\ {f \in Frames : sys.heap[f] # Free} = {x.frame : x \in sys.queue} \cup st.shadow
    /\ st.shadow \cap {x.frame : x \in sys.queue} = {}
    /\ \A x \in sys.queue : sys.heap[x.frame] = x.picture
    /\ \A x, y \in sys.queue : x.frame = y.frame => x = y
    /\ (st.shadow # {}) = st.initialized

\* The backlight is on exactly while the panel is enabled and its brightness is
\* not zero, over failed openings and closings, deinit and a second init; the
\* official probe alone switches it on without asking.
BacklightFollows == ~st.probed => (sys.light <=> st.enabled /\ st.brightness > 0)
=============================================================================
