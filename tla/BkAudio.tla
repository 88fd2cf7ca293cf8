------------------------------- MODULE BkAudio -------------------------------
(* The onboard speaker, microphone and echo canceller of the BK boards:       *)
(* bk/lib/embed/audio/onboard_speaker_binding.c, static state that one        *)
(* OnboardSpeakerSystem after another uses (OnboardSpeakerSystem.zig).         *)
EXTENDS Naturals, FiniteSets

CONSTANTS Contexts,     \* blocks of memory for the echo canceller
          FrameSamples  \* what the canceller of the SDK works on

VARIABLES st,    \* the binding: s_play and s_record exist, are open; s_aec, its buffers
          sys,   \* the SDK's devices, and the blocks allocated
          zig,   \* the system: none, or at which step of its life
          heard, \* per device: the last enable or disable that succeeded
          last   \* the last result, and for process what it worked on
vars == <<st, sys, zig, heard, last>>

Devices == {"speaker", "mic"}
AudioTypeOK ==
    /\ st \in [exists: [Devices -> BOOLEAN], open: [Devices -> BOOLEAN], aec: SUBSET Contexts,
               buffers: SUBSET Contexts, frame: {0, FrameSamples}]
    /\ sys.dev \in [Devices -> {"none", "made", "playing", "paused"}] /\ sys.heap \subseteq Contexts
    /\ zig.at \in {"none", "speaker", "mic", "aec", "up"} /\ zig.left \in BOOLEAN
    /\ heard \in [Devices -> BOOLEAN]

Init ==
    /\ st = [exists |-> [d \in Devices |-> FALSE], open |-> [d \in Devices |-> FALSE],
             aec |-> {}, buffers |-> {}, frame |-> 0]
    /\ sys = [dev |-> [d \in Devices |-> "none"], heap |-> {}]
    /\ zig = [at |-> "none", left |-> FALSE] /\ heard = [d \in Devices |-> FALSE] /\ last = "ok"

Says(rc) == last' = rc
Same     == UNCHANGED <<st, sys, heard>>

----------------------------------------------------------------------------
(* Speaker and microphone: the same calls on audio_play and audio_record.     *)
Make(d) ==
    \/ st.exists[d] /\ Same /\ Says("ok")
    \/ ~st.exists[d] /\ Same /\ Says("fail")
    \/ /\ ~st.exists[d] /\ st' = [st EXCEPT !.exists[d] = TRUE]
       /\ sys' = [sys EXCEPT !.dev[d] = "made"] /\ UNCHANGED heard /\ Says("ok")
SpeakerInit == Make("speaker")
MicInit     == Make("mic")

Destroyed(s, d)   == [s EXCEPT !.exists[d] = FALSE, !.open[d] = FALSE]
SpeakerDeinit(s)  == Destroyed(s, "speaker")
MicDeinit(s)      == Destroyed(s, "mic")

\* the first time the device is opened, later it is resumed
Enable(d) ==
    \/ ~st.exists[d] /\ Same /\ Says("fail")
    \/ st.exists[d] /\ Same /\ Says("fail")
    \/ /\ st.exists[d] /\ st' = [st EXCEPT !.open[d] = TRUE]
       /\ sys' = [sys EXCEPT !.dev[d] = "playing"]
       /\ heard' = [heard EXCEPT ![d] = TRUE] /\ Says("ok")
SpeakerEnable == Enable("speaker")
MicEnable     == Enable("mic")

\* mutant: a pause is taken for a close
DisableClosing(d) ==
    /\ st.exists[d] /\ st.open[d] /\ st' = [st EXCEPT !.open[d] = FALSE]
    /\ sys' = [sys EXCEPT !.dev[d] = "paused"]
    /\ heard' = [heard EXCEPT ![d] = FALSE] /\ Says("ok")

\* the device stays open, and a device that is not open is left alone
Disable(d) ==
    \/ /\ ~st.open[d] /\ UNCHANGED <<st, sys>> /\ heard' = [heard EXCEPT ![d] = FALSE] /\ Says("ok")
    \/ st.open[d] /\ Same /\ Says("fail")
    \/ /\ st.open[d] /\ UNCHANGED st /\ sys' = [sys EXCEPT !.dev[d] = "paused"]
       /\ heard' = [heard EXCEPT ![d] = FALSE] /\ Says("ok")
SpeakerDisable == Disable("speaker")
MicDisable     == Disable("mic")

\* samples, volume and gain go through to a device that is there
SpeakerWrite    == Same /\ Says(IF st.open["speaker"] THEN sys.dev["speaker"] ELSE "fail")
MicRead         == Same /\ Says(IF st.open["mic"] THEN sys.dev["mic"] ELSE "fail")
SpeakerVolume   == Same /\ Says(IF st.exists["speaker"] THEN "ok" ELSE "fail")
MicGain         == Same /\ Says(IF st.exists["mic"] THEN "ok" ELSE "fail")

----------------------------------------------------------------------------
(* The echo canceller.                                                      *)
\* mutant: a canceller with another frame is forgotten, not freed
AecRefusedLeaving(c) ==
    st' = [st EXCEPT !.aec = {}, !.buffers = {}] /\ sys' = [sys EXCEPT !.heap = @ \cup {c}]

\* one that works on other frames, or has no buffers, is freed again
AecRefused(c) == st' = [st EXCEPT !.aec = {}, !.buffers = {}] /\ UNCHANGED sys

AecInit ==
    \/ st.aec # {} /\ Same /\ Says("ok")
    \/ st.aec = {} /\ Same /\ Says("fail")
    \/ /\ st.aec = {} /\ UNCHANGED heard
       /\ \E c \in Contexts \ sys.heap :
             \/ AecRefused(c) /\ Says("fail")
             \/ /\ st' = [st EXCEPT !.aec = {c}, !.buffers = {c}, !.frame = FrameSamples]
                /\ sys' = [sys EXCEPT !.heap = @ \cup {c}] /\ Says("ok")

AecDeinit(s) == [s EXCEPT !.aec = {}, !.buffers = {}, !.frame = 0]

\* the buffers lie inside the context
AecProcess(n) ==
    /\ Same /\ Says(IF st.aec = {} \/ n # st.frame THEN "fail"
                    ELSE IF st.buffers \subseteq sys.heap THEN "ok" ELSE "wild")

----------------------------------------------------------------------------
(* OnboardSpeakerSystem.                                                    *)
Start == /\ zig.at = "none" /\ zig' = [zig EXCEPT !.at = "speaker"] /\ Same /\ Says("ok")

\* each step must succeed for the next; a step that fails ends the system and
\* leaves what the earlier ones have made to the next system
Step(call, at, next) ==
    /\ zig.at = at /\ call
    /\ zig' = IF last' = "ok" THEN [zig EXCEPT !.at = next] ELSE [at |-> "none", left |-> TRUE]

Drive(call) == zig.at = "up" /\ call /\ UNCHANGED zig

Deinit ==
    /\ zig.at = "up" /\ zig' = [at |-> "none", left |-> FALSE]
    /\ st' = SpeakerDeinit(MicDeinit(AecDeinit(st)))
    /\ sys' = [dev |-> [d \in Devices |-> IF st.exists[d] THEN "none" ELSE sys.dev[d]], heap |-> sys.heap \ st.aec]
    /\ heard' = [d \in Devices |-> FALSE] /\ Says("ok")

Next ==
    \/ Start \/ Step(SpeakerInit, "speaker", "mic") \/ Step(MicInit, "mic", "aec") \/ Step(AecInit, "aec", "up")
    \/ Drive(SpeakerEnable) \/ Drive(SpeakerDisable) \/ Drive(MicEnable) \/ Drive(MicDisable)
    \/ Drive(SpeakerWrite) \/ Drive(MicRead) \/ Drive(SpeakerVolume) \/ Drive(MicGain)
    \/ \E n \in {0, FrameSamples} : Drive(AecProcess(n))
    \/ Deinit

Spec == Init /\ [][Next]_vars

----------------------------------------------------------------------------
\* A device runs exactly when the last enable or disable that succeeded said
\* so, also when enable had to open it or only to resume it, and the binding's
\* flags are the device's.
DeviceRuns == \A d \in Devices :
    /\ sys.dev[d] = "playing" <=> heard[d]
    /\ st.exists[d] <=> sys.dev[d] # "none"
    /\ st.open[d] <=> sys.dev[d] \in {"playing", "paused"}

\* The canceller's memory is allocated exactly once while it is there, its
\* buffers and the frame it was made for are that context's, and when a system
\* is gone everything is, unless a system failed to come up.
AecKept ==
    /\ sys.heap = st.aec /\ st.buffers = st.aec /\ Cardinality(st.aec) <= 1
    /\ st.frame = (IF st.aec = {} THEN 0 ELSE FrameSamples)
    /\ zig.at = "none" /\ ~zig.left => sys.heap = {} /\ \A d \in Devices : sys.dev[d] = "none"
=============================================================================
