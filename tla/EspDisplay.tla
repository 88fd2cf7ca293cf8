------------------------------ MODULE EspDisplay ------------------------------
(* The native displays of two ESP32 boards: wv-esp32p4-wifi6-touch-lcd-4.3's    *)
(* bindings/display.c (MIPI DSI) and szp's bindings/szp_display.c (SPI). Each   *)
(* is brought up in steps, keeps the handles it has got in static state, and    *)
(* is tried again by its board when a step failed.                            *)
EXTENDS Naturals, Sequences, SequencesExt

VARIABLES board, st,  \* handles that are set
          hw,         \* what the hardware has been told
          panel       \* the last call and its answer
vars == <<board, st, hw, panel>>

Wide == 480
High == 800
DutyMax == 1023

\* what each step sets or switches; the handle that counts as "initialised" is
\* set before the last one
P4Steps  == <<"backlight", "reset", "power", "bus", "io", "panel", "dma2d">>
SzpSteps == <<"backlight", "bus", "io", "select", "lit">>
Steps    == IF board = "p4" THEN P4Steps ELSE SzpSteps
\* mutant: the handle that is there first is asked
KeyEarly == "io"
Key      == IF board = "p4" THEN "panel" ELSE "io"
Handles  == {"power", "io", "panel"}
Once     == {"power", "bus", "io", "panel"}   \* the drivers make these once

Answer(call, rc) == [call |-> call, rc |-> rc, x |-> 0, y |-> 0, w |-> 0, h |-> 0, len |-> 0]

Init ==
    /\ board \in {"p4", "szp"} /\ st = {}
    /\ hw = [made |-> {}, duty |-> 0, late |-> FALSE]
    /\ panel = Answer("none", "none")

Answers(call, rc) == panel' = Answer(call, rc)

\* enable_dsi_phy_power asks its handle, the other steps do not ask theirs
Already(step) == step = "power" /\ step \in st

\* the steps that are passed before one fails; a driver refuses what it has made
\* before, so that an initialisation that failed after the bus fails there next time
Reach(n)  == {Steps[i] : i \in 1..n}
Stops(n)  == \E i \in 1..n : Steps[i] \in Once /\ Steps[i] \in hw.made /\ ~Already(Steps[i])

\* wv_p4_display_native_init, szp_display_native_init
DisplayInit ==
    /\ IF Key \in st THEN UNCHANGED <<st, hw>> /\ Answers("init", "ok")
       ELSE \E n \in 0..Len(Steps) :
              /\ ~Stops(n)
              /\ st' = st \cup (Reach(n) \cap Handles)
              /\ hw' = [hw EXCEPT !.made = @ \cup Reach(n),
                                  !.late = @ \/ (n < Len(Steps) /\ Key \in Reach(n)),
                                  !.duty = IF "lit" \in Reach(n) THEN DutyMax ELSE @]
              /\ Answers("init", IF n = Len(Steps) THEN "ok" ELSE "error")
    /\ UNCHANGED board

Duty(value) == (DutyMax * value) \div 255

\* set_backlight: the value is remembered whatever the driver says
SetBrightness(value) ==
    /\ IF Key \notin st THEN UNCHANGED hw /\ Answers("brightness", "state")
       ELSE \/ hw' = [hw EXCEPT !.duty = Duty(value)] /\ Answers("brightness", "ok")
            \/ UNCHANGED hw /\ Answers("brightness", "error")
    /\ UNCHANGED <<board, st>>

\* panel_io is the handle of a failed initialisation, too
ResetPanel ==
    /\ board = "p4" /\ Answers("reset", IF "io" \in st THEN "ok" ELSE "state") /\ UNCHANGED <<board, st, hw>>
StartPanel ==
    /\ board = "p4" /\ UNCHANGED <<board, st>>
    /\ IF "panel" \notin st THEN UNCHANGED hw /\ Answers("start", "state")
       ELSE \/ hw' = [hw EXCEPT !.duty = Duty(255)] /\ Answers("start", "ok")
            \/ UNCHANGED hw /\ Answers("start", "error")

\* mutant: the sums are cut to sixteen bits
OnScreenShort(x, y, w, h) == (x + w) % 65536 <= Wide /\ (y + h) % 65536 <= High
\* in 32 bits
OnScreen(x, y, w, h) == x + w <= Wide /\ y + h <= High

Flush(x, y, w, h, len) ==
    /\ board = "p4"
    /\ panel' = [call |-> "flush", x |-> x, y |-> y, w |-> w, h |-> h, len |-> len,
                 rc |-> IF "panel" \notin st THEN "state"
                        ELSE IF w * h > len THEN "size"
                        ELSE IF ~OnScreen(x, y, w, h) THEN "arg" ELSE "ok"]
    /\ UNCHANGED <<board, st, hw>>

Next ==
    \/ DisplayInit \/ ResetPanel \/ StartPanel
    \/ \E v \in {0, 1, 254, 255} : SetBrightness(v)
    \/ \E x \in {0, 1, 65535}, y \in {0, 65535}, w \in {1, 480, 481}, h \in {0, 1, 800},
          len \in {0, 1, 384000} : Flush(x, y, w, h, len)
Spec == Init /\ [][Next]_vars

----------------------------------------------------------------------------
\* A display that says it is initialised has every step behind it, unless a step
\* after the last handle failed once, which no later call repeats (line 141, and
\* szp_display.c:91).
DisplayWhole ==
    /\ Key \in st => st = Handles \cap ToSet(Steps) /\ Reach(Len(Steps) - 2) \subseteq hw.made
    /\ panel.call = "init" /\ panel.rc = "ok" => hw.late \/ ToSet(Steps) \subseteq hw.made

\* What is drawn lies on the screen and inside the pixels that were handed over,
\* and the backlight is never driven over its range.
DrawnInside ==
    /\ panel.call = "flush" /\ panel.rc = "ok" =>
          panel.x + panel.w <= Wide /\ panel.y + panel.h <= High /\ panel.w * panel.h <= panel.len
    /\ hw.duty <= DutyMax
=============================================================================
