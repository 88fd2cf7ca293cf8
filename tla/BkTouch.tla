-------------------------------- MODULE BkTouch --------------------------------
(* The touch panel of the BK7258: bk/lib/embed/touch/touch_binding.c, which asks *)
(* the SDK's driver and, when that has nothing, the GT911 itself.              *)
EXTENDS Integers

CONSTANTS Width, Height   \* of the panel

VARIABLES st,     \* s_opened, s_width, s_height, s_mirror
          drv,    \* the driver: open, mirroring
          chip,   \* the GT911: its ready bit, fingers, position
          point,  \* what read last answered
          last    \* ... about which report, along which path
vars == <<st, drv, chip, point, last>>

Mirrors == {"none", "x", "y", "xy"}
NoPoint == [rc |-> "none", x |-> 0, y |-> 0, pressed |-> FALSE, more |-> FALSE]
Empty   == [ready |-> FALSE, fingers |-> 0, x |-> 0, y |-> 0]
NoReport == [report |-> Empty, path |-> "none", cleared |-> TRUE]

Init ==
    /\ st = [opened |-> FALSE, width |-> 0, height |-> 0, mirror |-> "none"]
    /\ drv = [open |-> FALSE, mirror |-> "none"] /\ chip = Empty
    /\ point = NoPoint /\ last = NoReport

\* the driver's own mirroring, and what the panel's user sees
Seen(m, p) == [x |-> IF m \in {"x", "xy"} THEN Width - 1 - p.x ELSE p.x,
               y |-> IF m \in {"y", "xy"} THEN Height - 1 - p.y ELSE p.y]

\* mutant: mirrored about the edge
MirrorAtEdge(p) ==
    [x |-> IF st.mirror \in {"x", "xy"} THEN (st.width - p.x) % 65536 ELSE p.x,
     y |-> IF st.mirror \in {"y", "xy"} THEN (st.height - p.y) % 65536 ELSE p.y]

\* apply_mirror, in 16 bits
apply_mirror(p) ==
    [x |-> IF st.mirror \in {"x", "xy"} THEN (st.width - p.x - 1) % 65536 ELSE p.x,
     y |-> IF st.mirror \in {"y", "xy"} THEN (st.height - p.y - 1) % 65536 ELSE p.y]

----------------------------------------------------------------------------
\* the panel's size is the board's; what was set stays when the driver refuses,
\* and an open panel keeps what it was opened with
Open(m) ==
    /\ last' = NoReport /\ UNCHANGED chip
    /\ \/ st.opened /\ UNCHANGED <<st, drv>> /\ point' = [NoPoint EXCEPT !.rc = "ok"]
       \/ /\ ~st.opened
          /\ \E ok \in BOOLEAN :
                /\ st' = [opened |-> ok, width |-> Width, height |-> Height, mirror |-> m]
                /\ drv' = IF ok THEN [open |-> TRUE, mirror |-> m] ELSE drv
                /\ point' = [NoPoint EXCEPT !.rc = IF ok THEN "ok" ELSE "unexpected"]

Close ==
    /\ last' = NoReport /\ UNCHANGED <<chip, point>>
    /\ st' = [st EXCEPT !.opened = FALSE]
    /\ drv' = IF st.opened THEN [drv EXCEPT !.open = FALSE] ELSE drv

Answer(p, fingers) == [rc |-> "ok", x |-> p.x, y |-> p.y, pressed |-> fingers > 0, more |-> fingers > 1]
Consumed == [chip EXCEPT !.ready = FALSE]

\* the driver reads and clears the chip, and mirrors itself
DriverRead ==
    /\ st.opened /\ chip.ready
    /\ point' = Answer(IF chip.fingers = 0 THEN [x |-> 0, y |-> 0] ELSE Seen(drv.mirror, chip), chip.fingers)
    /\ chip' = Consumed
    /\ last' = [report |-> chip, path |-> "driver", cleared |-> TRUE]
    /\ UNCHANGED <<st, drv>>

\* mutant: a release is not acknowledged
read_gt911_directForgetful(cleared) ==
    /\ point' = IF chip.fingers = 0 THEN Answer([x |-> 0, y |-> 0], 0) ELSE Answer(apply_mirror(chip), chip.fingers)
    /\ chip' = IF cleared /\ chip.fingers > 0 THEN Consumed ELSE chip
    /\ last' = [report |-> chip, path |-> "direct", cleared |-> cleared]

\* read_gt911_direct of a status with the ready bit: whatever it finds, it
\* writes the status back to zero, and does not ask how the write went
read_gt911_direct(cleared) ==
    /\ point' = IF chip.fingers = 0 THEN Answer([x |-> 0, y |-> 0], 0) ELSE Answer(apply_mirror(chip), chip.fingers)
    /\ chip' = IF cleared THEN Consumed ELSE chip
    /\ last' = [report |-> chip, path |-> "direct", cleared |-> cleared]

\* the position cannot be read: the report is given up
PointLost(cleared) ==
    /\ chip.fingers > 0
    /\ point' = [point EXCEPT !.rc = "nodata"] /\ chip' = (IF cleared THEN Consumed ELSE chip)
    /\ last' = [report |-> Empty, path |-> "none", cleared |-> cleared]

\* the driver answered with an error
DirectRead ==
    /\ st.opened /\ UNCHANGED <<st, drv>>
    /\ \/ chip.ready /\ \E cleared \in BOOLEAN : read_gt911_direct(cleared) \/ PointLost(cleared)
       \/ /\ point' = [point EXCEPT !.rc = "nodata"]          \* no ready bit, or no status
          /\ last' = NoReport /\ UNCHANGED chip

ReadClosed ==
    /\ ~st.opened /\ point' = [NoPoint EXCEPT !.rc = "state"]
    /\ last' = NoReport /\ UNCHANGED <<st, drv, chip>>

\* a finger, somewhere on the panel
Touch ==
    /\ \E n \in 0..2, x \in 0..Width - 1, y \in 0..Height - 1 :
           chip' = [ready |-> TRUE, fingers |-> n, x |-> x, y |-> y]
    /\ last' = NoReport /\ UNCHANGED <<st, drv, point>>

Next == (\E m \in Mirrors : Open(m)) \/ Close \/ DriverRead \/ DirectRead \/ ReadClosed \/ Touch
Spec == Init /\ [][Next]_vars

----------------------------------------------------------------------------
\* Both ways to read give the same answer: the place the finger is at, as the
\* mirroring the panel was opened with turns it, and so a place on the screen.
TouchExact ==
    last.path # "none" /\ last.report.fingers > 0 /\ point.rc = "ok" =>
        /\ [x |-> point.x, y |-> point.y] = Seen(st.mirror, last.report)
        /\ point.pressed /\ point.more = (last.report.fingers > 1)

\* A report that was answered is not there to be answered again, unless the
\* acknowledgement was lost on the bus.
ReportedOnce == last.path # "none" /\ last.cleared => ~chip.ready

\* The driver is open exactly when the binding says so.
DriverFollows == drv.open = st.opened /\ (st.opened => drv.mirror = st.mirror)
=============================================================================
