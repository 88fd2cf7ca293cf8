------------------------------- MODULE AudioMixer -------------------------------
(* A track of the audio mixer, embed/lib/audio/Mixer.zig with RingBuffer.zig and  *)
(* TrackState.zig of mixer/: the track's writer and its control, which fades out  *)
(* by writing too, sleep on one semaphore while the ring is full; the mixer's     *)
(* reader empties it and lets a drained track go. Tracks share only the mixer's   *)
(* flags, so one stands for all. Samples are counted.                            *)
EXTENDS Naturals, FiniteSets

CONSTANTS RingCap,   \* samples the ring holds
          MaxWrites  \* bound: writes, fade-outs, closes of the control

VARIABLES mixer,   \* allocated, close_write, closed, whether the track is in its list
          track,   \* what became of it, refs, which handles are left, what there was no memory for
          ring,    \* samples, write_closed, has_error, permits of space_available
          hand,    \* where the user of each handle is, samples it has to write
          reader,  \* where the reader is, what it read in this call, what it was told last
          owner,   \* where a call is that closes the mixer
          hist     \* writes, samples accepted, read, thrown away, writers passed over
vars == <<mixer, track, ring, hand, reader, owner, hist>>

Handles == {"track", "ctrl"}
Shortages == {"state", "track", "control", "list"}
Least(a, b) == IF a < b THEN a ELSE b

MixerTypeOK ==
    /\ track.st \in {"none", "made", "lives", "freed", "left", "misused"} /\ track.short \in Shortages \cup {"nothing"}
    /\ track.refs \in 0..3 /\ track.handles \subseteq Handles
    /\ ring.len \in 0..RingCap /\ ring.permits \in Nat
    /\ \A h \in Handles : hand[h].pc \in {"idle", "writes", "sleeps", "closes", "posts"}
    /\ reader.pc \in {"idle", "posts", "looks"} /\ owner \in {"idle", "posts", "releases"}

Init ==
    /\ mixer = [heap |-> TRUE, write |-> FALSE, closed |-> FALSE, listed |-> FALSE]
    /\ track = [st |-> "none", refs |-> 0, handles |-> {}, short |-> "nothing"]
    /\ ring = [len |-> 0, closed |-> FALSE, error |-> FALSE, permits |-> 0]
    /\ hand = [h \in Handles |-> [pc |-> "idle", left |-> 0]]
    /\ reader = [pc |-> "idle", n |-> 0, told |-> "nothing"] /\ owner = "idle"
    /\ hist = [writes |-> 0, put |-> 0, read |-> 0, thrown |-> 0, passed |-> {}]

\* the mixer's mutex is held for a whole read and a whole close
MixerFree   == mixer.heap /\ reader.pc = "idle" /\ owner = "idle"
Unavailable == mixer.write \/ mixer.closed
Full        == ring.len = RingCap
IsDrained(r) == r.closed /\ r.len = 0
Ends(r, error) == IF error THEN [r EXCEPT !.closed = TRUE, !.error = TRUE, !.len = 0] ELSE [r EXCEPT !.closed = TRUE]
Posted == ring' = [ring EXCEPT !.permits = @ + 1]

\* releaseHandle, releaseSetupRef and releaseMixerRef: the last reference frees the state
Released(t) == [t EXCEPT !.refs = @ - 1, !.st = IF t.refs = 1 THEN "freed" ELSE @]

----------------------------------------------------------------------------
(* createTrack.                                                             *)
\* what a createTrack that fails makes of a state that it retained, and that its
\* errdefers and its catch release: one release too many is one of freed memory
Undone(short, retained, released) ==
    [st |-> IF released > retained THEN "misused" ELSE IF released = retained THEN "freed" ELSE "left",
     refs |-> 0, handles |-> {}, short |-> short]

\* both handles, or none. A handle without memory for itself releases the state
\* it was given, createTrack then releases it again, and a track that is there
\* already once more. What follows such a release is as if it had been harmless
Create ==
    /\ track.st = "none" /\ MixerFree /\ ~Unavailable /\ UNCHANGED <<mixer, ring, hand, reader, owner, hist>>
    /\ track' \in {[track EXCEPT !.st = "made", !.refs = 2, !.handles = Handles],
                   Undone("state", 0, 0), Undone("track", 1, 2), Undone("control", 2, 3)}

\* mutant: the mixer is not looked at again
ListUnlooked ==
    /\ track.st = "made" /\ MixerFree /\ UNCHANGED <<ring, hand, reader, owner, hist>>
    /\ mixer' = [mixer EXCEPT !.listed = TRUE] /\ track' = [track EXCEPT !.st = "lives", !.refs = 3]

\* mutant: the reference of the list is kept when there is no memory for it
ListKeeping ==
    /\ track.st = "made" /\ MixerFree /\ UNCHANGED <<ring, hand, reader, owner, hist>>
    /\ \/ ~Unavailable /\ mixer' = [mixer EXCEPT !.listed = TRUE] /\ track' = [track EXCEPT !.st = "lives", !.refs = 3]
       \/ Unavailable /\ track' = Undone("nothing", 2, 2) /\ UNCHANGED mixer
       \/ ~Unavailable /\ track' = Undone("list", 3, 2) /\ UNCHANGED mixer

\* the mixer may have been closed in between; then, and without memory for the
\* list, both handles are dropped
List ==
    /\ track.st = "made" /\ MixerFree /\ UNCHANGED <<ring, hand, reader, owner, hist>>
    /\ \/ ~Unavailable /\ mixer' = [mixer EXCEPT !.listed = TRUE] /\ track' = [track EXCEPT !.st = "lives", !.refs = 3]
       \/ Unavailable /\ track' = Undone("nothing", 2, 2) /\ UNCHANGED mixer
       \/ ~Unavailable /\ track' = Undone("list", 3, 3) /\ UNCHANGED mixer

----------------------------------------------------------------------------
(* The handles: RingBuffer.write, and the calls that close the track.       *)
Goes(h, pc) == hand' = [hand EXCEPT ![h].pc = pc]

\* a write, or the silence of a fade-out
Write(h) ==
    /\ track.st = "lives" /\ h \in track.handles /\ hand[h].pc = "idle" /\ hist.writes < MaxWrites
    /\ hist' = [hist EXCEPT !.writes = @ + 1] /\ UNCHANGED <<mixer, track, ring, reader, owner>>
    /\ \E n \in 1..(RingCap + 1) : hand' = [hand EXCEPT ![h] = [pc |-> "writes", left |-> n]]

\* mutant: what was closed after the first part takes the second
PutLate(h) ==
    /\ hand[h].pc = "writes" /\ UNCHANGED <<mixer, track, reader, owner>>
    /\ LET n == Least(hand[h].left, RingCap - ring.len) IN
       /\ ring' = [ring EXCEPT !.len = @ + n] /\ hist' = [hist EXCEPT !.put = @ + n]
       /\ hand' = [hand EXCEPT ![h].left = @ - n, ![h].pc = IF n = hand[h].left THEN "idle" ELSE "sleeps"]

\* as much as there is room for; a fade-out closes the track after its last part,
\* the one of closeWriteWithSilence also when the track is closed already
Put(h) ==
    /\ hand[h].pc = "writes" /\ UNCHANGED <<mixer, track, reader, owner>>
    /\ \/ /\ ring.closed /\ UNCHANGED <<ring, hist>>
          /\ \E pc \in {"idle"} \cup (IF h = "ctrl" THEN {"closes"} ELSE {}) : hand' = [hand EXCEPT ![h] = [pc |-> pc, left |-> 0]]
       \/ ~ring.closed /\ Full /\ Goes(h, "sleeps") /\ UNCHANGED <<ring, hist>>
       \/ /\ ~ring.closed /\ ~Full
          /\ LET n == Least(hand[h].left, RingCap - ring.len) IN
             /\ hist' = [hist EXCEPT !.put = @ + n] /\ ring' = [ring EXCEPT !.len = @ + n]
             /\ hand' = [hand EXCEPT ![h].left = @ - n,
                     ![h].pc = IF n < hand[h].left THEN "writes" ELSE IF h = "ctrl" THEN "closes" ELSE "idle"]

Sleepers == {h \in Handles : hand[h].pc = "sleeps"}

\* one post wakes one
Wake(h) ==
    /\ hand[h].pc = "sleeps" /\ ring.permits > 0 /\ Goes(h, "writes")
    /\ ring' = [ring EXCEPT !.permits = @ - 1] /\ UNCHANGED <<mixer, track, reader, owner>>
    /\ hist' = [hist EXCEPT !.passed = (@ \ {h}) \cup (IF ring.permits = 1 THEN Sleepers \ {h} ELSE {})]

\* closeWrite and closeWithError of the control
CloseTrack(error) ==
    /\ track.st = "lives" /\ "ctrl" \in track.handles /\ hand["ctrl"].pc = "idle" /\ Goes("ctrl", "posts")
    /\ hist.writes < MaxWrites /\ ring' = Ends(ring, error)
    /\ hist' = [hist EXCEPT !.writes = @ + 1, !.thrown = @ + (ring.len - ring'.len)]
    /\ UNCHANGED <<mixer, track, reader, owner>>

CloseFaded == hand["ctrl"].pc = "closes" /\ Goes("ctrl", "posts") /\ ring' = Ends(ring, FALSE)
              /\ UNCHANGED <<mixer, track, reader, owner, hist>>

Post(h) == hand[h].pc = "posts" /\ Goes(h, "idle") /\ Posted /\ UNCHANGED <<mixer, track, reader, owner, hist>>

\* releaseHandle; its callers see to it that nobody else is inside. What is the
\* last but one reference closes the track, and takes a drained one off the list
Drop(h) ==
    /\ track.st = "lives" /\ h \in track.handles /\ MixerFree /\ \A g \in Handles : hand[g].pc = "idle"
    /\ LET t == [Released(track) EXCEPT !.handles = @ \ {h}]
           r == [Ends(ring, FALSE) EXCEPT !.permits = @ + 1]
           last == track.refs = 2
           off == last /\ mixer.listed /\ IsDrained(r)
       IN  /\ ring' = IF last THEN r ELSE ring
           /\ mixer' = [mixer EXCEPT !.listed = @ /\ ~off]
           /\ track' = IF off THEN Released(t) ELSE t
    /\ UNCHANGED <<hand, reader, owner, hist>>

----------------------------------------------------------------------------
(* readWithReferenceMaybe.                                                  *)
\* mutant: a write is woken only by a read that empties the ring
MixAll ==
    /\ MixerFree /\ UNCHANGED <<mixer, track, hand, owner>>
    /\ \E n \in 1..RingCap :
         LET k == IF mixer.listed THEN Least(n, ring.len) ELSE 0 IN
         /\ ring' = [ring EXCEPT !.len = @ - k] /\ hist' = [hist EXCEPT !.read = @ + k]
         /\ reader' = [reader EXCEPT !.pc = IF Full /\ k = RingCap THEN "posts" ELSE "looks", !.n = k]

Mix ==
    /\ MixerFree /\ UNCHANGED <<mixer, track, hand, owner>>
    /\ \E n \in 1..RingCap :
         LET k == IF mixer.listed THEN Least(n, ring.len) ELSE 0 IN
         /\ ring' = [ring EXCEPT !.len = @ - k] /\ hist' = [hist EXCEPT !.read = @ + k]
         /\ reader' = [reader EXCEPT !.pc = IF mixer.listed /\ Full THEN "posts" ELSE "looks", !.n = k]

MixPost == reader.pc = "posts" /\ reader' = [reader EXCEPT !.pc = "looks"] /\ Posted
           /\ UNCHANGED <<mixer, track, hand, owner, hist>>

\* mutant: a track that is closed is let go with what it holds
LookHasty ==
    /\ reader.pc = "looks" /\ UNCHANGED <<ring, hand, owner, hist>>
    /\ LET off == mixer.listed /\ ring.closed IN
       /\ mixer' = [mixer EXCEPT !.listed = @ /\ ~off] /\ track' = IF off THEN Released(track) ELSE track
       /\ reader' = [reader EXCEPT !.pc = "idle", !.told =
              IF reader.n > 0 THEN "samples" ELSE IF mixer.closed \/ (mixer.write /\ ~mixer'.listed) THEN "end" ELSE "none"]

\* a drained track is let go; then the answer
Look ==
    /\ reader.pc = "looks" /\ UNCHANGED <<ring, hand, owner, hist>>
    /\ LET off == mixer.listed /\ IsDrained(ring) IN
       /\ mixer' = [mixer EXCEPT !.listed = @ /\ ~off] /\ track' = IF off THEN Released(track) ELSE track
       /\ reader' = [reader EXCEPT !.pc = "idle", !.told =
              IF reader.n > 0 THEN "samples" ELSE IF mixer.closed \/ (mixer.write /\ ~mixer'.listed) THEN "end" ELSE "none"]

----------------------------------------------------------------------------
(* The mixer's own calls.                                                   *)
CloseWrite ==
    /\ MixerFree /\ ~mixer.write /\ mixer' = [mixer EXCEPT !.write = TRUE]
    /\ IF mixer.listed THEN owner' = "posts" /\ ring' = Ends(ring, FALSE) ELSE UNCHANGED <<owner, ring>>
    /\ UNCHANGED <<track, hand, reader, hist>>

\* close and closeWithError; deinit after the handles have been dropped
Close ==
    /\ MixerFree /\ UNCHANGED <<track, hand, reader>>
    /\ \E heap \in BOOLEAN :
         /\ heap \/ (track.handles = {} /\ track.st # "made")
         /\ mixer' = [heap |-> heap, write |-> TRUE, closed |-> TRUE, listed |-> FALSE]
    /\ IF mixer.listed
       THEN owner' = "releases" /\ ring' = [Ends(ring, TRUE) EXCEPT !.permits = @ + 1] /\ hist' = [hist EXCEPT !.thrown = @ + ring.len]
       ELSE UNCHANGED <<owner, ring, hist>>

ClosePost == owner = "posts" /\ owner' = "idle" /\ Posted /\ UNCHANGED <<mixer, track, hand, reader, hist>>

\* mutant: the reference of the list is forgotten
ReleaseNot == owner = "releases" /\ owner' = "idle" /\ UNCHANGED <<mixer, track, ring, hand, reader, hist>>

Release == owner = "releases" /\ owner' = "idle" /\ track' = Released(track)
           /\ UNCHANGED <<mixer, ring, hand, reader, hist>>

Next == \/ Create \/ List \/ Mix \/ MixPost \/ Look \/ CloseWrite \/ Close \/ ClosePost \/ Release \/ CloseFaded
        \/ \E h \in Handles : Write(h) \/ Put(h) \/ Wake(h) \/ Post(h) \/ Drop(h)
        \/ \E error \in BOOLEAN : CloseTrack(error)

Spec == Init /\ [][Next]_vars

----------------------------------------------------------------------------
\* A writer sleeps only while the ring is full and open, or while a permit is
\* there or on its way. One post wakes one: a second sleeper, the fade-out beside
\* a write, is passed over (RingBuffer.zig 79, 123), and no later read need wake it.
WritersHaveReason ==
    \A h \in Sleepers \ hist.passed :
        \/ Full /\ ~ring.closed
        \/ ring.permits > 0
        \/ {"posts", "closes"} \cap ({reader.pc, owner} \cup {hand[g].pc : g \in Handles}) # {}

\* The track is freed with its last reference, which the handles and the mixer's
\* list have, and whoever is inside has one. A createTrack that fails leaves none
\* behind, and releases none twice, but where one of the two handles finds no
\* memory (Mixer.zig 275, 285 after Track.zig 84, TrackCtrl.zig 231).
TrackCounted ==
    /\ track.st \in {"made", "lives"} =>
         track.refs = Cardinality(track.handles) + (IF mixer.listed \/ owner = "releases" THEN 1 ELSE 0) /\ track.refs > 0
    /\ track.st = "freed" => track.handles = {} /\ ~mixer.listed /\ \A h \in Handles : hand[h].pc = "idle"
    /\ track.st # "left" /\ (track.st = "misused" => track.short \in {"track", "control"})

\* The mixer says that it is at its end only once it has read every sample a write
\* was told it had taken, or a close had thrown it away, and no write adds any.
EndIsEnd ==
    /\ hist.put = hist.read + hist.thrown + ring.len
    /\ reader.told = "end" => ~mixer.listed /\ Unavailable /\ (ring.closed \/ track.st # "lives") /\ ring.len = 0
=============================================================================
