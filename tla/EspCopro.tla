------------------------------- MODULE EspCopro -------------------------------
(* The network coprocessor of the ESP32-P4: esp/lib/embed/hosted_copro.c, which *)
(* connects to it, compares its firmware's version, and flashes it from a data *)
(* partition of the host when it differs. The host can lose power at any step. *)
EXTENDS Integers, Sequences, FiniteSetsExt

CONSTANTS Lengths,   \* lengths of an image's segments
          Room,      \* size of the partition
          Versions, Wanted

VARIABLES host,   \* s_ready, NVS, whether the link is up
          slave,  \* the coprocessor: version running, update session, bytes and image staged
          image,  \* the partition's contents
          pc, off, size, rc
vars == <<host, slave, image, pc, off, size, rc>>

Header == 24
SegmentHeader == 8
Chunk == 1500
Images == [found: BOOLEAN, magic: BOOLEAN, hash: BOOLEAN, version: Versions,
           segments: {<<a>> : a \in Lengths} \cup {<<a, b>> : a, b \in Lengths}]
Off == [ready |-> FALSE, nvs |-> FALSE, link |-> FALSE]

Init ==
    /\ host = Off /\ image \in Images
    /\ \E v \in Versions : slave = [runs |-> v, session |-> FALSE, bytes |-> 0, flashed |-> {}]
    /\ pc = "idle" /\ off = 0 /\ size = 0 /\ rc = "none"

Return(code) == pc' = "idle" /\ rc' = code
UpTo16(n) == n + ((16 - (n % 16)) % 16)
Segments(img) == FoldSet(LAMBDA i, n : n + SegmentHeader + img.segments[i], Header, DOMAIN img.segments)

----------------------------------------------------------------------------
EnsureReady ==
    /\ pc = "idle"
    /\ IF host.ready THEN Return("ok") ELSE pc' = "connect" /\ rc' = "none"
    /\ UNCHANGED <<host, slave, image, off, size>>

\* init_nvs erases an unusable store and tries again; what is up already is no
\* failure (ok_if_already_initialized)
Connect ==
    /\ pc = "connect"
    /\ \/ host' = [host EXCEPT !.nvs = TRUE, !.link = TRUE] /\ pc' = "version" /\ UNCHANGED rc
       \/ host' \in {host, [host EXCEPT !.nvs = TRUE]} /\ Return("error")
    /\ UNCHANGED <<slave, image, off, size>>

\* a version that cannot be read is one that does not match
version_matches(v) == v = Wanted
CheckVersion ==
    /\ pc = "version"
    /\ \/ version_matches(slave.runs) /\ host' = [host EXCEPT !.ready = TRUE] /\ Return("ok")
       \/ ~version_matches(slave.runs) /\ pc' = "ota" /\ UNCHANGED <<host, rc>>
       \/ pc' = "ota" /\ UNCHANGED <<host, rc>>      \* esp_hosted_get_coprocessor_fwversion fails
    /\ UNCHANGED <<slave, image, off, size>>

\* mutant: the last block is not filled up before the hash
FirmwareSizeShort(img) ==
    LET body == UpTo16(Segments(img)) + 1 IN IF img.hash THEN body + 32 ELSE body

\* read_firmware_size of an image that fits
FirmwareSize(img) ==
    LET body == UpTo16(Segments(img)) + 1 IN IF img.hash THEN UpTo16(body) + 32 ELSE body

Begin ==
    /\ pc = "ota"
    /\ \/ ~(image.found /\ image.magic /\ FirmwareSize(image) <= Room) /\ Return("error") /\ UNCHANGED <<slave, size>>
       \/ Return("error") /\ UNCHANGED <<slave, size>>           \* a read or the begin fails
       \/ /\ image.found /\ image.magic /\ FirmwareSize(image) <= Room
          /\ size' = FirmwareSize(image)
          /\ slave' = [slave EXCEPT !.session = TRUE, !.bytes = 0] /\ pc' = "write" /\ UNCHANGED rc
    /\ off' = 0 /\ UNCHANGED <<host, image>>

\* mutant: a failed chunk leaves the session open
WriteLeaving ==
    /\ pc = "write" /\ off < size
    /\ LET n == IF size - off > Chunk THEN Chunk ELSE size - off IN
       \/ /\ slave' = [slave EXCEPT !.bytes = @ + n] /\ off' = off + n /\ UNCHANGED <<pc, rc>>
       \/ Return("error") /\ UNCHANGED <<slave, off>>
    /\ UNCHANGED <<host, image, size>>

\* one chunk is read from the partition and sent; a failure ends the session
Write ==
    /\ pc = "write" /\ off < size
    /\ LET n == IF size - off > Chunk THEN Chunk ELSE size - off IN
       \/ /\ slave' = [slave EXCEPT !.bytes = @ + n] /\ off' = off + n /\ UNCHANGED <<pc, rc>>
       \/ Return("error") /\ slave' = [slave EXCEPT !.session = FALSE] /\ UNCHANGED off
    /\ UNCHANGED <<host, image, size>>

\* esp_hosted_slave_ota_end, and only then the activation; its answer is not
\* asked for, and the host restarts either way
End ==
    /\ pc = "write" /\ off >= size
    /\ slave' = [slave EXCEPT !.session = FALSE]
    /\ \/ pc' = "activate" /\ UNCHANGED rc
       \/ Return("error")
    /\ UNCHANGED <<host, image, off, size>>

Activate ==
    /\ pc = "activate" /\ pc' = "restart"
    /\ slave' \in {slave, [slave EXCEPT !.runs = image.version, !.flashed = {[image |-> image, bytes |-> slave.bytes]}]}
    /\ UNCHANGED <<host, image, off, size, rc>>

\* esp_restart, or the power fails: static state is gone, the coprocessor's
\* session with it
Restart ==
    /\ pc # "idle" \/ host # Off
    /\ host' = Off /\ pc' = "idle" /\ rc' = "none" /\ off' = 0 /\ size' = 0
    /\ slave' = [slave EXCEPT !.session = FALSE, !.bytes = 0]
    /\ UNCHANGED image

Next == \/ EnsureReady \/ Connect \/ CheckVersion \/ Begin \/ Write \/ End \/ Activate \/ Restart
Spec == Init /\ [][Next]_vars

----------------------------------------------------------------------------
\* No call that failed leaves the coprocessor in an update session.
SessionsEnd == pc = "idle" => ~slave.session

\* What the coprocessor was told to run had been sent whole, the blocks and the
\* digest an image with a digest ends in included.
ImageBytes(img) == UpTo16(Segments(img) + 1) + 32
FlashedWhole == \A f \in slave.flashed : f.image.hash => f.bytes >= ImageBytes(f.image) /\ f.bytes <= Room

\* The host goes on only with a coprocessor that runs the version it wants.
ReadyIsRight == host.ready => slave.runs = Wanted /\ host.link
=============================================================================
