---------------------------- MODULE SRTTimestamps ----------------------------
(***************************************************************************)
(* How SRTConnectionAdapter.processTSPacket turns the 33-bit time stamps   *)
(* of MPEG-TS packets into the 64-bit PTS and DTS every later stage uses:  *)
(* the wrap detector of sync/pts_wraparound.go, the PCR estimate given to  *)
(* packets that carry no PTS, and the B-frame detection that derives a DTS *)
(* from a PTS.  The adapter is one goroutine (processData), so one packet  *)
(* is one step.                                                            *)
(*                                                                         *)
(* The sender's clock is kept as the pair (epoch, offset): the raw value   *)
(* on the wire is the offset, and the epoch counts the real wraps.  A      *)
(* packet sent when the clock shows c is stamped DTS = c and PTS = c + d,  *)
(* where d is the packet's presentation delay, one of Delays: the set has  *)
(* one member when every track shares one delay and no frame is reordered, *)
(* and several for B-frames or for an audio track that runs behind video.  *)
(***************************************************************************)
EXTENDS Integers

CONSTANTS
    Wrap,             \* 2^33, the wrapThreshold of the detector
    MaxStep,          \* the longest time between two packets with a PTS
    MaxEpoch,         \* bound: how many wraps of the clock are explored
    Delays,           \* the presentation delays PTS - DTS that occur
    Estimates,        \* whether packets without a PTS occur
    MaxElapsed,       \* maxElapsedPTS, the cap on the wall-clock extrapolation
    DetectWindow,     \* 30, the frames detectBFrames looks at
    ReorderDelay,     \* 2 * 3600, the delay assumed for B-frames
    MaxRecrossed      \* bound: how often a PTS steps back over the wrap

ASSUME WrapAssumption == Wrap \in Nat /\ Wrap > 0
ASSUME DelayAssumption == Delays \in SUBSET (0 .. Wrap - 1)

\* Two PTS in a row are less than half a period (13 hours) apart.
ASSUME StepAssumption ==
    /\ MaxStep \in Nat /\ MaxStep < Wrap - Wrap \div 2
    /\ \A a, b \in Delays : MaxStep + a - b < Wrap - Wrap \div 2
ASSUME BoundAssumption ==
    /\ MaxEpoch \in Nat /\ MaxElapsed \in Nat
    /\ DetectWindow \in Nat /\ ReorderDelay \in Nat /\ MaxRecrossed \in Nat
    /\ Estimates \in BOOLEAN

VARIABLES
    clock,            \* the sender's clock: [epoch, offset]
    sincePTS,         \* how far it has advanced since the last PTS
    lastPTS,          \* a.lastPTS, the raw PTS of the last packet that had one
    wrapCount,        \* a.wrapCount
    firstEpoch,       \* history: the epoch of the first PTS, -1 before it
    lastEpoch,        \* history: the epoch of the last PTS
    recrossed,        \* history: how often a PTS lay before the wrap the last lay after
    lastPCR,          \* a.lastPCR / 300, 0 before the first PCR
    detect,           \* the fields detectBFrames keeps
    out,              \* the TimestampedPacket last handed to an output channel
    uneven            \* history: a PTS has gone back, or been estimated from the PCR

vars == <<clock, sincePTS, lastPTS, wrapCount, firstEpoch, lastEpoch, recrossed,
          lastPCR, detect, out, uneven>>

halfThreshold == Wrap \div 2

\* The time stamp d ticks after c, as the sender writes it: 33 bits, wrapping.
Later(c, d) ==
    IF c.offset + d < Wrap
    THEN [epoch |-> c.epoch, offset |-> c.offset + d]
    ELSE [epoch |-> c.epoch + 1, offset |-> c.offset + d - Wrap]

-----------------------------------------------------------------------------
(* sync/pts_wraparound.go *)

\* Mutant of DetectWrap: the largest step that wraps is missed.
DetectWrapStrict(current, last) == last - current > halfThreshold + 1

DetectWrap(current, last) ==
    /\ current < last
    /\ last - current > halfThreshold

\* Mutant of UnwrapPTS: the period is the largest time stamp, 2^33 - 1.
UnwrapPTSShort(pts, count) == pts + count * (Wrap - 1)

UnwrapPTS(pts, count) == pts + count * Wrap


-----------------------------------------------------------------------------
(* The B-frame detection: detectBFrames. *)

NoDetection ==
    [hasBFrames |-> FALSE, done |-> FALSE, frameCount |-> 0, lastFramePTS |-> 0]

\* PTS went backwards, and not so far that it must be a wrap.
Backwards(pts, d) ==
    /\ pts - d.lastFramePTS < 0
    /\ ~ (pts - d.lastFramePTS < -halfThreshold)

detectBFrames(d, pts) ==
    IF d.done THEN d
    ELSE IF d.frameCount = 0
    THEN [d EXCEPT !.lastFramePTS = pts, !.frameCount = 1]
    ELSE LET found == Backwards(pts, d)
         IN  [hasBFrames   |-> found,
              done         |-> found \/ d.frameCount + 1 >= DetectWindow,
              frameCount   |-> d.frameCount + 1,
              lastFramePTS |-> pts]

\* The DTS given to a packet that has only a PTS.
DerivedDTS(video, pts, d) ==
    IF video /\ d.hasBFrames THEN pts - ReorderDelay ELSE pts

-----------------------------------------------------------------------------
NoPacket == [src |-> "none", video |-> FALSE, pts |-> 0, dts |-> 0,
             sentPTS |-> [epoch |-> 0, offset |-> 0],
             sentDTS |-> [epoch |-> 0, offset |-> 0]]

Init ==
    /\ clock \in [epoch : {0}, offset : 0 .. Wrap - 1]
    /\ sincePTS = 0
    /\ lastPTS = 0
    /\ wrapCount = 0
    /\ firstEpoch = -1
    /\ lastEpoch = 0
    /\ recrossed = 0
    /\ lastPCR = 0
    /\ detect = NoDetection
    /\ out = NoPacket
    /\ uneven = FALSE

\* The sender's clock advances and, when pcr holds, the packet carries it.  A
\* sender stamps a packet with a PTS at least every MaxStep ticks.
Advance(step, pcr) ==
    /\ sincePTS + step <= MaxStep
    /\ clock' = Later(clock, step)
    /\ clock'.epoch <= MaxEpoch
    /\ lastPCR' = IF pcr THEN clock'.offset ELSE lastPCR

\* processTSPacket, HasPTS: the first packet of a PES packet.
PacketWithPTS(step, pcr, video, delay, hasDTS) ==
    LET pts     == Later(clock', delay)
        wrapped == lastPTS > 0 /\ DetectWrap(pts.offset, lastPTS)
        count   == IF wrapped THEN wrapCount + 1 ELSE wrapCount
        p       == UnwrapPTS(pts.offset, count)
        d       == IF ~ hasDTS /\ video THEN detectBFrames(detect, p) ELSE detect
    IN  /\ Advance(step, pcr)
        /\ sincePTS' = 0
        /\ wrapCount' = count
        /\ lastPTS' = pts.offset
        /\ firstEpoch' = IF firstEpoch = -1 THEN pts.epoch ELSE firstEpoch
        /\ lastEpoch' = pts.epoch
        /\ recrossed' = IF firstEpoch # -1 /\ pts.epoch < lastEpoch
                        THEN recrossed + 1 ELSE recrossed
        /\ recrossed' <= MaxRecrossed
        /\ detect' = d
        /\ out' = [src     |-> "pts",
                   video   |-> video,
                   pts     |-> p,
                   dts     |-> IF hasDTS THEN UnwrapPTS(clock'.offset, count)
                               ELSE DerivedDTS(video, p, d),
                   sentPTS |-> pts,
                   sentDTS |-> IF hasDTS THEN clock' ELSE pts]

\* processTSPacket without a PTS: a continuation packet.  The PTS is the last
\* PCR plus the wall-clock time since then; without a PCR it stays 0.
PacketWithoutPTS(step, pcr, video, elapsed) ==
    LET est == IF lastPCR' > 0 THEN (lastPCR' + elapsed) % Wrap ELSE 0
        d   == IF video /\ est > 0 THEN detectBFrames(detect, est) ELSE detect
    IN  /\ Estimates
        /\ Advance(step, pcr)
        /\ sincePTS' = sincePTS + step
        /\ detect' = d
        /\ out' = [src     |-> "pcr",
                   video   |-> video,
                   pts     |-> est,
                   dts     |-> DerivedDTS(video /\ est > 0, est, d),
                   sentPTS |-> clock',
                   sentDTS |-> clock']
        /\ UNCHANGED <<lastPTS, wrapCount, firstEpoch, lastEpoch, recrossed>>

\* The packet carries a PTS before the last one.
SteppedBack ==
    /\ firstEpoch # -1
    /\ \/ lastEpoch' < lastEpoch
       \/ lastEpoch' = lastEpoch /\ lastPTS' < lastPTS

Next ==
    /\ \E step \in 0 .. MaxStep, pcr \in BOOLEAN, video \in BOOLEAN :
           \/ \E delay \in Delays, hasDTS \in BOOLEAN :
                  PacketWithPTS(step, pcr, video, delay, hasDTS)
           \/ \E elapsed \in 0 .. MaxElapsed :
                  PacketWithoutPTS(step, pcr, video, elapsed)
    /\ uneven' = (uneven \/ out'.src = "pcr" \/ SteppedBack)

Spec == Init /\ [][Next]_vars

-----------------------------------------------------------------------------
(* Properties *)

\* The sender's real time at stamp s, counted from the epoch of the first PTS.
RealTime(s) == s.offset + (s.epoch - firstEpoch) * Wrap

\* A PTS on the wire is unwrapped to the sender's real time, over any number
\* of wraps of the 33-bit clock, until the first PTS that steps back over a
\* wrap (a B-frame, or audio behind video: the adapter keeps one lastPTS for
\* all of them).  The way forward again is counted as another wrap, so from
\* then on every PTS is late by one period for each such step, no more and no
\* less (processTSPacket, DetectWrap, UnwrapPTS).
PtsExact ==
    out.src = "pts" => out.pts = RealTime(out.sentPTS) + recrossed * Wrap

\* The clock wraps between the DTS of the packet and its PTS.
Straddles(p) == p.sentPTS.epoch # p.sentDTS.epoch

\* A DTS is as late as the PTS of its packet, that is exact as long as no PTS
\* has stepped back over a wrap; but a packet whose PTS has wrapped and whose
\* DTS has not gets a DTS one more period late, because the DTS is unwrapped
\* with the wrap count of the PTS (processTSPacket).
DtsExact ==
    out.src = "pts" /\ ~ detect.hasBFrames =>
        out.dts = RealTime(out.sentDTS)
                    + (IF Straddles(out) THEN recrossed + 1 ELSE recrossed) * Wrap

\* Those packets, and no others, are handed on with a DTS after their PTS
\* (processTSPacket).
DecodedInTime ==
    out.src = "pts" => (out.dts > out.pts <=> Straddles(out))

\* A stream whose PTS has not gone backwards is not taken for one with
\* B-frames, in particular not when its clock wraps, as long as every packet
\* carried a PTS: estimates from the PCR are fed to the detection too
\* (detectBFrames).
NoFalseBFrames ==
    ~ uneven => ~ detect.hasBFrames

\* The DTS handed on is as exact as the PTS and not after it, except between
\* the wrap of the PTS and that of the DTS, where it is one period late; and a
\* DTS is moved to make room for B-frames only where frames really are
\* reordered (processTSPacket, detectBFrames).
DecodeStamps == DtsExact /\ DecodedInTime /\ NoFalseBFrames
=============================================================================
