--------------------------- MODULE TimelineProofs ---------------------------
(***************************************************************************)
(* Proofs about time stamps: the unwrapping of SRT time stamps, the        *)
(* B-frame reorderer, the tracks of the A/V synchronisation and the RTP    *)
(* mapper.  Each part opens with its argument.                             *)
(***************************************************************************)
EXTENDS SRTTimestamps, BFrameReorderer, AVSync, FiniteSetTheorems, TLAPS

-----------------------------------------------------------------------------
(***************************************************************************)
(* For every period of the clock, every set of presentation delays and     *)
(* every number of wraps, as long as two PTS in a row are less than half a *)
(* period apart.  The detector compares a PTS with the one before it only, *)
(* so the inductive invariant ties what it knows (lastPTS, wrapCount) to   *)
(* the real time line: the last PTS is the clock of its packet plus one of *)
(* the delays, and the wrap count is the number of the period the last PTS *)
(* lies in plus the number of steps back over a wrap.                      *)
(***************************************************************************)

Stamps == [epoch : Nat, offset : 0 .. Wrap - 1]

ClockOK == clock \in Stamps /\ sincePTS \in 0 .. MaxStep

CountOK ==
    /\ lastPTS \in 0 .. Wrap - 1
    /\ wrapCount \in Nat
    /\ firstEpoch \in Nat \cup {-1}
    /\ lastEpoch \in Nat
    /\ recrossed \in Nat

\* A time stamp on the real time line.
Time(s) == s.offset + s.epoch * Wrap

\* The PTS last seen, as it was sent.
LastSent == [epoch |-> lastEpoch, offset |-> lastPTS]

InStep ==
    IF firstEpoch = -1
    THEN lastPTS = 0 /\ wrapCount = 0 /\ recrossed = 0 /\ out.src # "pts"
    ELSE /\ wrapCount = lastEpoch - firstEpoch + recrossed
         /\ \E d \in Delays : Time(LastSent) = Time(clock) - sincePTS + d

UnwrapInv == ClockOK /\ CountOK /\ InStep /\ PtsExact

-----------------------------------------------------------------------------
\* Half a period, as the detector computes it, is a natural number.
LEMMA HalfType ==
    /\ halfThreshold \in Nat
    /\ halfThreshold <= Wrap - halfThreshold
    /\ Wrap - halfThreshold <= halfThreshold + 1
    /\ MaxStep < Wrap - halfThreshold
    /\ MaxStep < Wrap
BY WrapAssumption, StepAssumption DEF halfThreshold

\* A time stamp stays a 33-bit value when time passes, and moves by that time.
LEMMA LaterType ==
    ASSUME NEW c \in Stamps, NEW d \in 0 .. Wrap - 1
    PROVE  /\ Later(c, d) \in Stamps
           /\ \/ Later(c, d).epoch = c.epoch /\ Later(c, d).offset >= c.offset
              \/ Later(c, d).epoch = c.epoch + 1 /\ Later(c, d).offset < c.offset
           /\ Time(Later(c, d)) = Time(c) + d
<1>1. Wrap \in Nat /\ c.epoch \in Nat /\ c.offset \in 0 .. Wrap - 1 /\ d \in 0 .. Wrap - 1
    BY WrapAssumption DEF Stamps
<1>2. c.epoch * Wrap \in Int /\ (c.epoch + 1) * Wrap = c.epoch * Wrap + Wrap
    BY <1>1
<1>3. CASE c.offset + d < Wrap
    BY <1>1, <1>2, <1>3 DEF Later, Time, Stamps
<1>4. CASE ~ (c.offset + d < Wrap)
    <2>1. Later(c, d) = [epoch |-> c.epoch + 1, offset |-> c.offset + d - Wrap]
        BY <1>4 DEF Later
    <2> QED
        BY <1>1, <1>2, <1>4, <2>1 DEF Time, Stamps
<1> QED
    BY <1>3, <1>4

\* Two stamps less than a period apart lie in the same or in neighbouring periods.
LEMMA NearPeriods ==
    ASSUME NEW w \in Nat, w > 0, NEW k \in Int, k * w < 2 * w, k * w > -2 * w
    PROVE  k \in {-1, 0, 1}
<1>1. CASE k >= 2
    <2>1. k * w >= 2 * w
        BY <1>1
    <2> QED
        BY <2>1
<1>2. CASE k <= -2
    <2>1. k * w <= (-2) * w
        BY <1>2
    <2> QED
        BY <2>1
<1> QED
    BY <1>1, <1>2

\* Between two PTS less than half a period apart the detector sees a wrap
\* exactly when the second lies in a later period than the first.
LEMMA WrapSeen ==
    ASSUME NEW a \in Stamps, NEW b \in Stamps, NEW k \in Int, Time(b) = Time(a) + k,
           k < Wrap - halfThreshold, k > -(Wrap - halfThreshold)
    PROVE  IF a.offset > 0 /\ DetectWrap(b.offset, a.offset)
           THEN b.epoch = a.epoch + 1
           ELSE b.epoch \in {a.epoch, a.epoch - 1}
<1>1. /\ Wrap \in Nat /\ Wrap > 0 /\ halfThreshold \in Nat
      /\ a.epoch \in Nat /\ a.offset \in 0 .. Wrap - 1 /\ b.epoch \in Nat /\ b.offset \in 0 .. Wrap - 1
    BY WrapAssumption, HalfType DEF Stamps
<1> DEFINE e == b.epoch - a.epoch
<1>2. e \in Int /\ e * Wrap = b.epoch * Wrap - a.epoch * Wrap
    BY <1>1
<1>3. /\ e * Wrap = a.offset + k - b.offset
      /\ a.epoch * Wrap \in Int /\ b.epoch * Wrap \in Int
    BY <1>1, <1>2 DEF Time
<1>4. e \in {-1, 0, 1}
    <2>1. e * Wrap < 2 * Wrap /\ e * Wrap > -2 * Wrap
        BY <1>1, <1>2, <1>3, HalfType
    <2> HIDE DEF e
    <2> QED
        BY <1>1, <1>2, <2>1, NearPeriods
<1>5. CASE e = 1
    <2>0. e * Wrap = Wrap
        BY <1>1, <1>5
    <2> HIDE DEF e
    <2>1. a.offset - b.offset = Wrap - k
        BY <1>1, <1>3, <2>0
    <2>2. a.offset > 0 /\ DetectWrap(b.offset, a.offset)
        BY <1>1, <2>1, HalfType DEF DetectWrap
    <2> QED
        BY <1>1, <1>5, <2>2 DEF e
<1>6. CASE e = 0
    <2>0. e * Wrap = 0
        BY <1>1, <1>6
    <2> HIDE DEF e
    <2>1. a.offset - b.offset = -k
        BY <1>1, <1>3, <2>0
    <2>2. ~ DetectWrap(b.offset, a.offset)
        BY <1>1, <2>1, HalfType DEF DetectWrap
    <2> QED
        BY <1>1, <1>6, <2>2 DEF e
<1>7. CASE e = -1
    <2>1. b.offset - a.offset = Wrap + k
        BY <1>1, <1>3, <1>7
    <2>2. ~ DetectWrap(b.offset, a.offset)
        BY <1>1, <2>1, HalfType DEF DetectWrap
    <2> QED
        BY <1>1, <1>7, <2>2
<1> QED
    BY <1>4, <1>5, <1>6, <1>7

-----------------------------------------------------------------------------
LEMMA InitInv == Init => UnwrapInv
<1> SUFFICES ASSUME Init PROVE UnwrapInv
    OBVIOUS
<1>1. ClockOK
    BY WrapAssumption, StepAssumption DEF Init, ClockOK, Stamps
<1>2. CountOK
    BY WrapAssumption DEF Init, CountOK
<1>3. InStep /\ PtsExact
    BY DEF Init, InStep, PtsExact, NoPacket
<1> QED
    BY <1>1, <1>2, <1>3 DEF UnwrapInv

\* Time passes on the sender's clock.
LEMMA AdvanceKeeps ==
    ASSUME UnwrapInv, NEW step \in 0 .. MaxStep, NEW pcr \in BOOLEAN, Advance(step, pcr)
    PROVE  /\ sincePTS + step \in 0 .. MaxStep
           /\ clock' \in Stamps
           /\ Time(clock') = Time(clock) + step
<1>1. sincePTS + step \in 0 .. MaxStep
    BY StepAssumption DEF UnwrapInv, ClockOK, Advance
<1>2. step \in 0 .. Wrap - 1
    BY StepAssumption, WrapAssumption, HalfType
<1>3. clock' = Later(clock, step) /\ clock \in Stamps
    BY DEF Advance, UnwrapInv, ClockOK
<1> QED
    BY <1>1, <1>2, <1>3, LaterType

\* The real time line is made of integers.
LEMMA TimeType == ASSUME NEW s \in Stamps PROVE Time(s) \in Int
BY WrapAssumption DEF Stamps, Time

\* What a packet with a PTS does to the count: it moves with the period of the
\* PTS, except that it does not move back.
LEMMA CountMoves ==
    ASSUME UnwrapInv, NEW step \in 0 .. MaxStep, NEW pcr \in BOOLEAN,
           NEW video \in BOOLEAN, NEW delay \in Delays, NEW hasDTS \in BOOLEAN,
           PacketWithPTS(step, pcr, video, delay, hasDTS)
    PROVE  LET pts == Later(clock', delay) IN
           /\ clock' \in Stamps /\ pts \in Stamps
           /\ firstEpoch' \in Nat /\ recrossed' \in Nat /\ wrapCount' \in Nat
           /\ wrapCount' = pts.epoch - firstEpoch' + recrossed'
           /\ Time(pts) = Time(clock') + delay
<1> DEFINE pts   == Later(clock', delay)
           wrapped == lastPTS > 0 /\ DetectWrap(pts.offset, lastPTS)
           count == IF wrapped THEN wrapCount + 1 ELSE wrapCount
           back  == firstEpoch # -1 /\ pts.epoch < lastEpoch
<1>0. /\ Advance(step, pcr)
      /\ wrapCount' = count
      /\ firstEpoch' = (IF firstEpoch = -1 THEN pts.epoch ELSE firstEpoch)
      /\ recrossed' = (IF back THEN recrossed + 1 ELSE recrossed)
    BY DEF PacketWithPTS
<1>1. /\ sincePTS + step \in 0 .. MaxStep
      /\ clock' \in Stamps
      /\ Time(clock') = Time(clock) + step
    BY <1>0, AdvanceKeeps
<1>2. delay \in 0 .. Wrap - 1
    BY DelayAssumption
<1>3. pts \in Stamps /\ Time(pts) = Time(clock') + delay
    BY <1>1, <1>2, LaterType
<1>4. pts.epoch \in Nat /\ pts.offset \in 0 .. Wrap - 1
    BY <1>3 DEF Stamps
<1>5. wrapCount \in Nat /\ recrossed \in Nat /\ lastEpoch \in Nat /\ lastPTS \in 0 .. Wrap - 1
    BY DEF UnwrapInv, CountOK
<1>6. CASE firstEpoch = -1
    <2>1. lastPTS = 0 /\ wrapCount = 0 /\ recrossed = 0
        BY <1>6 DEF UnwrapInv, InStep
    <2> HIDE DEF pts
    <2> QED
        BY <2>1, <1>6, <1>0, <1>1, <1>3, <1>4 DEF pts
<1>7. CASE firstEpoch # -1
    <2>1. PICK d \in Delays : Time(LastSent) = Time(clock) - sincePTS + d
        BY <1>7 DEF UnwrapInv, InStep
    <2>2. /\ LastSent \in Stamps /\ LastSent.offset = lastPTS /\ LastSent.epoch = lastEpoch
          /\ firstEpoch \in Nat /\ clock \in Stamps
        BY <1>5, <1>7 DEF Stamps, LastSent, UnwrapInv, CountOK, ClockOK
    <2> DEFINE k == sincePTS + step + delay - d
    <2>3. d \in Int /\ delay \in Int /\ sincePTS \in Int /\ step \in Int /\ MaxStep \in Nat
        BY <2>1, <1>2, DelayAssumption, StepAssumption, WrapAssumption DEF UnwrapInv, ClockOK
    <2>4. MaxStep + delay - d < Wrap - halfThreshold /\ MaxStep + d - delay < Wrap - halfThreshold
        BY <2>1, StepAssumption DEF halfThreshold
    <2>5. k \in Int /\ k < Wrap - halfThreshold /\ k > -(Wrap - halfThreshold)
        BY <1>1, <2>3, <2>4, HalfType, WrapAssumption
    <2>6. Time(pts) = Time(LastSent) + k
        <3>1. Time(clock) \in Int
            BY <2>2, TimeType
        <3> QED
            BY <1>1, <1>3, <2>1, <2>3, <3>1
    <2> HIDE DEF k, pts
    <2>7. IF wrapped THEN pts.epoch = lastEpoch + 1 ELSE pts.epoch \in {lastEpoch, lastEpoch - 1}
        BY <1>3, <2>2, <2>5, <2>6, WrapSeen
    <2>8. wrapCount = lastEpoch - firstEpoch + recrossed
        BY <1>7 DEF UnwrapInv, InStep
    <2>9. firstEpoch' = firstEpoch
        BY <1>0, <1>7
    <2>10. count \in Nat /\ count = pts.epoch - firstEpoch + recrossed'
        BY <1>0, <1>4, <1>5, <1>7, <2>2, <2>7, <2>8
    <2> QED
        BY <1>0, <1>1, <1>3, <1>5, <2>2, <2>9, <2>10 DEF pts
<1> QED
    BY <1>6, <1>7

\* Multiples of the period add up.
LEMMA Periods ==
    ASSUME NEW a \in Int, NEW b \in Int
    PROVE  /\ (a + b) * Wrap = a * Wrap + b * Wrap
           /\ a * Wrap \in Int /\ b * Wrap \in Int /\ (a + b) * Wrap \in Int
BY WrapAssumption

LEMMA WithPTSKeeps ==
    ASSUME UnwrapInv, NEW step \in 0 .. MaxStep, NEW pcr \in BOOLEAN,
           NEW video \in BOOLEAN, NEW delay \in Delays, NEW hasDTS \in BOOLEAN,
           PacketWithPTS(step, pcr, video, delay, hasDTS)
    PROVE  UnwrapInv'
<1> DEFINE pts == Later(clock', delay)
<1>0. /\ sincePTS' = 0
      /\ lastPTS' = pts.offset
      /\ lastEpoch' = pts.epoch
      /\ out'.src = "pts"
      /\ out'.pts = pts.offset + wrapCount' * Wrap
      /\ out'.sentPTS = pts
    BY DEF PacketWithPTS, UnwrapPTS
<1>1. /\ clock' \in Stamps /\ pts \in Stamps
      /\ firstEpoch' \in Nat /\ recrossed' \in Nat /\ wrapCount' \in Nat
      /\ wrapCount' = pts.epoch - firstEpoch' + recrossed'
      /\ Time(pts) = Time(clock') + delay
    BY CountMoves
<1> HIDE DEF pts
<1>2. pts.epoch \in Nat /\ pts.offset \in 0 .. Wrap - 1 /\ pts.offset \in Int
    BY <1>1 DEF Stamps
<1>3. ClockOK' /\ CountOK'
    BY <1>0, <1>1, <1>2, StepAssumption DEF ClockOK, CountOK
<1>4. PtsExact'
    <2>0. PICK e \in Int, r \in Int : e = pts.epoch - firstEpoch' /\ r = recrossed'
        BY <1>1, <1>2
    <2>1. wrapCount' * Wrap = e * Wrap + r * Wrap /\ e * Wrap \in Int /\ r * Wrap \in Int
        <3>1. wrapCount' = e + r
            BY <1>1, <2>0
        <3> QED
            BY <3>1, Periods
    <2>2. out'.pts = pts.offset + e * Wrap + r * Wrap
        BY <1>0, <1>2, <2>1
    <2> QED
        BY <1>0, <2>0, <2>2 DEF PtsExact, RealTime
<1>5. InStep'
    <2>1. LastSent' = pts
        BY <1>0, <1>1 DEF LastSent, Stamps
    <2>2. Time(LastSent)' = Time(clock') - sincePTS' + delay
        <3>1. Time(clock') \in Int /\ delay \in Int
            BY <1>1, TimeType, DelayAssumption
        <3>2. Time(LastSent)' = Time(pts)
            BY <2>1 DEF Time
        <3> QED
            BY <1>0, <1>1, <3>1, <3>2
    <2>3. firstEpoch' # -1 /\ wrapCount' = lastEpoch' - firstEpoch' + recrossed'
        BY <1>0, <1>1
    <2>4. \E d \in Delays : Time(LastSent)' = Time(clock') - sincePTS' + d
        BY <2>2
    <2>5. Time(clock)' = Time(clock')
        BY DEF Time
    <2> QED
        BY <2>3, <2>4, <2>5 DEF InStep
<1> QED
    BY <1>3, <1>4, <1>5 DEF UnwrapInv

LEMMA WithoutPTSKeeps ==
    ASSUME UnwrapInv, NEW step \in 0 .. MaxStep, NEW pcr \in BOOLEAN,
           NEW video \in BOOLEAN, NEW elapsed \in 0 .. MaxElapsed,
           PacketWithoutPTS(step, pcr, video, elapsed)
    PROVE  UnwrapInv'
<1>0. /\ Advance(step, pcr)
      /\ sincePTS' = sincePTS + step
      /\ out'.src = "pcr"
      /\ UNCHANGED <<lastPTS, wrapCount, firstEpoch, lastEpoch, recrossed>>
    BY DEF PacketWithoutPTS
<1>1. /\ sincePTS + step \in 0 .. MaxStep
      /\ clock' \in Stamps
      /\ Time(clock') = Time(clock) + step
    BY <1>0, AdvanceKeeps
<1>2. ClockOK' /\ CountOK'
    BY <1>0, <1>1 DEF UnwrapInv, ClockOK, CountOK
<1>3. Time(LastSent)' = Time(LastSent) /\ Time(clock)' = Time(clock')
    BY <1>0 DEF LastSent, Time
<1>4. InStep'
    <2>1. CASE firstEpoch = -1
        BY <1>0, <2>1 DEF UnwrapInv, InStep
    <2>2. CASE firstEpoch # -1
        <3>1. PICK d \in Delays : Time(LastSent) = Time(clock) - sincePTS + d
            BY <2>2 DEF UnwrapInv, InStep
        <3>2. Time(clock) \in Int /\ d \in Int /\ sincePTS \in Int /\ step \in Int
            BY TimeType, DelayAssumption DEF UnwrapInv, ClockOK
        <3>3. Time(LastSent)' = Time(clock)' - sincePTS' + d
            BY <1>0, <1>1, <1>3, <3>1, <3>2
        <3>4. wrapCount' = lastEpoch' - firstEpoch' + recrossed' /\ firstEpoch' # -1
            BY <1>0, <2>2 DEF UnwrapInv, InStep
        <3> QED
            BY <3>3, <3>4 DEF InStep
    <2> QED
        BY <2>1, <2>2
<1>5. PtsExact'
    BY <1>0 DEF PtsExact
<1> QED
    BY <1>2, <1>4, <1>5 DEF UnwrapInv

LEMMA UnwrapStep == ASSUME UnwrapInv, [Next]_vars PROVE UnwrapInv'
<1>1. CASE Next
    BY <1>1, WithPTSKeeps, WithoutPTSKeeps DEF Next
<1>2. CASE UNCHANGED vars
    BY <1>2 DEF vars, UnwrapInv, ClockOK, CountOK, InStep, LastSent, Time, PtsExact, RealTime
<1> QED
    BY <1>1, <1>2

\* Over any number of wraps, whatever the delays of the tracks and whatever
\* packets without a PTS come in between, processTSPacket gives every packet
\* that carries a PTS its real time plus one period for every step back over a
\* wrap so far: exact until the first such step.  Assumed is that two PTS in a
\* row are less than half a period apart (13 hours for the 33-bit clock).
THEOREM UnwrapExact == Spec => []PtsExact
<1>1. UnwrapInv => PtsExact
    BY DEF UnwrapInv
<1> QED
    BY <1>1, InitInv, UnwrapStep, PTL DEF Spec

-----------------------------------------------------------------------------
(* The DTS: what detectBFrames compares with is never later than the last PTS. *)

LastTime == lastPTS + wrapCount * Wrap

Detections == [hasBFrames : BOOLEAN, done : BOOLEAN, frameCount : Nat, lastFramePTS : Int]

DetectOK ==
    /\ uneven \in BOOLEAN /\ lastPCR \in Nat /\ detect \in Detections
    /\ ~ uneven =>
           /\ ~ detect.hasBFrames
           /\ detect.frameCount # 0 => firstEpoch # -1 /\ detect.lastFramePTS <= LastTime

StampInv == UnwrapInv /\ DtsExact /\ DecodedInTime /\ DetectOK

LEMMA DetectType ==
    ASSUME NEW d \in Detections, NEW pts \in Int PROVE detectBFrames(d, pts) \in Detections
<1>1. CASE d.done
    BY <1>1 DEF detectBFrames
<1>2. CASE ~ d.done /\ d.frameCount = 0
    <2>1. detectBFrames(d, pts) = [d EXCEPT !.lastFramePTS = pts, !.frameCount = 1]
        BY <1>2 DEF detectBFrames
    <2>2. /\ d.hasBFrames \in BOOLEAN /\ d.done \in BOOLEAN
          /\ d = [hasBFrames |-> d.hasBFrames, done |-> d.done, frameCount |-> d.frameCount,
                  lastFramePTS |-> d.lastFramePTS]
        BY DEF Detections
    <2>3. detectBFrames(d, pts)
            = [hasBFrames |-> d.hasBFrames, done |-> d.done, frameCount |-> 1, lastFramePTS |-> pts]
        BY <2>1, <2>2
    <2> QED
        BY <2>2, <2>3 DEF Detections
<1>3. CASE ~ d.done /\ d.frameCount # 0
    <2> DEFINE found == Backwards(pts, d)
               done == found \/ d.frameCount + 1 >= DetectWindow
               n == d.frameCount + 1
    <2>1. detectBFrames(d, pts)
            = [hasBFrames |-> found, done |-> done, frameCount |-> n, lastFramePTS |-> pts]
        BY <1>3 DEF detectBFrames
    <2>2. found \in BOOLEAN /\ done \in BOOLEAN
        BY DEF Backwards
    <2>3. n \in Nat
        BY DEF Detections
    <2> HIDE DEF found, done, n
    <2> QED
        BY <2>1, <2>2, <2>3 DEF Detections
<1> QED
    BY <1>1, <1>2, <1>3

\* Time stamps are ordered by their period first.
LEMMA LaterPeriod ==
    ASSUME NEW o \in 0 .. Wrap - 1, NEW p \in 0 .. Wrap - 1, NEW m \in Int, NEW n \in Int,
           n > m \/ (n = m /\ p >= o)
    PROVE  /\ o + m * Wrap \in Int /\ p + n * Wrap \in Int
           /\ p + n * Wrap >= o + m * Wrap
<1>1. PICK k \in Int : n = m + k /\ k >= 0
    <2>1. n - m \in Int /\ n = m + (n - m) /\ n - m >= 0
        OBVIOUS
    <2> QED
        BY <2>1
<1>2. PICK x \in Int, y \in Int : x = m * Wrap /\ y = k * Wrap /\ n * Wrap = x + y
    <2>1. (m + k) * Wrap = m * Wrap + k * Wrap /\ m * Wrap \in Int /\ k * Wrap \in Int
        BY Periods
    <2> QED
        BY <1>1, <2>1
<1>3. y >= Wrap \/ (y = 0 /\ p >= o)
    BY <1>1, <1>2, WrapAssumption
<1> QED
    BY <1>2, <1>3, WrapAssumption

\* A PTS that does not step back is not unwrapped to an earlier time.
LEMMA TimeGoesOn ==
    ASSUME UnwrapInv, UnwrapInv', firstEpoch # -1, firstEpoch' = firstEpoch, ~ SteppedBack,
           recrossed' = recrossed
    PROVE  LastTime \in Int /\ LastTime' \in Int /\ LastTime' >= LastTime
<1>1. PICK o \in 0 .. Wrap - 1, p \in 0 .. Wrap - 1, m \in Nat, n \in Nat, e \in Nat, f \in Nat,
           b \in Nat, r \in Nat :
          /\ o = lastPTS /\ p = lastPTS' /\ m = wrapCount /\ n = wrapCount'
          /\ e = lastEpoch /\ f = lastEpoch' /\ b = firstEpoch /\ r = recrossed
    BY DEF UnwrapInv, CountOK
<1>2. m = e - b + r /\ n = f - b + r
    BY <1>1 DEF UnwrapInv, InStep
<1>3. ~ (f < e) /\ ~ (f = e /\ p < o)
    BY <1>1 DEF SteppedBack
<1>4. n > m \/ (n = m /\ p >= o)
    BY <1>2, <1>3
<1>5. /\ o + m * Wrap \in Int /\ p + n * Wrap \in Int
      /\ p + n * Wrap >= o + m * Wrap
    <2>1. m \in Int /\ n \in Int
        OBVIOUS
    <2> QED
        BY <1>4, <2>1, LaterPeriod
<1> QED
    BY <1>1, <1>5 DEF LastTime

LEMMA StampWithPTS ==
    ASSUME StampInv, UnwrapInv', NEW step \in 0 .. MaxStep, NEW pcr \in BOOLEAN,
           NEW video \in BOOLEAN, NEW delay \in Delays, NEW hasDTS \in BOOLEAN,
           PacketWithPTS(step, pcr, video, delay, hasDTS), uneven' = (uneven \/ SteppedBack)
    PROVE  StampInv'
<1> DEFINE pts   == Later(clock', delay)
           count == wrapCount'
           p     == pts.offset + count * Wrap
<1>0. /\ Advance(step, pcr) /\ lastPTS' = pts.offset /\ lastEpoch' = pts.epoch
      /\ out'.src = "pts" /\ out'.pts = p /\ out'.sentPTS = pts
      /\ out'.sentDTS = (IF hasDTS THEN clock' ELSE pts)
      /\ out'.dts = (IF hasDTS THEN clock'.offset + count * Wrap ELSE DerivedDTS(video, p, detect'))
      /\ detect' = (IF ~ hasDTS /\ video THEN detectBFrames(detect, p) ELSE detect)
      /\ firstEpoch' = (IF firstEpoch = -1 THEN pts.epoch ELSE firstEpoch)
      /\ recrossed' = (IF firstEpoch # -1 /\ pts.epoch < lastEpoch THEN recrossed + 1 ELSE recrossed)
    BY DEF PacketWithPTS, UnwrapPTS
<1>1. /\ clock' \in Stamps /\ pts \in Stamps
      /\ firstEpoch' \in Nat /\ recrossed' \in Nat /\ count \in Nat
      /\ count = pts.epoch - firstEpoch' + recrossed'
    BY CountMoves DEF StampInv
<1>2. \/ pts.epoch = clock'.epoch /\ pts.offset >= clock'.offset
      \/ pts.epoch = clock'.epoch + 1 /\ pts.offset < clock'.offset
    BY <1>1, LaterType, DelayAssumption
<1> HIDE DEF pts
<1>3. /\ Wrap \in Nat /\ pts.epoch \in Int /\ pts.offset \in Int /\ count \in Int
      /\ clock'.epoch \in Int /\ clock'.offset \in Int /\ count * Wrap \in Int
    BY <1>1, WrapAssumption DEF Stamps
<1> HIDE DEF count
<1>4. p \in Int
    BY <1>3
<1>5. Straddles(out)' <=> (hasDTS /\ pts.epoch # clock'.epoch)
    BY <1>0 DEF Straddles
<1>6. DtsExact'
    <2> DEFINE late == IF Straddles(out)' THEN recrossed' + 1 ELSE recrossed'
    <2> SUFFICES ASSUME ~ detect'.hasBFrames
                 PROVE  out'.dts = out'.sentDTS.offset + (out'.sentDTS.epoch - firstEpoch') * Wrap
                                   + late * Wrap
        BY <1>0 DEF DtsExact, RealTime
    <2>1. out'.dts = out'.sentDTS.offset + count * Wrap
        BY <1>0 DEF DerivedDTS
    <2>2. out'.sentDTS.offset \in Int /\ out'.sentDTS.epoch \in Int
        BY <1>0, <1>3
    <2>3. late \in Int /\ count = (out'.sentDTS.epoch - firstEpoch') + late
        BY <1>0, <1>1, <1>2, <1>3, <1>5
    <2> HIDE DEF late
    <2>4. out'.sentDTS.epoch - firstEpoch' \in Int
        BY <1>1, <2>2
    <2>5. count * Wrap = (out'.sentDTS.epoch - firstEpoch') * Wrap + late * Wrap
        BY <2>3, <2>4, Periods
    <2>6. (out'.sentDTS.epoch - firstEpoch') * Wrap \in Int /\ late * Wrap \in Int
        BY <2>3, <2>4, Periods
    <2> QED
        BY <2>1, <2>2, <2>5, <2>6
<1>7. DecodedInTime'
    <2>1. CASE hasDTS
        <3>1. out'.dts = clock'.offset + count * Wrap /\ out'.pts = pts.offset + count * Wrap
            BY <1>0, <2>1
        <3>2. out'.dts > out'.pts <=> clock'.offset > pts.offset
            BY <1>3, <3>1
        <3> QED
            BY <1>2, <1>3, <1>5, <2>1, <3>2 DEF DecodedInTime
    <2>2. CASE ~ hasDTS
        <3>1. out'.dts \in {p, p - ReorderDelay}
            BY <1>0, <2>2 DEF DerivedDTS
        <3>2. ~ (out'.dts > out'.pts)
            BY <1>0, <1>4, <3>1, BoundAssumption
        <3> QED
            BY <1>5, <2>2, <3>2 DEF DecodedInTime
    <2> QED
        BY <2>1, <2>2
<1>8. LastTime' = p
    BY <1>0 DEF LastTime, count
<1>9. lastPCR' \in Nat /\ detect' \in Detections /\ uneven' \in BOOLEAN
    <2>1. lastPCR' \in Nat
        BY <1>0, <1>3, <1>1 DEF StampInv, DetectOK, Advance, Stamps
    <2>2. detect' \in Detections
        BY <1>0, <1>4, DetectType DEF StampInv, DetectOK
    <2>3. uneven' \in BOOLEAN
        BY DEF StampInv, DetectOK, SteppedBack
    <2> QED
        BY <2>1, <2>2, <2>3
<1>10. ASSUME ~ uneven', firstEpoch # -1 PROVE LastTime \in Int /\ p >= LastTime
    <2>1. ~ SteppedBack
        BY <1>10
    <2>2. firstEpoch' = firstEpoch
        BY <1>0, <1>10
    <2>3. recrossed' = recrossed
        BY <1>0, <1>10, <2>1 DEF SteppedBack
    <2> QED
        BY <1>8, <1>10, <2>1, <2>2, <2>3, TimeGoesOn DEF StampInv
<1> HIDE DEF p
<1>11. ASSUME ~ uneven'
       PROVE  /\ ~ detect'.hasBFrames
              /\ detect'.frameCount # 0 => firstEpoch' # -1 /\ detect'.lastFramePTS <= p
    <2>1. /\ ~ detect.hasBFrames /\ detect \in Detections /\ detect.lastFramePTS \in Int
          /\ detect.frameCount # 0 => firstEpoch # -1 /\ detect.lastFramePTS <= LastTime
        BY <1>11 DEF StampInv, DetectOK, Detections
    <2>2. detect.frameCount # 0 => detect.lastFramePTS <= p
        BY <1>4, <1>10, <1>11, <2>1
    <2>3. firstEpoch' # -1
        BY <1>1
    <2>4. detect.frameCount # 0 => ~ Backwards(p, detect)
        BY <1>4, <2>1, <2>2 DEF Backwards
    <2>5. CASE detect' = detect
        BY <2>1, <2>2, <2>3, <2>5
    <2>6. CASE detect' = detectBFrames(detect, p)
        <3>1. CASE detect.done
            BY <2>5, <2>6, <3>1 DEF detectBFrames
        <3>2. CASE ~ detect.done /\ detect.frameCount = 0
            BY <1>4, <2>1, <2>3, <2>6, <3>2 DEF detectBFrames, Detections
        <3>3. CASE ~ detect.done /\ detect.frameCount # 0
            BY <1>4, <2>3, <2>4, <2>6, <3>3 DEF detectBFrames
        <3> QED
            BY <3>1, <3>2, <3>3
    <2> QED
        BY <1>0, <2>5, <2>6
<1> QED
    BY <1>6, <1>7, <1>8, <1>9, <1>11 DEF StampInv, DetectOK

LEMMA StampStep == ASSUME StampInv, [Next]_vars PROVE StampInv'
<1>0. UnwrapInv'
    BY UnwrapStep DEF StampInv
<1>1. CASE UNCHANGED vars
    BY <1>0, <1>1 DEF vars, StampInv, DtsExact, DecodedInTime, Straddles, RealTime, DetectOK, LastTime
<1>2. ASSUME Next, NEW step \in 0 .. MaxStep, NEW pcr \in BOOLEAN, NEW video \in BOOLEAN,
             NEW delay \in Delays, NEW hasDTS \in BOOLEAN,
             PacketWithPTS(step, pcr, video, delay, hasDTS)
      PROVE  StampInv'
    <2>1. out'.src = "pts"
        BY <1>2 DEF PacketWithPTS
    <2>2. uneven' = (uneven \/ SteppedBack)
        BY <1>2, <2>1 DEF Next
    <2> QED
        BY <1>0, <1>2, <2>2, StampWithPTS
<1>3. ASSUME Next, NEW step \in 0 .. MaxStep, NEW pcr \in BOOLEAN, NEW video \in BOOLEAN,
             NEW elapsed \in 0 .. MaxElapsed, PacketWithoutPTS(step, pcr, video, elapsed)
      PROVE  StampInv'
    <2>1. out'.src = "pcr" /\ uneven'
        BY <1>3 DEF PacketWithoutPTS, Next
    <2>2. lastPCR' \in Nat
        <3>1. clock'.offset \in Nat
            BY <1>0 DEF UnwrapInv, ClockOK, Stamps
        <3> QED
            BY <1>3, <3>1 DEF PacketWithoutPTS, Advance, StampInv, DetectOK
    <2> DEFINE est == IF lastPCR' > 0 THEN (lastPCR' + elapsed) % Wrap ELSE 0
    <2>3. est \in Int
        BY <2>2, WrapAssumption, BoundAssumption
    <2>4. detect' = (IF video /\ est > 0 THEN detectBFrames(detect, est) ELSE detect)
        BY <1>3 DEF PacketWithoutPTS
    <2> HIDE DEF est
    <2>5. detect' \in Detections
        BY <2>3, <2>4, DetectType DEF StampInv, DetectOK
    <2>6. uneven' \in BOOLEAN
        BY <1>3, <2>1 DEF Next
    <2> QED
        BY <1>0, <2>1, <2>2, <2>5, <2>6 DEF StampInv, DtsExact, DecodedInTime, DetectOK
<1> QED
    BY <1>1, <1>2, <1>3 DEF Next

\* Every DTS handed on is exactly as late as the PTS of its packet and not
\* after it, but for the packets between the wrap of the PTS and that of the
\* DTS, whose DTS is one more period late; and no wrap is taken for a B-frame:
\* for every period, set of delays, window of the detection and number of wraps
\* (srt_connection_adapter.go, processTSPacket, detectBFrames).
THEOREM DecodeExact == Spec => []DecodeStamps
<1>1. Init => StampInv
    <2> SUFFICES ASSUME Init PROVE StampInv
        OBVIOUS
    <2>1. DtsExact /\ DecodedInTime
        BY DEF Init, DtsExact, DecodedInTime, NoPacket
    <2>2. detect = NoDetection /\ lastPCR = 0 /\ uneven = FALSE
        BY DEF Init
    <2>3. NoDetection \in Detections /\ ~ NoDetection.hasBFrames /\ NoDetection.frameCount = 0
        BY DEF NoDetection, Detections
    <2>4. DetectOK
        BY <2>2, <2>3 DEF DetectOK
    <2> QED
        BY <2>1, <2>4, InitInv DEF StampInv
<1>2. StampInv => DecodeStamps
    BY DEF StampInv, DetectOK, DecodeStamps, NoFalseBFrames
<1> QED
    BY <1>1, <1>2, StampStep, PTL DEF Spec

-----------------------------------------------------------------------------
(***************************************************************************)
(* For every reorder depth, every spacing of the frames and every moment   *)
(* at which frames age or Flush is called: the reorderer holds back fewer  *)
(* frames than its depth, and a conforming stream whose time stamps do not *)
(* wrap and start above zero comes out whole and in decode order.          *)
(***************************************************************************)

\* The part of the stream that is looked at has no wrap and no DTS of zero.
PlainTime == Start >= 0 /\ MaxTime + MaxPresent < PTSWrap

-----------------------------------------------------------------------------
(* The number of frames held back. *)

Held ==
    /\ IsFiniteSet(buffer)
    /\ pc \in {"idle", "check", "flush"}
    /\ Cardinality(buffer) <= Depth
    /\ pc # "check" => Cardinality(buffer) < Depth

LEMMA HeldInit == ReorderInit => Held
BY FS_EmptySet, DepthAssumption DEF ReorderInit, Held

LEMMA EmitShrinks ==
    ASSUME Held, NEW f \in buffer, buffer' = buffer \ {f}, pc' = pc
    PROVE  Held'
<1>1. IsFiniteSet(buffer') /\ Cardinality(buffer') = Cardinality(buffer) - 1
    BY FS_RemoveElement DEF Held
<1>2. Cardinality(buffer) \in Nat
    BY FS_CardinalityType DEF Held
<1> QED
    BY <1>1, <1>2, DepthAssumption DEF Held

LEMMA HeldNext == Held /\ [ReorderNext]_reorderVars => Held'
<1> SUFFICES ASSUME Held, [ReorderNext]_reorderVars PROVE Held'
    OBVIOUS
<1>0. Cardinality(buffer) \in Nat
    BY FS_CardinalityType DEF Held
<1>1. ASSUME NEW type \in Types, NEW step \in Steps, NEW delay \in 0 .. MaxPresent,
             AddFrame(type, step, delay)
      PROVE  Held'
    <2>1. PICK g : buffer' = buffer \cup {g}
        BY <1>1 DEF AddFrame
    <2>2. /\ IsFiniteSet(buffer')
          /\ Cardinality(buffer') = Cardinality(buffer)
             \/ Cardinality(buffer') = Cardinality(buffer) + 1
        BY <2>1, FS_AddElement DEF Held
    <2>3. Cardinality(buffer) < Depth /\ pc' = "check"
        BY <1>1 DEF AddFrame, Held
    <2> QED
        BY <2>2, <2>3, <1>0, DepthAssumption DEF Held
<1>2. ASSUME NEW f \in buffer, NEW aged \in BOOLEAN, OutputNext(f, aged) PROVE Held'
    <2>1. buffer' = buffer \ {f} /\ pc' = pc
        BY <1>2 DEF OutputNext, Emit
    <2> QED
        BY <2>1, EmitShrinks
<1>3. CASE OutputDone
    <2>1. buffer' = buffer /\ pc' = "idle"
        BY <1>3 DEF OutputDone
    <2>2. CASE buffer = {}
        BY <2>1, <2>2, FS_EmptySet, DepthAssumption DEF Held
    <2>3. CASE \E f \in buffer : IsNext(f) /\ ~ ShouldOutput(f, FALSE)
        <3>1. ~ (Cardinality(buffer) >= Depth)
            BY <2>3 DEF ShouldOutput
        <3> QED
            BY <3>1, <2>1, <1>0, DepthAssumption DEF Held
    <2> QED
        BY <2>2, <2>3, <1>3 DEF OutputDone
<1>4. CASE Flush
    BY <1>4 DEF Flush, Held
<1>5. ASSUME NEW f \in buffer, FlushNext(f) PROVE Held'
    <2>1. buffer' = buffer \ {f} /\ pc' = pc
        BY <1>5 DEF FlushNext, Emit
    <2> QED
        BY <2>1, EmitShrinks
<1>6. CASE FlushDone
    BY <1>6 DEF FlushDone, Held
<1>7. CASE UNCHANGED reorderVars
    BY <1>7 DEF reorderVars, Held
<1> QED
    BY <1>1, <1>2, <1>3, <1>4, <1>5, <1>6, <1>7 DEF ReorderNext

\* AddFrame never leaves maxReorderDepth frames or more behind: whatever the
\* types, time stamps and ages, checkOutput lets frames out until fewer wait.
THEOREM DelayBounded == ReorderSpec => []Bounded
<1>1. Held => Bounded
    BY DEF Held, Bounded
<1> QED
    BY HeldInit, HeldNext, <1>1, PTL DEF ReorderSpec

-----------------------------------------------------------------------------
(* The order of the frames. *)

Numbers ==
    /\ time \in Int /\ time >= Start
    /\ refPTS \in Int
    /\ arrived \in Nat
    /\ lastOutputPTS \in Int /\ lastOutputDTS \in Int
    /\ last \in Frames
    /\ buffer \in SUBSET Frames

\* Nothing that arrived is ahead of the encoder.
Arrived ==
    /\ last.n <= arrived /\ lastOutputDTS <= time /\ lastOutputPTS <= refPTS
    /\ \A f \in buffer : f.n <= arrived /\ f.dts <= time
    /\ \A f \in buffer : f.type # "B" => f.pts <= refPTS

\* Frames wait in the order they came, and reference frames in display order.
Sorted ==
    \A f, g \in buffer :
        /\ f.n = g.n => f = g
        /\ f.n < g.n => f.dts < g.dts
        /\ (f.n < g.n /\ f.type # "B" /\ g.type # "B") => f.pts < g.pts

\* Every waiting frame comes after what was emitted.
Ahead ==
    \A f \in buffer :
        /\ last.n < f.n
        /\ lastOutputDTS < f.dts
        /\ f.type # "B" => lastOutputPTS < f.pts

Order == Numbers /\ Arrived /\ Sorted /\ Ahead /\ NothingLost

LEMMA OrderInit == ASSUME PlainTime PROVE ReorderInit => Order
<1> SUFFICES ASSUME ReorderInit PROVE Order
    OBVIOUS
<1>1. NoFrame \in Frames
    BY DEF NoFrame, Frames, Types
<1>2. Numbers
    BY <1>1, TimeAssumption DEF ReorderInit, Numbers
<1>3. Arrived
    BY TimeAssumption DEF ReorderInit, Arrived, NoFrame, PlainTime
<1> QED
    BY <1>2, <1>3 DEF ReorderInit, Order, Sorted, Ahead, NothingLost

\* A frame of a conforming stream is put behind all that wait.
LEMMA OrderAdd ==
    ASSUME PlainTime, Order, NEW type \in Types, NEW step \in Steps,
           NEW delay \in 0 .. MaxPresent, AddFrame(type, step, delay)
    PROVE  Order'
<1> DEFINE t == time + step
           p == t + delay
           new == [n |-> arrived + 1, type |-> type, pts |-> p, dts |-> t]
<1>1. t \in Int /\ p \in Int /\ t > time /\ t > 0 /\ p >= t
    BY TimeAssumption DEF Order, Numbers, PlainTime
<1>2. t <= MaxTime /\ p < PTSWrap /\ t < PTSWrap
    BY <1>1, TimeAssumption, JumpAssumption DEF AddFrame, PlainTime
<1>3. Stamp(t) = t /\ Stamp(p) = p
    BY <1>2 DEF Stamp
<1>4. validateFrame(new) = new
    BY <1>1 DEF validateFrame
<1>5. /\ buffer' = buffer \cup {new}
      /\ time' = t /\ arrived' = arrived + 1
      /\ refPTS' = (IF type = "B" THEN refPTS ELSE p)
      /\ type # "B" => p > refPTS
      /\ UNCHANGED <<lastOutputPTS, lastOutputDTS, last, dropped>>
    BY <1>3, <1>4 DEF AddFrame, Conforms
<1>6. new \in Frames
    BY <1>1 DEF Frames, Order, Numbers
<1>7. new.n = arrived + 1 /\ new.type = type /\ new.pts = p /\ new.dts = t
    OBVIOUS
<1> HIDE DEF new, t, p
<1>8. Numbers'
    BY <1>1, <1>5, <1>6, TimeAssumption DEF Order, Numbers
<1>9. Arrived'
    BY <1>1, <1>5, <1>7 DEF Order, Numbers, Arrived, Frames
<1>10. Sorted'
    BY <1>1, <1>5, <1>7 DEF Order, Numbers, Arrived, Sorted, Frames
<1>11. Ahead'
    BY <1>1, <1>5, <1>7 DEF Order, Numbers, Arrived, Ahead, Frames
<1> QED
    BY <1>5, <1>8, <1>9, <1>10, <1>11 DEF Order, NothingLost

\* The frame with the lowest DTS is valid, and leaves only later ones behind.
LEMMA OrderEmit ==
    ASSUME Order, NEW f \in buffer, IsNext(f), Emit(f),
           UNCHANGED <<time, refPTS, arrived>>
    PROVE  Order'
<1>1. f \in Frames /\ f.n \in Nat /\ f.dts \in Int /\ f.pts \in Int
    BY DEF Order, Numbers, Frames
<1>2. isValidOutput(f) = "ok"
    <2>1. lastOutputDTS < f.dts /\ (f.type # "B" => lastOutputPTS < f.pts)
        BY DEF Order, Ahead
    <2> QED
        BY <2>1, <1>1 DEF isValidOutput, Order, Numbers
<1>3. /\ buffer' = buffer \ {f}
      /\ lastOutputDTS' = f.dts
      /\ lastOutputPTS' = (IF f.type # "B" THEN f.pts ELSE lastOutputPTS)
      /\ last' = f
      /\ dropped' = dropped
    BY <1>2 DEF Emit, updateOutputState
<1>4. ASSUME NEW g \in buffer' PROVE g \in buffer /\ g \in Frames /\ f.n < g.n
    <2>1. g \in buffer /\ g # f /\ g \in Frames /\ g.n \in Nat /\ g.dts \in Int
        BY <1>3 DEF Order, Numbers, Frames
    <2>2. f.dts <= g.dts
        BY <2>1 DEF IsNext
    <2>3. ~ (g.n < f.n) /\ g.n # f.n
        BY <2>1, <2>2, <1>1 DEF Order, Sorted
    <2> QED
        BY <2>1, <2>3, <1>1
<1>5. Numbers'
    BY <1>1, <1>3 DEF Order, Numbers
<1>6. Arrived'
    BY <1>1, <1>3 DEF Order, Numbers, Arrived
<1>7. Sorted'
    BY <1>3 DEF Order, Sorted
<1>8. Ahead'
    BY <1>3, <1>4 DEF Order, Sorted, Ahead
<1> QED
    BY <1>3, <1>5, <1>6, <1>7, <1>8 DEF Order, NothingLost

LEMMA OrderNext == ASSUME PlainTime PROVE Order /\ [ReorderNext]_reorderVars => Order'
<1> SUFFICES ASSUME Order, [ReorderNext]_reorderVars PROVE Order'
    OBVIOUS
<1>1. ASSUME NEW type \in Types, NEW step \in Steps, NEW delay \in 0 .. MaxPresent,
             AddFrame(type, step, delay)
      PROVE  Order'
    BY <1>1, OrderAdd
<1>2. ASSUME NEW f \in buffer, NEW aged \in BOOLEAN, OutputNext(f, aged) PROVE Order'
    BY <1>2, OrderEmit DEF OutputNext
<1>3. ASSUME NEW f \in buffer, FlushNext(f) PROVE Order'
    BY <1>3, OrderEmit DEF FlushNext
<1>4. ASSUME UNCHANGED <<time, refPTS, arrived, buffer, lastOutputPTS, lastOutputDTS,
                         last, dropped>>
      PROVE  Order'
    BY <1>4 DEF Order, Numbers, Arrived, Sorted, Ahead, NothingLost
<1>5. CASE OutputDone
    BY <1>5, <1>4 DEF OutputDone
<1>6. CASE Flush
    BY <1>6, <1>4 DEF Flush
<1>7. CASE FlushDone
    BY <1>7, <1>4 DEF FlushDone
<1>8. CASE UNCHANGED reorderVars
    BY <1>8, <1>4 DEF reorderVars
<1> QED
    BY <1>1, <1>2, <1>3, <1>5, <1>6, <1>7, <1>8 DEF ReorderNext

\* No frame of a conforming stream is dropped by isValidOutput, whatever the
\* depth of the reorderer, the ages of the frames and the calls of Flush.
THEOREM ConformingKept == ASSUME PlainTime PROVE ReorderSpec => []NothingLost
<1>1. ReorderInit => Order
    BY OrderInit
<1>2. Order /\ [ReorderNext]_reorderVars => Order'
    BY OrderNext
<1>3. Order => NothingLost
    BY DEF Order
<1> QED
    BY <1>1, <1>2, <1>3, PTL DEF ReorderSpec

\* A conforming stream leaves the reorderer in the order it was decoded.
THEOREM ConformingInOrder == ASSUME PlainTime PROVE ReorderSpec => []DecodeOrder
<1>1. ReorderInit => Order
    BY OrderInit
<1>2. Order /\ [ReorderNext]_reorderVars => Order'
    BY OrderNext
<1>3. Order => DecodeOrder
    BY DEF Order, Ahead, DecodeOrder
<1> QED
    BY <1>1, <1>2, <1>3, PTL DEF ReorderSpec

\* What the reorderer promises a conforming stream, for every depth and every
\* frame rate: bounded delay, no loss, decode order.
THEOREM ConformingReordered == ASSUME PlainTime PROVE ReorderSpec => []ReorderExact
<1>1. Bounded /\ NothingLost /\ DecodeOrder => ReorderExact
    BY DEF ReorderExact
<1> QED
    BY <1>1, DelayBounded, ConformingKept, ConformingInOrder, PTL

-----------------------------------------------------------------------------
(***************************************************************************)
(* Proof that the tracks of the A/V synchronisation and the RTP timestamp  *)
(* mapper follow their sources' media time over every wrap, jump and       *)
(* reordering (ClocksExact), for every time base and field width.          *)
(*                                                                         *)
(* Argument: a track's prev PTS is the media time modulo the field, and    *)
(* the wraps counted since the base make up the difference (Placed).  A    *)
(* step of less than half the field shows as the step itself or as the     *)
(* step and one modulus (ModStep); which of these it is the code tells     *)
(* from the sign and the size, and what looks like neither a wrap nor a    *)
(* step of ten seconds starts a new base (StepSeen).                       *)
(***************************************************************************)

\* A remainder lies below its modulus.
LEMMA ModRange ==
  ASSUME NEW n \in Nat \ {0}, NEW a \in Nat
  PROVE  a % n \in 0..(n - 1) /\ a % n \in Nat
OBVIOUS

\* A multiple of n by two or more, either way, is at least 2n away from zero.
LEMMA TimesUp ==
  ASSUME NEW n \in Nat \ {0}, NEW k \in Int
  PROVE  (k >= 2 => n * k >= 2 * n) /\ (k <= -2 => n * k <= -2 * n)
OBVIOUS

\* A step of less than half the modulus changes the remainder by the step, give
\* or take one modulus: what a truncated PTS or RTP timestamp shows of it.
LEMMA ModStep ==
  ASSUME NEW n \in Nat \ {0}, NEW a \in Nat, NEW d \in Int, a + d \in Nat,
         2 * d < n, -2 * d < n
  PROVE  (a + d) % n \in {(a % n) + d, (a % n) + d - n, (a % n) + d + n}
<1> DEFINE q == a \div n
           p == (a + d) \div n
           r == a % n
           s == (a + d) % n
<1>1. a = n * q + r
  OBVIOUS
<1>2. a + d = n * p + s
  OBVIOUS
<1>3. q \in Nat /\ p \in Nat
  OBVIOUS
<1>4. r \in 0..(n - 1) /\ s \in 0..(n - 1)
  BY ModRange
<1> HIDE DEF q, p, r, s
<1>5. n * (p - q) = r + d - s
  <2>1. n * (p - q) = n * p - n * q
    BY <1>3
  <2> QED  BY <2>1, <1>1, <1>2, <1>3, <1>4
<1>6. p - q \in {-1, 0, 1}
  <2>1. p - q \in Int
    BY <1>3
  <2>2. n * (p - q) < 2 * n /\ n * (p - q) > -2 * n
    BY <1>5, <1>4
  <2> QED  BY <2>1, <2>2, TimesUp
<1>7. s \in {r + d, r + d - n, r + d + n}
  BY <1>3, <1>4, <1>5, <1>6
<1> QED
  BY <1>7 DEF r, s

-----------------------------------------------------------------------------
\* One TrackSyncManager, with the media time it stands for.
TrackType ==
  [started : BOOLEAN, baseTime : Nat, basePTS : Nat, lastPTS : Nat, wraps : Nat,
   media : Nat, baseMedia : Nat]

\* The inductive strengthening of TracksExact: the prev PTS is also the media
\* time in the field's width.
Placed(s) ==
  s.started =>
    /\ s.lastPTS = s.media % WrapAt
    /\ CalculatePTSDelta(s.lastPTS, s.basePTS, s.wraps) = s.media - s.baseMedia

Kept(r) == r \in TrackType /\ Placed(r)

TracksInv ==
  /\ track \in [Tracks -> TrackType]
  /\ \A t \in Tracks : Placed(track[t])
  /\ wall \in Nat

\* What the constants give: both fields are positive and a PTS field spans more
\* than twenty seconds of every track.
LEMMA Period ==
  /\ WrapAt \in Nat \ {0}
  /\ RTPModulus \in Nat \ {0}
  /\ \A t \in Tracks : Den[t] \in Nat /\ 20 * Den[t] < WrapAt
BY SyncAssumption

\* A track that starts over from a sample (first PTS, or a jump) is in place.
LEMMA RebasedPlaced ==
  ASSUME NEW s \in TrackType, NEW pts \in Nat, NEW media \in Nat, NEW now \in Nat,
         NEW started \in BOOLEAN, pts = media % WrapAt
  PROVE  Kept([Rebased(s, pts, media, now) EXCEPT
                 !.started = started, !.lastPTS = pts, !.media = media])
<1> DEFINE r == [s EXCEPT !.baseTime = now, !.basePTS = pts, !.baseMedia = media,
                          !.wraps = 0, !.started = started, !.lastPTS = pts, !.media = media]
<1>1. r \in TrackType /\ r.lastPTS = pts /\ r.basePTS = pts /\ r.wraps = 0
      /\ r.media = media /\ r.baseMedia = media
  BY DEF TrackType
<1>2. pts + 0 * WrapAt - pts = media - media
  BY Period
<1>3. r = [Rebased(s, pts, media, now) EXCEPT
             !.started = started, !.lastPTS = pts, !.media = media]
  BY DEF Rebased, TrackType
<1> HIDE DEF r
<1>4. Kept(r)
  BY <1>1, <1>2 DEF Kept, Placed, CalculatePTSDelta
<1> QED
  BY <1>3, <1>4

\* What ProcessTimestamp takes for a wrap is one, and what it takes for neither a
\* wrap nor a jump is the plain step.
LEMMA StepSeen ==
  ASSUME NEW t \in Tracks, NEW a \in Nat, NEW d \in MediaSteps[t], a + d \in Nat
  PROVE  LET prev == a % WrapAt
             pts  == (a + d) % WrapAt
         IN  /\ pts \in Nat /\ prev \in Nat
             /\ TrackWraps(pts, prev) => pts = prev + d - WrapAt
             /\ ~TrackWraps(pts, prev) /\ ~(Abs(pts - prev) > 10 * Den[t]) => pts = prev + d
<1> DEFINE prev == a % WrapAt
           pts  == (a + d) % WrapAt
<1>1. d \in Int /\ 2 * d < WrapAt /\ -2 * d < WrapAt
  BY SyncAssumption DEF Tracks
<1>2. pts \in {prev + d, prev + d - WrapAt, prev + d + WrapAt}
  BY <1>1, Period, ModStep
<1>3. pts \in Nat /\ prev \in Nat
  BY Period, ModRange
<1>4. Den[t] \in Nat /\ 20 * Den[t] < WrapAt /\ WrapAt \in Nat
  BY Period
<1> HIDE DEF pts, prev
<1>h. /\ WrapAt \div 2 \in Nat
      /\ 2 * (WrapAt \div 2) <= WrapAt /\ WrapAt < 2 * (WrapAt \div 2) + 2
  BY <1>4
<1>i. prev + d \in Int /\ prev - pts \in Int
  BY <1>1, <1>3
<1>5. ASSUME TrackWraps(pts, prev)  PROVE pts = prev + d - WrapAt
  <2>1. 2 * (prev - pts) > WrapAt - 2 /\ prev - pts > WrapAt \div 2 /\ pts < prev
    BY <1>5, <1>3, <1>h, <1>4 DEF TrackWraps
  <2>2. 2 * (prev - pts) >= WrapAt
    BY <2>1, <1>3, <1>4, <1>h
  <2>3. pts # prev + d
    BY <2>2, <1>1, <1>3, <1>4
  <2>4. pts # prev + d + WrapAt
    BY <2>2, <1>1, <1>3, <1>4
  <2> QED  BY <2>3, <2>4, <1>2
<1>6. ASSUME ~TrackWraps(pts, prev), ~(Abs(pts - prev) > 10 * Den[t])
      PROVE  pts = prev + d
  <2>1. pts - prev <= 10 * Den[t] /\ prev - pts <= 10 * Den[t]
    BY <1>6, <1>3, <1>4 DEF Abs
  <2>2. 2 * (pts - prev) < WrapAt /\ 2 * (prev - pts) < WrapAt
    BY <2>1, <1>3, <1>4
  <2>3. pts # prev + d - WrapAt
    BY <2>2, <1>1, <1>3, <1>4
  <2>4. pts # prev + d + WrapAt
    BY <2>2, <1>1, <1>3, <1>4
  <2> QED  BY <2>3, <2>4, <1>2
<1> QED
  BY <1>3, <1>5, <1>6 DEF pts, prev

\* A sample leaves its track in place, whichever branch of ProcessTimestamp runs.
LEMMA ProcessKeeps ==
  ASSUME NEW t \in Tracks, NEW s \in TrackType, Placed(s), NEW d \in MediaSteps[t],
         NEW media \in Nat, media = s.media + d, NEW now \in Nat
  PROVE  Kept(ProcessTimestamp(s, t, media, now))
<1> DEFINE pts == media % WrapAt
           r   == ProcessTimestamp(s, t, media, now)
<1>d. s.media \in Nat /\ s.lastPTS \in Nat /\ s.basePTS \in Nat
      /\ s.baseMedia \in Nat /\ s.wraps \in Nat /\ s.wraps + 1 \in Nat
  BY DEF TrackType
<1>e. d \in Int /\ WrapAt \in Nat \ {0} /\ WrapAt \in Nat
  BY SyncAssumption DEF Tracks
<1>f. s.wraps * WrapAt \in Nat
  BY <1>d, <1>e
<1>w. PICK w \in Nat : w = s.wraps * WrapAt
  BY <1>f
<1>g. pts \in Nat
  BY <1>e, ModRange
<1>0. pts \in Nat /\ s.media \in Nat /\ s.lastPTS \in Nat /\ s.basePTS \in Nat
      /\ s.baseMedia \in Nat /\ s.wraps \in Nat /\ d \in Int
      /\ s.wraps * WrapAt \in Nat /\ WrapAt \in Nat
  BY <1>d, <1>e, <1>f, <1>g
<1>a. pts = media % WrapAt
  OBVIOUS
<1>b. s.started => s.lastPTS = s.media % WrapAt
                   /\ s.lastPTS + s.wraps * WrapAt - s.basePTS = s.media - s.baseMedia
  BY DEF Placed, CalculatePTSDelta
<1>m. s.started => s.lastPTS + w - s.basePTS = s.media - s.baseMedia
  BY <1>b, <1>w
<1>c. s.started => /\ TrackWraps(pts, s.lastPTS) => pts = s.lastPTS + d - WrapAt
                   /\ ~TrackWraps(pts, s.lastPTS) /\ ~(Abs(pts - s.lastPTS) > 10 * Den[t])
                        => pts = s.lastPTS + d
  BY <1>0, <1>b, StepSeen
<1>1. CASE ~s.started
  <2>1. r = [Rebased(s, pts, media, now) EXCEPT
               !.started = TRUE, !.lastPTS = pts, !.media = media]
    BY <1>1 DEF ProcessTimestamp, Rebased, TrackType
  <2> HIDE DEF pts, r
  <2>2. Kept(r)
    BY <2>1, <1>0, <1>a, RebasedPlaced
  <2> QED  BY <2>2 DEF r
<1>2. CASE s.started /\ TrackWraps(pts, s.lastPTS)
  <2>1. r = [s EXCEPT !.wraps = @ + 1, !.lastPTS = pts, !.media = media]
    BY <1>2 DEF ProcessTimestamp, TrackType
  <2> HIDE DEF pts, r
  <2>2. pts = s.lastPTS + d - WrapAt
    BY <1>2, <1>c
  <2>3. (s.wraps + 1) * WrapAt = s.wraps * WrapAt + WrapAt
    BY <1>0
  <2>5. pts + (s.wraps + 1) * WrapAt - s.basePTS = media - s.baseMedia
    <3>1. s.lastPTS + w - s.basePTS = s.media - s.baseMedia
      BY <1>2, <1>m
    <3>2. pts + (w + WrapAt) - s.basePTS = media - s.baseMedia
      BY <3>1, <2>2, <1>d, <1>e
    <3> QED  BY <3>2, <2>3, <1>w
  <2>6. r \in TrackType /\ r.lastPTS = pts /\ r.wraps = s.wraps + 1 /\ r.basePTS = s.basePTS
        /\ r.media = media /\ r.baseMedia = s.baseMedia
    BY <1>d, <1>g, <2>1 DEF TrackType
  <2>7. Kept(r)
    BY <1>a, <2>5, <2>6 DEF Kept, Placed, CalculatePTSDelta
  <2> QED  BY <2>7 DEF r
<1>3. CASE s.started /\ ~TrackWraps(pts, s.lastPTS) /\ Abs(pts - s.lastPTS) > 10 * Den[t]
  <2>1. r = [Rebased(s, pts, media, now) EXCEPT
               !.started = TRUE, !.lastPTS = pts, !.media = media]
    BY <1>3 DEF ProcessTimestamp, Rebased, TrackType
  <2> HIDE DEF pts, r
  <2>2. Kept(r)
    BY <2>1, <1>0, <1>a, RebasedPlaced
  <2> QED  BY <2>2 DEF r
<1>4. CASE s.started /\ ~TrackWraps(pts, s.lastPTS) /\ ~(Abs(pts - s.lastPTS) > 10 * Den[t])
  <2>1. r = [s EXCEPT !.lastPTS = pts, !.media = media]
    BY <1>4 DEF ProcessTimestamp, TrackType
  <2> HIDE DEF pts, r
  <2>2. pts = s.lastPTS + d
    BY <1>4, <1>c
  <2>4. pts + s.wraps * WrapAt - s.basePTS = media - s.baseMedia
    <3>1. s.lastPTS + w - s.basePTS = s.media - s.baseMedia
      BY <1>4, <1>m
    <3>2. pts + w - s.basePTS = media - s.baseMedia
      BY <3>1, <2>2, <1>d, <1>e
    <3> QED  BY <3>2, <1>w
  <2>6. r \in TrackType /\ r.lastPTS = pts /\ r.wraps = s.wraps /\ r.basePTS = s.basePTS
        /\ r.media = media /\ r.baseMedia = s.baseMedia
    BY <1>0, <2>1 DEF TrackType
  <2>7. Kept(r)
    BY <1>a, <2>4, <2>6 DEF Kept, Placed, CalculatePTSDelta
  <2> QED  BY <2>7 DEF r
<1> QED
  BY <1>1, <1>2, <1>3, <1>4

-----------------------------------------------------------------------------
\* The tracks keep their place over any step of the synchronisation: a frame
\* of either track, in or out of order, and the manager's Reset.
LEMMA TracksStep ==
  ASSUME TracksInv, [SyncNext]_syncVars
  PROVE  TracksInv'
<1>1. ASSUME NEW t \in Tracks, NEW gap \in Gaps, NEW step \in MediaSteps[t],
             ProcessFrame(t, step, gap)
      PROVE  TracksInv'
  <2> DEFINE media == track[t].media + step
             now   == wall + gap
             r     == ProcessTimestamp(track[t], t, media, now)
  <2>1. track[t] \in TrackType /\ Placed(track[t]) /\ now \in Nat /\ wall' = now
    BY <1>1, SyncAssumption DEF TracksInv, ProcessFrame
  <2>2. media \in Nat
    <3>1. track[t].media \in Nat /\ step \in Int
      BY <2>1, SyncAssumption DEF TrackType, Tracks
    <3> QED  BY <3>1, <1>1 DEF ProcessFrame
  <2>3. track' = [track EXCEPT ![t] = r]
    BY <1>1 DEF ProcessFrame
  <2>4. Kept(r)
    BY <2>1, <2>2, ProcessKeeps
  <2> HIDE DEF r, media, now
  <2> QED  BY <2>1, <2>3, <2>4 DEF TracksInv, Kept
<1>2. ASSUME SyncReset  PROVE TracksInv'
  <2>1. wall' \in Nat
    BY <1>2 DEF SyncReset, TracksInv
  <2>2. ASSUME NEW t \in Tracks
        PROVE  [NewTrackSyncManager EXCEPT !.media = track[t].media] \in TrackType
               /\ ~[NewTrackSyncManager EXCEPT !.media = track[t].media].started
    BY <2>2 DEF TracksInv, TrackType, NewTrackSyncManager
  <2>3. track' = [t \in Tracks |-> [NewTrackSyncManager EXCEPT !.media = track[t].media]]
    BY <1>2 DEF SyncReset
  <2> QED  BY <2>1, <2>2, <2>3 DEF TracksInv, Placed
<1>3. ASSUME UNCHANGED syncVars  PROVE TracksInv'
  BY <1>3 DEF syncVars, TracksInv, Placed
<1> QED
  BY <1>1, <1>2, <1>3 DEF SyncNext

-----------------------------------------------------------------------------
\* The mapper: its prev timestamp is the media time in 32 bits, and the wraps
\* it counted put that timestamp where the media time stands.
MapperInv ==
  /\ mapper \in [started : BOOLEAN, baseRTP : Nat, lastRTP : Nat, wraps : Nat]
  /\ mapped \in [media : Nat, base : Nat, pts : Int]
  /\ mapper.started =>
       /\ mapper.lastRTP = mapped.media % RTPModulus
       /\ mapper.wraps * RTPModulus + mapper.lastRTP - mapper.baseRTP
            = mapped.media - mapped.base
       /\ mapped.pts = mapped.media - mapped.base

\* Timestamps that rise by less than half the field: detectWraparound answers
\* exactly when the timestamp wrapped.
LEMMA RTPStepSeen ==
  ASSUME NEW a \in Nat, NEW d \in Int, 0 <= d, 2 * d < RTPModulus
  PROVE  LET prev == a % RTPModulus
             ts   == (a + d) % RTPModulus
         IN  /\ MapperWraps(prev, ts) => ts = prev + d - RTPModulus
             /\ ~MapperWraps(prev, ts) => ts = prev + d
<1> DEFINE prev == a % RTPModulus
           ts   == (a + d) % RTPModulus
<1>1. RTPModulus \in Nat \ {0} /\ a + d \in Nat /\ -2 * d < RTPModulus
  BY Period
<1>2. ts \in {prev + d, prev + d - RTPModulus, prev + d + RTPModulus}
  BY <1>1, ModStep
<1>3. ts < RTPModulus /\ prev < RTPModulus /\ ts \in Nat /\ prev \in Nat
  BY <1>1, ModRange
<1> HIDE DEF ts, prev
<1>h. /\ RTPModulus \div 2 \in Nat
      /\ 2 * (RTPModulus \div 2) <= RTPModulus /\ RTPModulus < 2 * (RTPModulus \div 2) + 2
  BY <1>1
<1>4. ts # prev + d + RTPModulus
  BY <1>1, <1>3
<1>5. ASSUME MapperWraps(prev, ts)  PROVE ts = prev + d - RTPModulus
  <2>1. ts # prev + d
    BY <1>5, <1>1, <1>3 DEF MapperWraps
  <2> QED  BY <2>1, <1>2, <1>4
<1>6. ASSUME ~MapperWraps(prev, ts)  PROVE ts = prev + d
  <2>1. ASSUME ts = prev + d - RTPModulus  PROVE FALSE
    <3>1. prev - ts = RTPModulus - d
      BY <2>1, <1>1, <1>3
    <3>2. prev - ts > RTPModulus \div 2 /\ ts < prev
      BY <3>1, <1>h, <1>1, <1>3
    <3> QED  BY <3>2, <1>6 DEF MapperWraps
  <2> QED  BY <2>1, <1>2, <1>4
<1> QED
  BY <1>5, <1>6 DEF ts, prev

\* The mapper keeps its place over ToPTS and Reset.
LEMMA MapperStep ==
  ASSUME MapperInv, [MapperNext]_mapperVars,
         \A d \in RTPSteps : 0 <= d /\ 2 * d < RTPModulus
  PROVE  MapperInv'
<1>1. ASSUME NEW step \in RTPSteps, ToPTS(step)  PROVE MapperInv'
  <2> DEFINE media == mapped.media + step
             ts    == media % RTPModulus
             wraps == mapper.wraps + (IF MapperWraps(mapper.lastRTP, ts) THEN 1 ELSE 0)
  <2>1. /\ step \in Int /\ 0 <= step /\ 2 * step < RTPModulus
        /\ RTPModulus \in Nat /\ RTPModulus \in Nat \ {0}
    BY SyncAssumption
  <2>2. /\ mapped.media \in Nat /\ mapped.base \in Nat /\ mapper.lastRTP \in Nat
        /\ mapper.wraps \in Nat /\ mapper.baseRTP \in Nat
    BY DEF MapperInv
  <2>3. media \in Nat
    BY <2>1, <2>2
  <2>4. ts \in Nat /\ ts = media % RTPModulus
    BY <2>1, <2>3, ModRange
  <2>5. CASE ~mapper.started
    <3>1. /\ mapper' = [started |-> TRUE, baseRTP |-> ts, lastRTP |-> ts, wraps |-> 0]
          /\ mapped' = [media |-> media, base |-> media, pts |-> 0]
      BY <1>1, <2>5 DEF ToPTS
    <3> HIDE DEF ts, media
    <3>2. 0 * RTPModulus + ts - ts = media - media /\ 0 = media - media
      BY <2>1, <2>3, <2>4
    <3> QED  BY <3>1, <3>2, <2>3, <2>4 DEF MapperInv
  <2>6. CASE mapper.started
    <3>1. /\ mapper' = [mapper EXCEPT !.lastRTP = ts, !.wraps = wraps]
          /\ mapped' = [mapped EXCEPT !.media = media,
                          !.pts = wraps * RTPModulus + ts - mapper.baseRTP]
      BY <1>1, <2>6 DEF ToPTS
    <3>2. /\ MapperWraps(mapper.lastRTP, ts) => ts = mapper.lastRTP + step - RTPModulus
          /\ ~MapperWraps(mapper.lastRTP, ts) => ts = mapper.lastRTP + step
      <4>1. mapper.lastRTP = mapped.media % RTPModulus
        BY <2>6 DEF MapperInv
      <4> QED  BY <4>1, <2>1, <2>2, RTPStepSeen
    <3>3. mapper.wraps * RTPModulus \in Nat
      BY <2>1, <2>2
    <3>4. PICK w \in Nat : w = mapper.wraps * RTPModulus
      BY <3>3
    <3>5. w + mapper.lastRTP - mapper.baseRTP = mapped.media - mapped.base
      BY <2>6, <3>4 DEF MapperInv
    <3>6. (mapper.wraps + 1) * RTPModulus = w + RTPModulus
      BY <2>1, <2>2, <3>4
    <3> HIDE DEF ts
    <3>7. wraps \in Nat /\ wraps * RTPModulus + ts - mapper.baseRTP = media - mapped.base
      <4>1. CASE MapperWraps(mapper.lastRTP, ts)
        <5>1. wraps = mapper.wraps + 1
          BY <4>1
        <5>2. (w + RTPModulus) + ts - mapper.baseRTP = media - mapped.base
          BY <4>1, <3>2, <3>5, <2>1, <2>2
        <5> QED  BY <5>1, <5>2, <3>6, <2>2
      <4>2. CASE ~MapperWraps(mapper.lastRTP, ts)
        <5>1. wraps = mapper.wraps
          BY <4>2, <2>2
        <5>2. w + ts - mapper.baseRTP = media - mapped.base
          BY <4>2, <3>2, <3>5, <2>1, <2>2
        <5> QED  BY <5>1, <5>2, <3>4, <2>2
      <4> QED  BY <4>1, <4>2
    <3>8. /\ mapper'.lastRTP = ts /\ mapper'.wraps = wraps /\ mapper'.baseRTP = mapper.baseRTP
          /\ mapped'.media = media /\ mapped'.base = mapped.base
          /\ mapped'.pts = wraps * RTPModulus + ts - mapper.baseRTP
      BY <3>1 DEF MapperInv
    <3> HIDE DEF wraps, media
    <3>9. media - mapped.base \in Int
      BY <2>2, <2>3
    <3>10. mapper' \in [started : BOOLEAN, baseRTP : Nat, lastRTP : Nat, wraps : Nat]
      BY <3>1, <3>7, <2>4 DEF MapperInv
    <3>11. mapped' \in [media : Nat, base : Nat, pts : Int]
      BY <3>1, <3>7, <3>9, <2>3 DEF MapperInv
    <3> QED  BY <3>7, <3>8, <3>10, <3>11, <2>4 DEF MapperInv
  <2> QED  BY <2>5, <2>6
<1>2. ASSUME MapperReset  PROVE MapperInv'
  <2>1. mapper' \in [started : BOOLEAN, baseRTP : Nat, lastRTP : Nat, wraps : Nat]
        /\ ~mapper'.started
    BY <1>2 DEF MapperReset, NewTimestampMapper
  <2>2. mapped' \in [media : Nat, base : Nat, pts : Int]
    <3>1. mapped.media \in Nat /\ 0 \in Int /\ mapped \in [media : Nat, base : Nat, pts : Int]
      BY DEF MapperInv
    <3>2. mapped' = [mapped EXCEPT !.base = mapped.media, !.pts = 0]
      BY <1>2 DEF MapperReset
    <3> QED  BY <3>1, <3>2
  <2> QED  BY <2>1, <2>2 DEF MapperInv
<1>3. ASSUME UNCHANGED mapperVars  PROVE MapperInv'
  BY <1>3 DEF mapperVars, MapperInv
<1> QED
  BY <1>1, <1>2, <1>3 DEF MapperNext

-----------------------------------------------------------------------------
\* For every time base, PTS field, pair of sources and pattern of wraps, jumps
\* and B-frames, each track places its prev frame where the media time of the
\* source stands, and the mapper does so for RTP timestamps that rise by less
\* than half their field (ProcessTimestamp, ToPTS).
THEOREM ClocksStayExact ==
  ASSUME \A d \in RTPSteps : 0 <= d /\ 2 * d < RTPModulus
  PROVE  ClockSpec => []ClocksExact
<1> DEFINE Inv == TracksInv /\ MapperInv
<1>1. SyncInit /\ MapperInit => Inv
  <2> SUFFICES ASSUME SyncInit, MapperInit  PROVE Inv
    OBVIOUS
  <2>1. NewTrackSyncManager \in TrackType /\ ~NewTrackSyncManager.started
    BY DEF NewTrackSyncManager, TrackType
  <2>2. TracksInv
    BY <2>1 DEF SyncInit, TracksInv, Placed
  <2>3. MapperInv
    BY DEF MapperInit, NewTimestampMapper, MapperInv
  <2> QED  BY <2>2, <2>3
<1>2. Inv /\ [ClockNext]_<<syncVars, mapperVars>> => Inv'
  <2> SUFFICES ASSUME Inv, [ClockNext]_<<syncVars, mapperVars>>  PROVE Inv'
    OBVIOUS
  <2>1. [SyncNext]_syncVars /\ [MapperNext]_mapperVars
    BY DEF ClockNext
  <2> QED  BY <2>1, TracksStep, MapperStep
<1>3. Inv => ClocksExact
  BY DEF TracksInv, MapperInv, Placed, ClocksExact, TracksExact, MapperExact
<1> QED
  BY <1>1, <1>2, <1>3, PTL DEF ClockSpec
=============================================================================
