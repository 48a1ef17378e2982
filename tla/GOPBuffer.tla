----------------------------- MODULE GOPBuffer -----------------------------
(***************************************************************************)
(* The GOP buffer of internal/ingestion/gop/buffer.go: a list of closed    *)
(* groups of pictures, an index from frame ID to the frame's place, a byte *)
(* count, and the tiered dropping of frames under pressure.                *)
(*                                                                         *)
(* Every public method runs under Buffer.mu, so the buffer is a record and *)
(* each method an operator from record to record.  FrameGate.tla calls     *)
(* them in the order the stream handler does.                              *)
(*                                                                         *)
(* A frame is [id, type, size]; the types are "I" (any keyframe), "P", "B" *)
(* and "M" (SPS, PPS and SEI frames).  Parameter-set extraction, the drop  *)
(* callback that saves the sets and the drop statistics are left out.      *)
(***************************************************************************)
EXTENDS Integers, Lanes, Sequences, FiniteSetsExt

CONSTANTS MaxGOPs,      \* BufferConfig.MaxGOPs
          MaxBytes,     \* BufferConfig.MaxBytes
          MaxDuration   \* BufferConfig.MaxDuration, 0 for none

ASSUME LimitsAssumption ==
  MaxGOPs \in Nat \ {0} /\ MaxBytes \in Nat /\ MaxDuration \in Nat

----------------------------------------------------------------------------
(* Frames and groups of pictures *)

IsKeyframe(f) == f.type = "I"
IsP(f) == f.type = "P"
IsB(f) == f.type = "B"
NotB(f) == f.type # "B"

Ids(frames) == {frames[i].id : i \in DOMAIN frames}

Where(frames, Is(_)) == Lane(frames, {f \in Members(frames) : Is(f)})

Bytes(frames) == SumOf([i \in DOMAIN frames |-> frames[i].size])

\* What was taken out of `frames` to leave `kept`.
Gone(frames, kept) == Lane(frames, {f \in Members(frames) : f.id \notin Ids(kept)})

\* GOP.CanDropFrame for a P frame followed by `later`: the first frame of a
\* picture type decides, and only a B frame forbids the drop.
NoBDepends(later) ==
  LET pics == {i \in DOMAIN later : later[i].type \in {"I", "P", "B"}}
  IN  pics = {} \/ ~IsB(later[Min(pics)])

CanDropFrame(f, later) ==
  /\ ~IsKeyframe(f)
  /\ IsB(f) \/ (IsP(f) /\ NoBDepends(later))

----------------------------------------------------------------------------
(* The buffer *)

EmptyBuffer ==
  [gops |-> <<>>, index |-> <<>>, bytes |-> 0, newest |-> 0]

Forget(index, ids) == [id \in DOMAIN index \ ids |-> index[id]]

\* Mutant of Locate: positions are not updated when frames are removed before them.
LocateKeepsOldPositions(index, g, frames) ==
  [id \in DOMAIN index \cup Ids(frames) |->
     IF id \in DOMAIN index THEN index[id]
     ELSE [gop |-> g,
           pos |-> CHOOSE i \in DOMAIN frames : frames[i].id = id]]

\* frameIndex after the frames of GOP g have become `frames`.
Locate(index, g, frames) ==
  [id \in DOMAIN index \cup Ids(frames) |->
     IF id \in Ids(frames)
     THEN [gop |-> g,
           pos |-> CHOOSE i \in DOMAIN frames : frames[i].id = id]
     ELSE index[id]]

removeOldestGOP(b) ==
  LET g == Head(b.gops)
  IN  [b EXCEPT !.gops = Tail(@),
                !.index = Forget(@, Ids(g.frames)),
                !.bytes = @ - g.totalSize]

\* `for Cond(b) { b.removeOldestGOP() }`
RemoveOldest(b, k) ==
  LET r[n \in 0..k] == IF n = 0 THEN b ELSE removeOldestGOP(r[n - 1])
  IN  r[k]
RemoveWhile(b, Cond(_)) ==
  RemoveOldest(b, Min({k \in 0..Len(b.gops) : ~Cond(RemoveOldest(b, k))}))

OverCount(b) == Len(b.gops) > MaxGOPs
OverBytes(b) == b.bytes > MaxBytes /\ Len(b.gops) > 1
TooOld(b) == b.gops # <<>> /\ Head(b.gops).start <= b.newest - MaxDuration

enforceBufferLimits(b) ==
  LET c == RemoveWhile(RemoveWhile(b, OverCount), OverBytes)
  IN  IF MaxDuration > 0 /\ Len(c.gops) > 1 THEN RemoveWhile(c, TooOld) ELSE c

AddGOP(b, g) ==
  enforceBufferLimits(
    [b EXCEPT !.gops = Append(@, g),
              !.index = Locate(@, g.id, g.frames),
              !.bytes = @ + g.totalSize,
              !.newest = IF g.start > @ THEN g.start ELSE @])

----------------------------------------------------------------------------
(* Dropping under pressure *)

\* GOP number i becomes g: each removed frame is taken off the index and the
\* buffer's byte count.
Reduce(b, i, g) ==
  LET gone == Gone(b.gops[i].frames, g.frames)
  IN  [b EXCEPT !.gops[i] = g,
                !.index = Locate(Forget(@, Ids(gone)), g.id, g.frames),
                !.bytes = @ - Bytes(gone)]

\* GOP g with only `kept` left, each removed frame taken off the type count.
Without(g, kept, size) ==
  LET gone == Gone(g.frames, kept)
  IN  [g EXCEPT !.frames = kept, !.totalSize = size,
                !.pCount = @ - Len(Where(gone, IsP)),
                !.bCount = @ - Len(Where(gone, IsB))]

\* ... and off the GOP's size
Prune(b, i, kept) ==
  LET g == b.gops[i]
  IN  Reduce(b, i, Without(g, kept, g.totalSize - Bytes(Gone(g.frames, kept))))

PruneB(b, i) == Prune(b, i, Where(b.gops[i].frames, NotB))

dropBFrames(b, count) ==
  LET n == Min({count, Len(b.gops)})
      done[i \in 0..n] == IF i = 0 THEN b ELSE PruneB(done[i - 1], i)
  IN  done[n]

\* From the last frame to the first, as the loop of dropPFrames runs.
KeepUnlessP(f, later) ==
  IF IsP(f) /\ CanDropFrame(f, later) THEN later ELSE <<f>> \o later

\* what the loop leaves
LeftOf(frames) ==
  LET n == Len(frames)
      last[i \in 0..n] == IF i = 0 THEN <<>> ELSE KeepUnlessP(frames[n + 1 - i], last[i - 1])
  IN  last[n]

dropPFrames(b) == IF b.gops = <<>> THEN b ELSE Prune(b, 1, LeftOf(b.gops[1].frames))

\* Only the keyframes stay.  The GOP's size becomes the first keyframe's.
KeepKeyframes(b, i) ==
  LET g == b.gops[i]
      kept == Where(g.frames, IsKeyframe)
  IN  Reduce(b, i, [g EXCEPT !.frames = kept,
                             !.totalSize = IF kept = <<>> THEN 0 ELSE kept[1].size,
                             !.pCount = 0, !.bCount = 0])

dropOldGOPs(b, includeKeyframes) ==
  IF Len(b.gops) <= 1 THEN b
  ELSE IF includeKeyframes THEN removeOldestGOP(b) ELSE KeepKeyframes(b, 1)

dropAllNonKeyframes(b) ==
  LET done[i \in 0..Len(b.gops)] == IF i = 0 THEN b ELSE KeepKeyframes(done[i - 1], i)
  IN  done[Len(b.gops)]

\* Pressure in hundredths.
DropFramesForPressure(b, pressure) ==
  IF pressure < 50 THEN b
  ELSE IF pressure < 70 THEN dropBFrames(b, 2)
  ELSE IF pressure < 85 THEN dropPFrames(dropBFrames(b, Len(b.gops)))
  ELSE IF pressure < 95 THEN dropOldGOPs(b, FALSE)
  ELSE IF Len(b.gops) > 1 THEN dropOldGOPs(b, TRUE)
  ELSE dropAllNonKeyframes(b)

\* The tail of a GOP from (zero-based) startIndex, called by the recovery
\* handler for a corrupted frame and everything that depends on it.
DropFramesFromGOP(b, i, startIndex) ==
  LET g == b.gops[i]
      kept == SubSeq(g.frames, 1, startIndex)
  IN  Reduce(b, i, Without(g, kept, Bytes(kept)))
============================================================================
