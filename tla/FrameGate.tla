----------------------------- MODULE FrameGate -----------------------------
(***************************************************************************)
(* The frame path of a stream handler after the video pipeline: the GOP    *)
(* detector (gop/detector.go), the GOP buffer (GOPBuffer.tla) and the      *)
(* decision whether a frame goes to the frame queue or is shed             *)
(* (stream_handler.go, processFrames and shouldDropFrame).                 *)
(*                                                                         *)
(* processFrames handles one frame at a time.  dropOldestGOP runs in the   *)
(* backpressure monitor and in an HTTP handler, and the recovery handler   *)
(* cuts corrupted frames out of buffered GOPs; they share the buffer's     *)
(* mutex with processFrames, so each is one step.                          *)
(***************************************************************************)
EXTENDS GOPBuffer

CONSTANTS Types,       \* the frame types that arrive
          Size,        \* bytes of a frame of each type
          Pressures,   \* values of frameQueue.GetPressure(), in hundredths
          MaxFrames,   \* bound: frames of one run
          MaxGap,      \* bound: time between a keyframe and the one before
          Corruption,  \* may the recovery handler cut a GOP short
          Monitored    \* may dropOldestGOP run

ASSUME GateAssumption ==
  /\ Types \subseteq {"I", "P", "B", "M"} /\ Size \in [Types -> Nat]
  /\ Pressures \subseteq 0..100 /\ MaxFrames \in Nat /\ MaxGap \in Nat

VARIABLES current,    \* Detector.currentGOP
          buf,        \* the GOP buffer
          nextId,     \* the ID of the next frame
          now,        \* capture time of the latest keyframe
          origin,     \* history: the frames of each closed GOP, by GOP ID
          shedAt,     \* history: the lowest pressure at which a P frame of the
                      \* current GOP was shed, 100 if none was
          orphaned,   \* history: a frame that needs it was queued at no lower
                      \* pressure
          recounted   \* history: a drop has rewritten the size of a GOP

history == <<shedAt, orphaned>>
gateVars == <<current, buf, nextId, now, origin, history, recounted>>

NoGOP == [id |-> 0, frames |-> <<>>, totalSize |-> 0, pCount |-> 0,
          bCount |-> 0, start |-> 0]

GateInit ==
  /\ current = NoGOP
  /\ buf = EmptyBuffer
  /\ nextId = 1
  /\ now = 0
  /\ origin = <<>>
  /\ shedAt = 100
  /\ orphaned = FALSE
  /\ recounted = FALSE

----------------------------------------------------------------------------
(* Detector.ProcessFrame *)

Count(f, t) == IF f.type = t THEN 1 ELSE 0

\* A keyframe opens a GOP whose size and counts start at zero; any other
\* frame joins the current GOP, if there is one.
StartGOP(f, time) ==
  [NoGOP EXCEPT !.id = current.id + 1, !.frames = <<f>>, !.start = time]

JoinGOP(f) ==
  IF current = NoGOP THEN NoGOP
  ELSE [current EXCEPT !.frames = Append(@, f),
                       !.totalSize = @ + f.size,
                       !.pCount = @ + Count(f, "P"),
                       !.bCount = @ + Count(f, "B")]

----------------------------------------------------------------------------
(* shouldDropFrame *)

\* The frame is the last of the current GOP g, so CanDropFrame sees nothing
\* behind it.
ShedByGOP(f, g) ==
  g # NoGOP /\ Len(g.frames) > 1 /\ CanDropFrame(f, <<>>)

ShedByType(f, pressure) ==
  pressure > CASE f.type = "B" -> 60
               [] f.type = "P" -> 80
               [] f.type = "I" -> 95
               [] OTHER -> 70

\* Mutant of shouldDropFrame: the thresholds of B and P frames are exchanged.
shouldDropFrameSwapped(f, g, pressure) ==
  /\ ~(IsKeyframe(f) /\ pressure < 95)
  /\ IF ShedByGOP(f, g) THEN pressure > (IF IsB(f) THEN 70 ELSE 50)
     ELSE ShedByType(f, pressure)

shouldDropFrame(f, g, pressure) ==
  /\ ~(IsKeyframe(f) /\ pressure < 95)
  /\ IF ShedByGOP(f, g) THEN pressure > (IF IsB(f) THEN 50 ELSE 70)
     ELSE ShedByType(f, pressure)

\* A keyframe below extreme pressure leaves before the GOP buffer is asked.
GOPBufferDrops(b, f, pressure) ==
  IF (IsKeyframe(f) /\ pressure < 95) \/ pressure <= 50 THEN b
  ELSE DropFramesForPressure(b, pressure)

----------------------------------------------------------------------------
(* Steps *)

Queue(f, g, pressure) ==
  LET drop == shouldDropFrame(f, g, pressure)
      before == IF IsKeyframe(f) THEN 100 ELSE shedAt
  IN  /\ shedAt' = IF drop /\ IsP(f) /\ g # NoGOP THEN Min({before, pressure}) ELSE before
      /\ orphaned' = (orphaned \/ (~drop /\ f.type \in {"P", "B"} /\ before <= pressure))

\* processFrames on a keyframe: the GOP that was open is closed and
\* buffered, then the queue's pressure is read.
ProcessKeyframe(pressure, gap) ==
  LET f == [id |-> nextId, type |-> "I", size |-> Size["I"]]
      added == IF current = NoGOP THEN buf ELSE AddGOP(buf, current)
  IN  /\ "I" \in Types
      /\ now' = now + gap
      /\ current' = StartGOP(f, now')
      /\ origin' = IF current = NoGOP THEN origin
                   ELSE Append(origin, current.frames)
      /\ buf' = GOPBufferDrops(added, f, pressure)
      /\ Queue(f, current', pressure)

ProcessFrame(t, pressure) ==
  LET f == [id |-> nextId, type |-> t, size |-> Size[t]]
  IN  /\ current' = JoinGOP(f)
      /\ buf' = GOPBufferDrops(buf, f, pressure)
      /\ Queue(f, current', pressure)
      /\ UNCHANGED <<now, origin>>

HandleFrame ==
  /\ nextId <= MaxFrames
  /\ nextId' = nextId + 1
  /\ \E p \in Pressures :
       \/ \E gap \in 0..MaxGap : ProcessKeyframe(p, gap)
       \/ \E t \in Types \ {"I"} : ProcessFrame(t, p)

\* A frame in which detectFrameCorruption finds damage is dropped before the
\* detector sees it.
SkipCorrupted ==
  /\ Corruption
  /\ nextId <= MaxFrames
  /\ nextId' = nextId + 1
  /\ UNCHANGED <<current, buf, now, origin, history>>

\* dropOldestGOP: extreme pressure, whatever the pressure is now.
DropOldestGOP ==
  /\ Monitored
  /\ buf.gops # <<>>
  /\ buf' = DropFramesForPressure(buf, 99)
  /\ UNCHANGED <<current, nextId, now, origin, history>>

\* The recovery handler's dropCorruptedFrames on one GOP.
DropCorruptedFrames ==
  /\ Corruption
  /\ \E i \in DOMAIN buf.gops :
       \E k \in 0..(Len(buf.gops[i].frames) - 1) :
         buf' = DropFramesFromGOP(buf, i, k)
  /\ UNCHANGED <<current, nextId, now, origin, history>>

NotKeyframe(f) == ~IsKeyframe(f)

\* The size of a buffered GOP is no longer that of its frames behind the
\* keyframe, or it has lost the keyframe.
Rewritten(g) ==
  g.frames = <<>> \/ g.totalSize # Bytes(Where(g.frames, NotKeyframe))

GateNext ==
  /\ HandleFrame \/ SkipCorrupted \/ DropOldestGOP \/ DropCorruptedFrames
  /\ recounted' = (recounted \/ \E i \in DOMAIN buf'.gops : Rewritten(buf'.gops[i]))

GateSpec == GateInit /\ [][GateNext]_gateVars

----------------------------------------------------------------------------
(* Properties *)

GOPs == {buf.gops[i] : i \in DOMAIN buf.gops}

FrameSet(frames) == {frames[i] : i \in DOMAIN frames}

\* The frame index names exactly the buffered frames, each at the GOP and
\* the position where GetFrame will look for it, whatever mix of drops and
\* removals came before (updateFrameIndicesAfterRemoval).
IndexExact ==
  /\ DOMAIN buf.index = UNION {Ids(g.frames) : g \in GOPs}
  /\ \A g \in GOPs : \A p \in DOMAIN g.frames :
       buf.index[g.frames[p].id] = [gop |-> g.id, pos |-> p]

\* What is left of a buffered GOP can be decoded: a P or B frame is never
\* kept after a reference frame before it in the same GOP was dropped
\* (dropBFrames before dropPFrames, CanDropFrame, keyframes kept).
Decodable ==
  \A g \in GOPs : \A f \in FrameSet(g.frames) :
    f.type \in {"P", "B"} =>
      \A r \in FrameSet(origin[g.id]) :
        r.type \in {"I", "P"} /\ r.id < f.id => r.id \in Ids(g.frames)

\* The buffer's byte count is the sum of its GOPs' sizes, so removing every
\* GOP returns it to zero (currentBytes, GOP.TotalSize): until a drop has
\* rewritten the size of a GOP, which counts the keyframe in, while the
\* detector leaves it out (dropOldGOPs, dropAllNonKeyframes, DropFramesFromGOP).
GOPBytes(gops) == SumOf([i \in DOMAIN gops |-> gops[i].totalSize])
BytesMatch == ~recounted => buf.bytes = GOPBytes(buf.gops)

\* What the limits and the statistics go by is what the buffer holds: the byte
\* count, and the P and B counts of every GOP after any mix of drops.
CountsExact ==
  /\ BytesMatch
  /\ \A g \in GOPs :
       /\ g.pCount = Len(Where(g.frames, IsP))
       /\ g.bCount = Len(Where(g.frames, IsB))

\* A GOP is closed once and in order: its ID is its number, and the buffer
\* holds the newest GOPs with no gap and the oldest first (AddGOP, and every
\* removal at the front).
NewestKept ==
  \A i \in DOMAIN buf.gops :
    buf.gops[i].id = Len(origin) - Len(buf.gops) + i

\* After every step the buffer is inside its limits as it counts them: at
\* most MaxGOPs GOPs, and over MaxBytes only with one GOP left, and those it
\* keeps are the newest (enforceBufferLimits).
LimitsKept ==
  /\ Len(buf.gops) <= MaxGOPs
  /\ buf.bytes > MaxBytes => Len(buf.gops) <= 1
  /\ NewestKept

\* shouldDropFrame sheds P frames without knowing what follows, yet a frame
\* whose reference was shed is queued only after the pressure has fallen:
\* at the same or a higher pressure it is shed as well.
ShedWithDependents == ~orphaned

\* The buffer's own books are right after any mix of additions and drops: the
\* index, the byte and frame counts, and the limits enforced with them.
BufferExact == IndexExact /\ CountsExact /\ LimitsKept

\* What the gate lets through under pressure can be decoded: neither the GOP
\* buffer nor shouldDropFrame keeps a frame whose reference it gave up.
StaysDecodable == Decodable /\ ShedWithDependents
============================================================================
