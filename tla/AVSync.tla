------------------------------- MODULE AVSync -------------------------------
(***************************************************************************)
(* Audio/video synchronisation of one stream (sync/manager.go,             *)
(* sync/track_sync.go, sync/pts_wraparound.go) and the mapper that gives   *)
(* RTP packets their PTS (timestamp/mapper.go).                            *)
(*                                                                         *)
(* A track keeps a base (a PTS and the wall time it arrived at), counts    *)
(* the wraps of the PTS field since the base, and places every PTS on the  *)
(* wall clock.  The manager compares the two tracks after every frame,     *)
(* averages the differences and shifts the audio.  Both run under the      *)
(* manager's mutex, so a frame is one step.  A source sends frames out of  *)
(* presentation order (B-frames), so its media time may step back.         *)
(*                                                                         *)
(* The counters that only the statistics read (jumps, DTS errors, drops,   *)
(* correction rate, variance, processing lag) are left out.                *)
(***************************************************************************)
EXTENDS Integers, Sequences, FiniteSetsExt, SequencesExt

CONSTANTS
  Den,          \* [Tracks -> ticks per second of the track's time base]
  SecondUnits,  \* wall clock units in a second (time.Second)
  WrapAt,       \* modulus of a PTS (1 << 33)
  MediaSteps,   \* [Tracks -> steps a source's media time takes between frames]
  Gaps,         \* wall time between two arrivals
  MaxWall,      \* bound on the wall clock
  MaxDrift,     \* config.MaxAudioDrift
  WindowSize,   \* driftWindowSize
  MinSamples,   \* samples a correction needs (10)
  FactorInverse,\* 1 / config.CorrectionFactor
  MaxCorrectionStep,      \* config.MaxCorrectionStep
  Interval,     \* config.CorrectionInterval
  RTPModulus,   \* modulus of an RTP timestamp (2^32)
  RTPSteps,     \* steps of the RTP timestamps of successive packets
  MaxRTPTime    \* bound on the RTP sender's media time

Tracks == {"video", "audio"}

ASSUME SyncAssumption ==
  /\ Den \in [Tracks -> Nat \ {0}]
  /\ {SecondUnits, WindowSize, FactorInverse, WrapAt, RTPModulus} \subseteq Nat \ {0}
  /\ {MaxDrift, MinSamples, MaxCorrectionStep, Interval, MaxWall, MaxRTPTime} \subseteq Nat
  /\ Gaps \subseteq Nat /\ RTPSteps \subseteq Int
  /\ MediaSteps \in [Tracks -> SUBSET Int]
  \* A PTS field spans more than twenty seconds, and the frames of a track
  \* follow each other by less than half of it.
  /\ \A t \in Tracks : WrapAt > 20 * Den[t]
  /\ \A t \in Tracks : \A d \in MediaSteps[t] : 2 * d < WrapAt /\ -2 * d < WrapAt

VARIABLES
  track,        \* [Tracks -> TrackSync]; base and last also by true media time
  window,       \* driftWindow: the PTS drifts of the last samples
  audioOffset,
  lastCorrection,
  correction,   \* the last correction: average drift, drift before, drift after
  wall,         \* the wall clock
  mapper,       \* TimestampMapper
  mapped        \* the sender's media time, and the PTS the mapper gave it

syncVars == <<track, window, audioOffset, lastCorrection, correction, wall>>
mapperVars == <<mapper, mapped>>

NewTrackSyncManager ==
  [started |-> FALSE, baseTime |-> 0, basePTS |-> 0, lastPTS |-> 0, wraps |-> 0,
   media |-> 0, baseMedia |-> 0]

NewTimestampMapper == [started |-> FALSE, baseRTP |-> 0, lastRTP |-> 0, wraps |-> 0]

\* The zero time.Time: a correction made from it on is never too early.
LongAgo == -Interval - 1

SyncInit ==
  /\ track = [t \in Tracks |-> NewTrackSyncManager]
  /\ window = <<>> /\ audioOffset = 0 /\ lastCorrection = LongAgo
  /\ correction = [average |-> 0, before |-> 0, after |-> 0]
  /\ wall = 0

MapperInit ==
  /\ mapper = NewTimestampMapper
  /\ mapped = [media |-> 0, base |-> 0, pts |-> 0]

----------------------------------------------------------------------------
(* One track. *)

Abs(n) == IF n < 0 THEN -n ELSE n

\* Integer division as Go does it: towards zero.
Quot(a, b) == IF a < 0 THEN -((-a) \div b) ELSE a \div b
Rem(a, b) == a - b * Quot(a, b)

TrackWraps(pts, last) == pts < last /\ last - pts > WrapAt \div 2

CalculatePTSDelta(pts, base, wraps) == pts + wraps * WrapAt - base

\* Whole seconds first, then the remainder, so that the product stays small.
GetPresentationTime(s, t, pts) ==
  LET delta == CalculatePTSDelta(pts, s.basePTS, s.wraps)
  IN s.baseTime + Quot(delta, Den[t]) * SecondUnits
       + Quot(Rem(delta, Den[t]) * SecondUnits, Den[t])

\* Mutant of Rebased: the wraps counted so far stay with the new base.
RebasedKeepingWraps(s, pts, media, now) ==
  [s EXCEPT !.baseTime = now, !.basePTS = pts, !.baseMedia = media]

\* The base starts over: first sample, or a jump of more than ten seconds.
Rebased(s, pts, media, now) ==
  [s EXCEPT !.baseTime = now, !.basePTS = pts, !.baseMedia = media, !.wraps = 0]

ProcessTimestamp(s, t, media, now) ==
  LET pts == media % WrapAt
      first == [Rebased(s, pts, media, now) EXCEPT !.started = TRUE]
      wrap == TrackWraps(pts, s.lastPTS)
      timed == IF ~s.started THEN first
               ELSE IF wrap THEN [s EXCEPT !.wraps = @ + 1]
               ELSE IF Abs(pts - s.lastPTS) > 10 * Den[t]
                    THEN Rebased(s, pts, media, now)
                    ELSE s
  IN [timed EXCEPT !.lastPTS = pts, !.media = media]

----------------------------------------------------------------------------
(* The manager. *)

\* Where the two tracks stand now, audio shifted by offset.
Drift(trk, offset) ==
  GetPresentationTime(trk["video"], "video", trk["video"].lastPTS)
    - (GetPresentationTime(trk["audio"], "audio", trk["audio"].lastPTS) + offset)

Average(samples) == Quot(FoldSeq(LAMBDA a, b : a + b, 0, samples), Len(samples))

LimitStep(amount) ==
  IF Abs(amount) <= MaxCorrectionStep THEN amount ELSE IF amount > 0 THEN MaxCorrectionStep ELSE -MaxCorrectionStep

CorrectionDue(samples, drift, now) ==
  /\ now - lastCorrection > Interval
  /\ Abs(drift) > MaxDrift
  /\ Len(samples) >= MinSamples
  /\ Abs(Average(samples)) >= MaxDrift \div 2

ApplyDriftCorrection(trk, samples, drift, now) ==
  LET average == Average(samples)
      offset == audioOffset - LimitStep(Quot(average, FactorInverse))
  IN /\ audioOffset' = offset
     /\ lastCorrection' = now
     /\ correction' = [average |-> average, before |-> drift, after |-> Drift(trk, offset)]

MeasureDrift(trk, now) ==
  LET drift == Drift(trk, audioOffset)
      w == Append(window, drift)
      samples == IF Len(w) > WindowSize THEN Tail(w) ELSE w
  IN /\ window' = samples
     /\ IF CorrectionDue(samples, drift, now)
        THEN ApplyDriftCorrection(trk, samples, drift, now)
        ELSE UNCHANGED <<audioOffset, lastCorrection, correction>>

\* ProcessVideoFrame and ProcessAudioPacket: the frame's track, then the
\* drift if the other track has started and neither stands at PTS zero.
ProcessFrame(t, step, gap) ==
  LET now == wall + gap
      media == track[t].media + step
      trk == [track EXCEPT ![t] = ProcessTimestamp(@, t, media, now)]
  IN /\ now <= MaxWall
     /\ media >= 0
     /\ wall' = now
     /\ track' = trk
     /\ IF \A u \in Tracks : trk[u].started /\ trk[u].lastPTS # 0
        THEN MeasureDrift(trk, now)
        ELSE UNCHANGED <<window, audioOffset, lastCorrection, correction>>

\* The manager's Reset; the sources go on from where they are.
SyncReset ==
  /\ wall < MaxWall
  /\ track' = [t \in Tracks |-> [NewTrackSyncManager EXCEPT !.media = track[t].media]]
  /\ window' = <<>> /\ audioOffset' = 0 /\ lastCorrection' = LongAgo
  /\ correction' = [average |-> 0, before |-> 0, after |-> 0]
  /\ wall' = wall + 1

SyncNext ==
  \/ \E t \in Tracks, gap \in Gaps : \E step \in MediaSteps[t] : ProcessFrame(t, step, gap)
  \/ SyncReset

SyncSpec == SyncInit /\ [][SyncNext]_syncVars

----------------------------------------------------------------------------
(* RTP timestamps. *)

MapperWraps(last, ts) == ts < last /\ last - ts > RTPModulus \div 2

\* ToPTS for the next packet, whose media time is step after the last one's.
ToPTS(step) ==
  LET media == mapped.media + step
      ts == media % RTPModulus
      wraps == mapper.wraps + (IF MapperWraps(mapper.lastRTP, ts) THEN 1 ELSE 0)
  IN /\ media \in 0..MaxRTPTime
     /\ IF ~mapper.started
        THEN /\ mapper' = [started |-> TRUE, baseRTP |-> ts, lastRTP |-> ts, wraps |-> 0]
             /\ mapped' = [media |-> media, base |-> media, pts |-> 0]
        ELSE /\ mapper' = [mapper EXCEPT !.lastRTP = ts, !.wraps = wraps]
             /\ mapped' = [mapped EXCEPT !.media = media,
                             !.pts = wraps * RTPModulus + ts - mapper.baseRTP]

MapperReset ==
  /\ mapper.started
  /\ mapper' = NewTimestampMapper
  /\ mapped' = [mapped EXCEPT !.base = mapped.media, !.pts = 0]

MapperNext == MapperReset \/ \E step \in RTPSteps : ToPTS(step)

\* The synchronisation and the mapper, which share nothing.
ClockNext ==
  \/ SyncNext /\ UNCHANGED mapperVars
  \/ MapperNext /\ UNCHANGED syncVars

ClockSpec == SyncInit /\ MapperInit /\ [][ClockNext]_<<syncVars, mapperVars>>

----------------------------------------------------------------------------
(* Properties. *)

\* Each track places its last frame where the source meant it: as far from
\* the base as the media time moved since, whatever wraps, B-frames across a
\* wrap and jumps lie between (DetectWrap, CalculatePTSDelta and the
\* re-basing of ProcessTimestamp together).
TracksExact ==
  \A t \in Tracks :
    track[t].started =>
      CalculatePTSDelta(track[t].lastPTS, track[t].basePTS, track[t].wraps)
        = track[t].media - track[t].baseMedia

\* The mapper's PTS is the media time since its first packet, over any
\* number of wraps of the 32-bit RTP timestamp (ToPTS).
MapperExact == mapper.started => mapped.pts = mapped.media - mapped.base

\* "applyDriftCorrection applies gradual drift correction": a correction
\* that is on the side of the present drift does not leave the tracks
\* further apart than it found them.
CorrectionHelps ==
  correction.average * correction.before > 0
    => Abs(correction.after) <= Abs(correction.before)

\* Both clocks, the tracks' and the mapper's, agree with the source's media time.
ClocksExact == TracksExact /\ MapperExact
============================================================================
