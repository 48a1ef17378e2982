----------------------------- MODULE MCTimeline -----------------------------
(* What happens to time stamps: SRT's clock, the B-frame reorderer, the tracks  *)
(* of the A/V synchronisation and the RTP mapper.  A behaviour exercises one of *)
(* them while the others stay as they were created.                             *)
EXTENDS SRTTimestamps, BFrameReorderer, AVSync

CONSTANT Subjects

VARIABLE subject

\* Frames shown at once, and frames shown later: the PTS steps back.
Reordered == {0, 2}

\* The sender's clock starts three ticks before its first wrap.
BeforeWrap == Wrap - 3

\* Consecutive frames, and a gap longer than any frame duration.
NearAndFar == {1, 4}

\* Track clocks that do not divide each other; steps back as B-frames make
\* them, forward, and far enough to be taken for a jump or for a wrap.
TrackUnits == [video |-> 3, audio |-> 2]
TrackSteps == [video |-> {-2, 5, 31}, audio |-> {4, -25}]

MCInit ==
  /\ subject \in Subjects
  /\ Init /\ ReorderInit /\ SyncInit /\ MapperInit
  /\ clock.offset = IF subject = "srt" THEN BeforeWrap ELSE 0

MCNext ==
  /\ UNCHANGED subject
  /\ \/ subject = "srt" /\ Next /\ UNCHANGED <<reorderVars, syncVars, mapperVars>>
     \/ subject = "reorder" /\ ReorderNext /\ UNCHANGED <<vars, syncVars, mapperVars>>
     \/ subject = "tracks" /\ SyncNext /\ UNCHANGED <<vars, reorderVars, mapperVars>>
     \/ subject = "mapper" /\ MapperNext /\ UNCHANGED <<vars, reorderVars, syncVars>>

MCSpec == MCInit /\ [][MCNext]_<<subject, vars, reorderVars, syncVars, mapperVars>>
=============================================================================
