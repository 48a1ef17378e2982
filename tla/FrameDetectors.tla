--------------------------- MODULE FrameDetectors ---------------------------
(***************************************************************************)
(* From a stream of coded units to frames: the RTP adapter that wraps each *)
(* unit into a packet (rtp_connection_adapter.go), the four codecs'        *)
(* boundary detectors (frame/*_detector.go) and what the assembler makes   *)
(* of their verdicts (frame/assembler.go).  A unit is the kind its header  *)
(* byte names; the scan for start codes, markers and OBU headers is what   *)
(* splits a packet's bytes into its units.  The assembler runs under its   *)
(* lock, so a packet is one step.  How finished frames wait for the output *)
(* channel is VideoPipeline's subject.                                     *)
(***************************************************************************)
EXTENDS Naturals, Sequences, SequencesExt

CONSTANTS
  UnitLists,    \* codec -> the unit lists its encoder may send as one picture
  Sources,      \* "ts": the transport packets of the SRT adapter; "nal": the RTP
                \* adapter's callback; "raw": RTP payloads through its ProcessPacket
  Misread,      \* codec -> kinds that a byte from inside a slice may be read as
  MaxNALUnits,  \* MaxNALUnitsPerFrame, MaxOBUsPerFrame
  AdapterCap,   \* capacity of the adapters' videoOutput
  MaxPictures   \* bound: pictures sent

ASSUME DetectorAssumption ==
  /\ DOMAIN UnitLists \subseteq {"h264", "hevc", "av1", "jpegxs"}
  /\ DOMAIN Misread = DOMAIN UnitLists
  /\ \A c \in DOMAIN UnitLists :
       UnitLists[c] \subseteq Seq(STRING) \ {<<>>} /\ Misread[c] \subseteq STRING
  /\ Sources \subseteq {"ts", "nal", "raw"}
  /\ {MaxNALUnits, AdapterCap} \subseteq Nat \ {0} /\ MaxPictures \in Nat

VARIABLES
  feed,      \* codec and source, fixed when the stream is accepted
  sender,    \* history: the picture being sent and the units of it still to go
  videoOutput, \* videoOutput, the packets between adapter and pipeline
  detector,  \* lastNALType, frameStarted (inFrame), seenFrameHeader
  currentFrame, \* the packets of currentFrame, <<>> when it is nil
  finished,  \* history: the frames the last packet completed
  clean,     \* history: no packet was dropped at the full channel or refused
  missedSlice \* history: a coded slice was dropped for want of a frame, before any
             \* packet was lost

detVars == <<feed, sender, videoOutput, detector, currentFrame, finished, clean, missedSlice>>

-----------------------------------------------------------------------------
(* Kinds of units *)

H264VCL == {"IDR", "I", "P", "B"}
HEVCVCL == {"IRAP", "TRAIL_R", "TRAIL_N"}

H264ParameterSets == {"SPS", "PPS"}
HEVCParameterSets == {"VPS", "SPS", "PPS"}

\* The encoders considered: the slices of an H.264 or HEVC picture are all key
\* slices, or none is and parameter sets do not come with it.  A picture may begin
\* with a delimiter or, as RTP senders do, without one.
KeySlices == {"IDR", "I", "IRAP"}
Slices(codec) == IF codec = "hevc" THEN HEVCVCL ELSE H264VCL
InKeyframe(codec, k) == k \in Slices(codec) <=> k \in KeySlices
InOther(k) == k \notin KeySlices \cup H264ParameterSets \cup HEVCParameterSets

ASSUME PictureAssumption ==
  \A c \in DOMAIN UnitLists : \A units \in UnitLists[c] :
    c \in {"h264", "hevc"} =>
      /\ \E i \in DOMAIN units : units[i] \in Slices(c)
      /\ \/ \A i \in DOMAIN units : InKeyframe(c, units[i])
         \/ \A i \in DOMAIN units : InOther(units[i])

\* "TRAIL_N" is type 0, the zero value of HEVC's lastNALType; for H.264 zero is
\* "unspecified", which is no slice
NewDetector(codec) ==
  [last |-> IF codec = "hevc" THEN "TRAIL_N" ELSE "unspecified",
   frameStarted |-> FALSE, seenFrameHeader |-> FALSE]

DetInit ==
  /\ feed \in {[codec |-> c, source |-> s] : c \in DOMAIN UnitLists, s \in Sources}
  /\ feed.source = "ts" => feed.codec \in {"h264", "hevc"}
  /\ sender = [picture |-> 0, rest |-> <<>>, part |-> "whole"]
  /\ videoOutput = <<>>
  /\ detector = NewDetector(feed.codec)
  /\ currentFrame = <<>> /\ finished = <<>>
  /\ clean = TRUE /\ missedSlice = FALSE

-----------------------------------------------------------------------------
(* Boundary detection.  A verdict is [start, end, d]: isStart, isEnd and the *)
(* detector afterwards.                                                      *)

Verdict(start, end, d) == [start |-> start, end |-> end, d |-> d]

\* One unit without a start code, or the first fragment of one
H264Unit(k, d) ==
  LET first == \/ k \in {"AUD", "IDR"} \cup H264ParameterSets
               \/ k \in H264VCL /\ d.last \notin H264VCL /\ d.last # "unspecified"
      ends == /\ d.frameStarted \/ first
              /\ d.last \in H264VCL
              /\ k \in {"SEI", "AUD"} \cup H264ParameterSets
  IN  Verdict(first \/ ends, ends,
              [d EXCEPT !.frameStarted = @ \/ first \/ ends, !.last = k])

HEVCUnit(k, d) ==
  LET first == \/ k \in {"AUD", "IRAP"} \cup HEVCParameterSets
               \/ k \in HEVCVCL /\ d.last \notin HEVCVCL
      ends == (d.frameStarted \/ first) /\ d.last \in HEVCVCL /\ k \notin HEVCVCL
  IN  Verdict(first, ends,
              [d EXCEPT !.frameStarted = ~ends /\ (@ \/ first), !.last = k])

\* handleFU, first fragment: parameter sets do not start a frame by themselves
HEVCFragment(k, d) ==
  LET first == k \in HEVCVCL \cup {"AUD"}
      ends == /\ d.frameStarted \/ first
              /\ d.last \in HEVCVCL
              /\ k \in {"AUD"} \cup HEVCParameterSets
  IN  Verdict(first \/ ends, ends,
              [d EXCEPT !.frameStarted = @ \/ first \/ ends, !.last = k])

\* The verdict on a packet: its units in turn
Scanned(Scan(_, _), units, d) ==
  LET scan[i \in 0..Len(units)] ==
        IF i = 0 THEN Verdict(FALSE, FALSE, d) ELSE Scan(scan[i - 1], units[i])
  IN  scan[Len(units)]

\* detectBoundariesWithStartCode
H264Scan(v, k, hasVCL) ==
  LET first == k \in {"AUD", "IDR"} \cup H264ParameterSets
      start == v.start \/ first
      begun == v.d.frameStarted \/ first
      ends  == \/ begun /\ k = "AUD"
               \/ begun /\ start /\ k \in {"IDR", "I", "P", "B"} \cup H264ParameterSets
               \/ start /\ hasVCL
  IN  Verdict(start, v.end \/ ends, [v.d EXCEPT !.frameStarted = begun /\ k # "AUD"])

H264StartCodes(units, d) ==
  LET hasVCL == \E i \in DOMAIN units : units[i] \in H264VCL
      Scan(v, k) == H264Scan(v, k, hasVCL)
  IN  Scanned(Scan, units, d)

\* Mutant of HEVCScan: an access unit delimiter only ends frames.
HEVCScanNoDelimiter(v, k) ==
  LET ends == v.d.frameStarted /\ k \in {"AUD"} \cup HEVCParameterSets
  IN  Verdict(v.start \/ k \in {"IRAP"} \cup HEVCParameterSets, v.end \/ ends,
              [v.d EXCEPT !.frameStarted = k \in HEVCVCL \/ (@ /\ ~ends), !.last = k])

HEVCScan(v, k) ==
  LET ends == v.d.frameStarted /\ k \in {"AUD"} \cup HEVCParameterSets
  IN  Verdict(v.start \/ k \in {"AUD", "IRAP"} \cup HEVCParameterSets, v.end \/ ends,
              [v.d EXCEPT !.frameStarted = k \in HEVCVCL \/ (@ /\ ~ends), !.last = k])

HEVCStartCodes(units, d) == Scanned(HEVCScan, units, d)

AV1Header == {"HDR_KEY", "HDR_INTER"}
AV1Frame  == {"KEY", "INTER"}

AV1Scan(v, k) ==
  LET heads    == k \in AV1Header \cup AV1Frame /\ ~v.d.seenFrameHeader
      seen     == k # "TD" /\ (v.d.seenFrameHeader \/ heads)
      finishes == k \in AV1Frame \/ (k = "TILES" /\ seen)
      ends     == \/ k = "TD" /\ v.d.frameStarted
                  \/ k = "SEQ" /\ v.d.frameStarted /\ ~v.d.seenFrameHeader
                  \/ finishes
      starts   == k \in {"TD", "SEQ"} \/ heads
  IN  Verdict(v.start \/ starts, v.end \/ ends,
              [v.d EXCEPT !.frameStarted = ~finishes /\ (@ \/ starts),
                          !.seenFrameHeader = seen /\ ~finishes, !.last = k])

AV1Boundaries(units, d) == Scanned(AV1Scan, units, d)

\* frameStarted stands for inFrame, which always has the same value
JPEGXSScan(v, k) ==
  LET within == v.d.frameStarted
  IN  Verdict(v.start \/ k = "SOI" \/ (k = "PIH" /\ ~within),
              v.end \/ (k \in {"SOI", "EOI"} /\ within),
              [v.d EXCEPT !.frameStarted = k \in {"SOI", "PIH"} \/ (@ /\ k # "EOI"),
                          !.last = k])

JPEGXSBoundaries(units, marker, d) ==
  LET scanned == Scanned(JPEGXSScan, units, d)
  IN  IF marker /\ scanned.d.frameStarted
      THEN Verdict(scanned.start, TRUE, [scanned.d EXCEPT !.frameStarted = FALSE])
      ELSE scanned

\* A fragment that is not the first has no boundary; the last one renames lastNALType
FragmentVerdict(k, part, v, d) ==
  IF part = "first" THEN v
  ELSE Verdict(FALSE, FALSE, IF part = "last" THEN [d EXCEPT !.last = k] ELSE d)

\* A start code in front of an AV1 unit begins with a zero byte, the header of a
\* reserved OBU without size, which reaches to the packet's end
ParseOBUs(p) ==
  IF feed.codec = "av1" /\ feed.source = "nal" THEN <<"reserved">> ELSE p.units

\* A packet that does not begin with a start code is taken for one RTP payload and
\* judged by its first byte.  Too many units in a packet: no boundary at all.
DetectBoundaries(p, d) ==
  LET k == p.first
      none == Verdict(FALSE, FALSE, d)
      coded == feed.source # "raw" /\ p.part = "whole"
  IN  CASE feed.codec = "jpegxs" -> JPEGXSBoundaries(p.units, p.marker, d)
        [] feed.codec = "av1" ->
             IF Len(p.units) >= MaxNALUnits THEN none ELSE AV1Boundaries(ParseOBUs(p), d)
        [] feed.codec = "h264" /\ coded ->
             IF Len(p.units) >= MaxNALUnits THEN none ELSE H264StartCodes(p.units, d)
        [] feed.codec = "hevc" /\ coded ->
             IF Len(p.units) >= MaxNALUnits THEN none ELSE HEVCStartCodes(p.units, d)
        [] feed.codec = "h264" /\ ~coded ->
             IF p.part \in {"whole", "middle"} THEN H264Unit(k, d)
             ELSE FragmentVerdict(k, p.part, H264Unit(k, d), d)
        [] feed.codec = "hevc" /\ ~coded ->
             IF p.part \in {"whole", "middle"} THEN HEVCUnit(k, d)
             ELSE FragmentVerdict(k, p.part, HEVCFragment(k, d), d)

-----------------------------------------------------------------------------
(* Frame types *)

\* The units that have their start code in the packet
StartCodeUnits(p) ==
  IF feed.source = "raw" THEN <<>> ELSE IF p.part = "middle" THEN Tail(p.units) ELSE p.units

\* parseNALUnits: a buffer without any start code is one unit, whose type is that of
\* its first byte; AV1 and JPEG XS buffers need no start codes
ParseNALUnits(packets) ==
  LET found == FlattenSeq([i \in DOMAIN packets |-> StartCodeUnits(packets[i])])
      read == IF packets[1].part = "first" THEN "FU" ELSE packets[1].first
  IN  IF feed.codec \in {"av1", "jpegxs"}
      THEN FlattenSeq([i \in DOMAIN packets |-> ParseOBUs(packets[i])])
      ELSE IF found = <<>> THEN <<read>> ELSE found

\* The first unit of s that is in S, default when there is none
FirstIn(s, S, default) ==
  LET at == {i \in DOMAIN s : s[i] \in S}
  IN  IF at = {} THEN default ELSE s[CHOOSE i \in at : \A j \in at : i <= j]

H264FrameType(units) ==
  LET has == {units[i] : i \in DOMAIN units}
  IN  IF "IDR" \in has THEN "IDR"
      ELSE FirstIn(units, H264VCL, IF "SPS" \in has THEN "SPS"
                                   ELSE IF "PPS" \in has THEN "PPS" ELSE "P")

\* BLA and CRA pictures are as much keyframes as IDR pictures are
HEVCFrameType(units) ==
  LET has == {units[i] : i \in DOMAIN units}
  IN  CASE "IRAP" \in has -> "IDR"
        [] "IRAP" \notin has /\ "SPS" \in has -> "SPS"
        [] has \cap {"IRAP", "SPS"} = {} /\ "PPS" \in has -> "PPS"
        [] has \cap {"IRAP", "SPS", "PPS"} = {} -> IF "TRAIL_R" \in has THEN "P" ELSE "B"

AV1FrameType(units) ==
  LET k == FirstIn(units, AV1Header \cup AV1Frame \cup {"SEQ"}, "INTER")
  IN  CASE k = "SEQ" -> "SPS"
        [] k \in {"HDR_KEY", "KEY"} -> "IDR"
        [] k \in {"HDR_INTER", "INTER"} -> "P"

GetFrameType(units) ==
  CASE feed.codec = "h264" -> H264FrameType(units)
    [] feed.codec = "hevc" -> HEVCFrameType(units)
    [] feed.codec = "av1" -> AV1FrameType(units)
    [] feed.codec = "jpegxs" -> "I"

IsKeyframe(type) == type \in {"I", "IDR"}

-----------------------------------------------------------------------------
(* Sender and adapter *)

Full == Len(videoOutput) = AdapterCap

\* A full videoOutput loses the packet (bound: then nothing more is sent)
Offer(p) ==
  /\ clean
  /\ videoOutput' = IF Full THEN videoOutput ELSE Append(videoOutput, p)
  /\ clean' = (clean /\ ~Full)
  /\ UNCHANGED <<feed, detector, currentFrame, finished, missedSlice>>

\* The encoder's next picture
NextPicture ==
  /\ clean /\ sender.rest = <<>> /\ sender.picture < MaxPictures
  /\ \E units \in UnitLists[feed.codec] :
       sender' = [picture |-> sender.picture + 1, rest |-> units, part |-> "whole"]
  /\ UNCHANGED <<feed, videoOutput, detector, currentFrame, finished, clean, missedSlice>>

Packet(units, first, part, key, marker) ==
  [picture |-> sender.picture, units |-> units, first |-> first, part |-> part,
   key |-> key, marker |-> marker]

\* isKeyframe of the SRT adapter, analyzePacket of the RTP adapter
SRTKeyframe(units) ==
  \E i \in DOMAIN units :
    units[i] \in IF feed.codec = "hevc" THEN {"IRAP"} \cup HEVCParameterSets
                 ELSE {"IDR"} \cup H264ParameterSets

AnalyzePacket(k) ==
  k \in CASE feed.codec = "h264" -> {"IDR"} \cup H264ParameterSets
          [] feed.codec = "hevc" -> {"IRAP"}
          [] feed.codec \notin {"h264", "hevc"} -> {}

\* processTSPacket: every transport packet of a picture's PES becomes a packet; it
\* carries the next units, the last of them perhaps cut, and begins inside a unit
\* ("middle") when the one before was cut
ProcessTSPacket ==
  /\ feed.source = "ts" /\ sender.rest # <<>>
  /\ \E n \in 1..Len(sender.rest), cut \in BOOLEAN :
       LET part == IF sender.part = "cut" THEN "middle" ELSE "whole"
           units == SubSeq(sender.rest, 1, n)
           payloadStart == sender.rest \in UnitLists[feed.codec] /\ part = "whole"
       IN  /\ \E k \in IF part = "middle" THEN Misread[feed.codec] ELSE {Head(units)} :
                Offer(Packet(units, k, part, payloadStart /\ SRTKeyframe(units), FALSE))
           \* bound: a slice spans two packets, and only slices are cut
           /\ cut => units[n] \in H264VCL \cup HEVCVCL /\ (part = "middle" => n > 1)
           /\ sender' = [sender EXCEPT !.rest = SubSeq(@, IF cut THEN n ELSE n + 1, Len(@)),
                                       !.part = IF cut THEN "cut" ELSE "whole"]

\* handleNALUnits: every unit becomes a packet of its own behind a start code; the
\* JPEG XS depacketizer gives whole pictures.  The depacketizer has put a start code
\* there already, so analyzeNALUnit reads a zero header and flags no keyframe.
HandleNALUnits ==
  /\ feed.source = "nal" /\ sender.rest # <<>>
  /\ LET n == IF feed.codec = "jpegxs" THEN Len(sender.rest) ELSE 1
     IN  /\ Offer(Packet(SubSeq(sender.rest, 1, n), Head(sender.rest), "whole", FALSE, FALSE))
         /\ sender' = [sender EXCEPT !.rest = SubSeq(@, n + 1, Len(@))]

\* ProcessPacket: the payload as it came, whole units or fragments of them; the
\* marker bit of the picture's last packet becomes PacketFlagFrameEnd
ProcessPacket ==
  /\ feed.source = "raw" /\ sender.rest # <<>>
  /\ \E part \in {"whole", "first", "last"} :
       /\ part = "last" <=> sender.part = "first"
       /\ part = "first" => feed.codec \in {"h264", "hevc"}
       /\ Offer(Packet(<<Head(sender.rest)>>, Head(sender.rest), part,
                       part = "whole" /\ AnalyzePacket(Head(sender.rest)),
                       Len(sender.rest) = 1 /\ part # "first"))
       /\ sender' = [sender EXCEPT !.part = part,
                                   !.rest = IF part = "first" THEN @ ELSE Tail(@)]

-----------------------------------------------------------------------------
(* Assembler *)

\* The packet that starts the frame may have been flagged by the adapter
CompleteFrame(packets) ==
  LET type == GetFrameType(ParseNALUnits(packets))
  IN  [packets |-> packets, type |-> type, key |-> packets[1].key \/ IsKeyframe(type)]

VCLUnits == H264VCL \cup HEVCVCL \cup AV1Header \cup AV1Frame \cup {"SOI", "PIH"}

\* AddPacket; late: the frame under way is older than frameTimeout (200 ms)
AssemblePacket ==
  /\ videoOutput # <<>>
  /\ LET p == Head(videoOutput)
         v == DetectBoundaries(p, detector)
         orphan == ~v.start /\ currentFrame = <<>>
         before == IF v.start /\ currentFrame # <<>> THEN <<CompleteFrame(currentFrame)>> ELSE <<>>
         now == IF v.start THEN <<p>> ELSE IF orphan THEN <<>> ELSE Append(currentFrame, p)
     IN  \E late \in BOOLEAN :
           LET done == ~orphan /\ (v.end \/ late)
           IN  /\ detector' = v.d
               /\ finished' = before \o IF done THEN <<CompleteFrame(now)>> ELSE <<>>
               /\ currentFrame' = IF done THEN <<>> ELSE now
               /\ missedSlice' = (missedSlice \/ (/\ orphan /\ clean
                                        /\ \/ p.part = "middle"
                                           \/ \E i \in DOMAIN p.units : p.units[i] \in VCLUnits))
               /\ clean' = (clean /\ Len(p.units) < MaxNALUnits)
  /\ videoOutput' = Tail(videoOutput)
  /\ UNCHANGED <<feed, sender>>

DetNext == NextPicture \/ ProcessTSPacket \/ HandleNALUnits \/ ProcessPacket
           \/ AssemblePacket

DetSpec == DetInit /\ [][DetNext]_detVars

-----------------------------------------------------------------------------
(* Properties *)

\* The units at which the codec's detector starts a frame whatever came before
Openers(codec) ==
  CASE codec = "h264" -> {"AUD", "IDR"} \cup H264ParameterSets
    [] codec = "hevc" -> {"AUD", "IRAP"} \cup HEVCParameterSets
    [] codec = "av1" -> {"TD", "SEQ"}
    [] codec = "jpegxs" -> {"SOI"}

\* A parameter set in several fragments is the exception (handleFU)
Opens(p) ==
  /\ p.first \in Openers(feed.codec)
  /\ ~(feed.codec = "hevc" /\ p.part = "first" /\ p.first \in HEVCParameterSets)

OnePicture(f) == \A j \in DOMAIN f.packets : f.packets[j].picture = f.packets[1].picture

\* While no packet is lost, a frame handed on runs over into another picture only
\* where that one begins with neither delimiter nor parameter set nor IDR or random
\* access slice (Opens), as the plain pictures of an RTP sender do.  A frame of one
\* picture that came in one transport packet is marked a keyframe exactly when the
\* picture is one.
FramesArePictures ==
  clean =>
    \A i \in DOMAIN finished :
      LET f == finished[i]
          p == f.packets[1]
      IN  /\ \A j \in 2..Len(f.packets) :
               f.packets[j].picture = f.packets[j - 1].picture \/ ~Opens(f.packets[j])
          /\ /\ feed.source = "ts" /\ p.part = "whole" /\ p.units \in UnitLists[feed.codec]
             /\ OnePicture(f)
             => (f.key <=> \E j \in DOMAIN p.units : p.units[j] \in {"IDR", "I", "IRAP"})

\* "Reconstructs complete video frames from timestamped packets" (frame/README.md):
\* the assembler drops no part of a picture for want of a frame.
PicturesComplete == ~missedSlice

=============================================================================
