------------------------------ MODULE MCPackets ------------------------------
(* From packets to pictures: RTP reception, the alignment and the parser of the *)
(* transport stream, the depacketizers, the frame detectors, and the parameter  *)
(* sets with the bits they are written in.  A behaviour exercises one of them   *)
(* while the others stay as they were created.                                  *)
EXTENDS RTPReceive, TSParser, Depacketizer, FrameDetectors, Bitstream,
        ParameterSets, ParameterVersions, EncoderSessions

CONSTANT Subjects

VARIABLE subject

\* A program map with and without a defect, and that of another program.
SomeSections == {
  [pid |-> "x10", video |-> "v", audio |-> "a", sets |-> {"sps"}, defect |-> "none"],
  [pid |-> "x10", video |-> "v", audio |-> "a", sets |-> {}, defect |-> "cut"],
  [pid |-> "x11", video |-> "w", audio |-> Nothing, sets |-> {}, defect |-> "none"]}

\* A unit in three parts, one that fits a packet, two in one packet (too many for
\* a STAP-A), and one whose second part shares its packet with another unit.
Part(u, i, n) == [kind |-> "part", units |-> <<u>>, part |-> i, parts |-> n, new |-> i = 1]
Plain(u) == [kind |-> "plain", units |-> <<u>>, part |-> 1, parts |-> 1, new |-> FALSE]
Bundle(us) == [kind |-> "bundle", units |-> us, part |-> 1, parts |-> 1, new |-> TRUE]
Mixed(us, i, n) == [kind |-> "mixed", units |-> us, part |-> i, parts |-> n, new |-> FALSE]
SomePackets == <<Part(1, 1, 3), Part(1, 2, 3), Part(1, 3, 3), Plain(2), Bundle(<<3, 4>>),
                 Part(5, 1, 2), Mixed(<<5, 6>>, 2, 2)>>
\* Unit 4 is a temporal delimiter.
SomeDelimiters == {<<4, 1>>}

\* Pictures as encoders send them, with a delimiter in front and without.
SomePictures ==
  [h264 |-> {<<"AUD", "SPS", "PPS", "SEI", "IDR", "IDR">>, <<"AUD", "P", "P">>,
             <<"AUD", "B">>, <<"AUD", "I">>, <<"P">>, <<"SEI", "IDR">>},
   hevc |-> {<<"AUD", "VPS", "SPS", "PPS", "IRAP">>, <<"AUD", "TRAIL_R", "TRAIL_R">>,
             <<"AUD", "SEI", "TRAIL_N">>, <<"TRAIL_R">>, <<"VPS", "IRAP">>},
   av1 |-> {<<"TD", "SEQ", "KEY">>, <<"TD", "HDR_INTER", "TILES">>, <<"TD", "INTER">>,
            <<"INTER">>, <<"SEQ", "KEY">>},
   jpegxs |-> {<<"SOI", "PIH", "EOI">>, <<"SOI", "PIH">>, <<"PIH">>}]
InsideSlices ==
  [h264 |-> {"P", "AUD", "SPS", "SEI"}, hevc |-> {"TRAIL_R", "AUD", "SEI"},
   av1 |-> {}, jpegxs |-> {}]

\* Configurations with both parameter sets and with one of them.
HashedSets == [a |-> {"sps", "pps"}, b |-> {"sps"}, c |-> {"pps"}]

\* A payload without and with bytes that look like a sync byte.
SomeLookalikes == {{}, {5, 9}}

bitVars == <<payload>>

MCInit ==
  /\ subject \in Subjects
  /\ Init /\ TSInit /\ DepInit /\ DetInit /\ BitInit /\ ParamInit /\ VerInit /\ EncInit
  /\ AlignInit
  /\ subject # "align" => syncLike = {} /\ joined = 0
  /\ subject # "units" => codec = "h264"
  /\ subject # "pictures" => feed = [codec |-> "h264", source |-> "raw"]
  /\ subject # "sets" => sessionCtx = NewContext
  /\ subject # "versions" => holds = "a"

MCNext ==
  /\ UNCHANGED subject
  /\ subject = "rtp" \/ UNCHANGED vars
  /\ subject = "ts" \/ UNCHANGED tsVars
  /\ subject = "align" \/ UNCHANGED alignVars
  /\ subject = "units" \/ UNCHANGED depVars
  /\ subject = "pictures" \/ UNCHANGED detVars
  /\ subject = "bits" \/ UNCHANGED bitVars
  /\ subject = "sets" \/ UNCHANGED paramVars
  /\ subject = "versions" \/ UNCHANGED verVars
  /\ subject = "encoders" \/ UNCHANGED esVars
  /\ \/ subject = "rtp" /\ Next
     \/ subject = "ts" /\ TSNext
     \/ subject = "align" /\ AlignNext
     \/ subject = "units" /\ DepNext
     \/ subject = "pictures" /\ DetNext
     \/ subject = "bits" /\ BitNext
     \/ subject = "sets" /\ ParamNext
     \/ subject = "versions" /\ VerNext
     \/ subject = "encoders" /\ EncNext

MCSpec ==
  MCInit /\ [][MCNext]_<<subject, vars, tsVars, alignVars, depVars, detVars, bitVars,
                         paramVars, verVars, esVars>>
=============================================================================
