------------------------------ MODULE TSParser ------------------------------
(***************************************************************************)
(* mpegts/parser.go with the validators it owns (validation/continuity.go  *)
(* and validation/pes.go): program tables, continuity counters and the     *)
(* assembly of PES packets in which the parser looks for parameter sets.   *)
(* A packet carries one unit of payload, so PES lengths and limits count   *)
(* packets.  Of a payload the model keeps the parameter sets that lie in   *)
(* it whole and the one, if any, that runs over its end.  The packets come *)
(* aligned: the stage that aligns them is Alignment.                       *)
(***************************************************************************)
EXTENDS Alignment

CONSTANTS
  Sections,     \* program map sections: [pid, video, audio, sets, defect]
  PatPmt,       \* the PID the association table names for the first program
  GuessPids,    \* PIDs tried as program maps before any was parsed
  Elementary,   \* PIDs that carry PES packets
  ParamSets,    \* parameter sets of the video
  CounterSpace, \* values of the continuity counter (16)
  MaxPESSize,   \* pesValidator.maxPESSize
  ExtractAbove, \* the 1024 bytes above which the assembly is searched
  PESLengths,   \* PES_packet_length values, header included; 0: not given
  MaxSent,      \* bound: packets sent per PID
  MaxErrors     \* bound: errors up to which bare adaptation fields are sent

Nothing == "none"

ASSUME ParserAssumption ==
  /\ CounterSpace \in Nat \ {0, 1} /\ MaxPESSize \in Nat /\ ExtractAbove \in Nat
  /\ PESLengths \subseteq Nat /\ MaxSent \in Nat /\ MaxErrors \in Nat /\ Nothing \notin ParamSets

VARIABLES
  pmtPID, patParsed, pmtParsed,
  videoPID, audioPID,  \* each [pid, from]: the PID and the section it is from
  pesBuffer,           \* PID -> payloads, <<>> if there is no entry
  pesStarted,          \* PIDs
  pes,                 \* pesValidator.streams: PID -> [inProgress, got, want]
  counter,             \* continuityValidator.counters: PID -> counter or -1
  contErrors,          \* continuityErrors
  offered,             \* what the extractor was last given: [set, state]
  sentOn,                \* PID -> packets sent, lost ones included
  opened,                \* PID -> the parameter set that has to be continued
  missed,             \* PID -> packets lost since the last one received
  gaps,                \* gaps a modulo-CounterSpace counter can show
  lossy                \* whether any packet was lost

tables   == <<pmtPID, patParsed, pmtParsed, videoPID, audioPID>>
assembly == <<pesBuffer, pesStarted, pes>>
wire     == <<counter, contErrors, sentOn, opened, missed, gaps, lossy>>
tsVars   == <<tables, assembly, offered, wire>>

NoStream == [pid |-> Nothing, from |-> Nothing]

TSInit ==
  /\ pmtPID = Nothing /\ patParsed = FALSE /\ pmtParsed = FALSE
  /\ videoPID = NoStream /\ audioPID = NoStream
  /\ pesBuffer = [p \in Elementary |-> <<>>] /\ pesStarted = {}
  /\ pes = [p \in Elementary |-> [inProgress |-> FALSE, got |-> 0, want |-> 0]]
  /\ counter = [p \in Elementary |-> -1] /\ contErrors = 0 /\ gaps = 0 /\ lossy = FALSE
  /\ offered = {}
  /\ sentOn = [p \in Elementary |-> 0] /\ missed = [p \in Elementary |-> 0]
  /\ opened = [p \in Elementary |-> Nothing]

-----------------------------------------------------------------------------
(* Tables                                                                  *)

ParsePAT ==
  /\ ~patParsed
  /\ patParsed' = TRUE /\ pmtPID' = PatPmt
  /\ offered' = {}
  /\ UNCHANGED <<pmtParsed, videoPID, audioPID, assembly, wire>>

FirstOf(known, pid, s) ==
  IF known = NoStream /\ pid # Nothing THEN [pid |-> pid, from |-> s] ELSE known

\* The SPS and PPS of an AVC configuration record, whole
AVCConfiguration(s) == {[set |-> x, state |-> "whole"] : x \in s.sets}

\* extractParameterSetsFromDescriptors of the video stream, if there is one
ExtractFromDescriptors(s) == IF s.video = Nothing THEN {} ELSE AVCConfiguration(s)

\* Mutant of ParsePMTWithExtractor: a section that was parsed does not close the tables
ParsePMTAgain(s) ==
  IF s.defect # "none"
  THEN offered' = {} /\ UNCHANGED <<pmtParsed, videoPID, audioPID>>
  ELSE /\ offered' = ExtractFromDescriptors(s)
       /\ videoPID' = FirstOf(videoPID, s.video, s)
       /\ audioPID' = FirstOf(audioPID, s.audio, s)
       /\ pmtParsed' = FALSE

\* parsePMTWithExtractor.  A section that does not fit its packet is ignored;
\* one whose program info overruns it returns before the streams.
ParsePMTWithExtractor(s) ==
  IF pmtParsed \/ s.defect # "none"
  THEN offered' = {} /\ UNCHANGED <<pmtParsed, videoPID, audioPID>>
  ELSE /\ offered' = ExtractFromDescriptors(s)
       /\ videoPID' = FirstOf(videoPID, s.video, s)
       /\ audioPID' = FirstOf(audioPID, s.audio, s)
       /\ pmtParsed' = TRUE

\* A packet with a program map section: on the known PID, or on one of the
\* common PIDs while no map was parsed.  The comparison with 0x02 that the
\* guess makes is the table ID, which every section here has.
ParseSection(s) ==
  /\ \/ s.pid = pmtPID /\ pmtPID' = pmtPID
     \/ s.pid # pmtPID /\ ~pmtParsed /\ s.pid \in GuessPids /\ pmtPID' = s.pid
  /\ ParsePMTWithExtractor(s)
  /\ UNCHANGED <<patParsed, assembly, wire>>

-----------------------------------------------------------------------------
(* Continuity counters                                                     *)

\* ValidateContinuity of a packet with payload: a repeated counter is taken
\* for a retransmission, and an error moves the state like a success
ValidateContinuity(p, c) ==
  LET last == counter[p]
      good == last = -1 \/ c = (last + 1) % CounterSpace \/ c = last
  IN  /\ contErrors' = IF good THEN contErrors ELSE contErrors + 1
      /\ counter' = [counter EXCEPT ![p] = c]

\* A packet with an adaptation field only repeats the counter and counts an
\* error, without moving the state, when the packet before it was lost.
AdaptationOnly(p) ==
  /\ counter[p] # -1 /\ sentOn[p] > 0
  /\ contErrors < MaxErrors
  /\ contErrors' = IF (sentOn[p] - 1) % CounterSpace = counter[p]
                   THEN contErrors ELSE contErrors + 1
  /\ offered' = {}
  /\ UNCHANGED <<tables, assembly, counter, sentOn, opened, missed, gaps, lossy>>

-----------------------------------------------------------------------------
(* PES assembly.  A payload: [n, whole, opens], n its place in the stream. *)

\* extractParameterSetsFromBitstream over consecutive payloads: a set runs to
\* the next start code, so one that is opened at the end of the data is cut,
\* and one that is opened before goes on with whatever was appended.
ExtractFromBitstream(data) ==
  {[set |-> x, state |-> "whole"] :
      x \in UNION {data[i].whole : i \in DOMAIN data}}
  \cup {[set |-> data[i].opens,
         state |-> IF i = Len(data) THEN "cut"
                   ELSE IF data[i + 1].n = data[i].n + 1 THEN "whole" ELSE "glued"] :
          i \in {j \in DOMAIN data : data[j].opens # Nothing}}

\* ValidatePESStart: an unfinished PES packet makes it fail with the old state
\* in place
ValidatePESStart(p, len) ==
  pes' = IF pes[p].inProgress \/ len > MaxPESSize THEN pes
         ELSE [pes EXCEPT ![p] = [inProgress |-> TRUE, got |-> 1, want |-> len]]

\* extractParameterSetsFromPES: the payload behind the header
ExtractFromPES(p, load) == IF p = videoPID.pid THEN ExtractFromBitstream(<<load>>) ELSE {}

\* parsePESHeader, and what the packet carries behind it
PayloadStart(p, len, load) ==
  /\ ValidatePESStart(p, len)
  /\ pesStarted' = pesStarted \cup {p}
  /\ offered' = ExtractFromPES(p, load)
  /\ UNCHANGED pesBuffer

\* ValidatePESContinuation, as [ok, state]
ValidatePESContinuation(p) ==
  LET st   == pes[p]
      got  == st.got + 1
      over == got > MaxPESSize
      full == st.want > 0 /\ got >= st.want
  IN  IF ~st.inProgress THEN [ok |-> FALSE, state |-> st]
      ELSE [ok    |-> ~over /\ ~(full /\ got > st.want),
            state |-> [st EXCEPT !.got = got, !.inProgress = ~over /\ ~full]]

\* assemblePESPacket
AssemblePESPacket(p, load) ==
  LET v   == ValidatePESContinuation(p)
      buf == Append(pesBuffer[p], load)
  IN  IF p # videoPID.pid \/ p \notin pesStarted
      THEN offered' = {} /\ UNCHANGED assembly
      ELSE /\ pes' = [pes EXCEPT ![p] = v.state]
           /\ IF v.ok /\ v.state.inProgress
              THEN /\ pesBuffer' = [pesBuffer EXCEPT ![p] = buf]
                   /\ pesStarted' = pesStarted
              ELSE /\ pesBuffer' = [pesBuffer EXCEPT ![p] = <<>>]
                   /\ pesStarted' = pesStarted \ {p}
           /\ offered' = IF v.ok /\ Len(buf) > ExtractAbove
                         THEN ExtractFromBitstream(buf) ELSE {}

-----------------------------------------------------------------------------
(* The sender and the link.  A packet that opens a parameter set is        *)
(* followed by a continuation of the same PES packet.                      *)

\* what a lost run does to the count of visible gaps
Gap(p) == IF counter[p] # -1 /\ missed[p] % CounterSpace \notin {0, CounterSpace - 1}
          THEN 1 ELSE 0

SendTS(p, start, opens) ==
  /\ sentOn[p] < MaxSent
  /\ start => opened[p] = Nothing
  /\ sentOn' = [sentOn EXCEPT ![p] = @ + 1]
  /\ opened' = [opened EXCEPT ![p] = opens]

ReceiveTS(p, start, len, whole, opens) ==
  LET load == [n |-> sentOn[p], whole |-> whole, opens |-> opens]
  IN  /\ SendTS(p, start, opens)
      /\ ValidateContinuity(p, sentOn[p] % CounterSpace)
      /\ gaps' = gaps + Gap(p) /\ missed' = [missed EXCEPT ![p] = 0]
      /\ lossy' = lossy
      /\ IF start THEN PayloadStart(p, len, load) ELSE AssemblePESPacket(p, load)
      /\ UNCHANGED tables

LoseTS(p, start, opens) ==
  /\ SendTS(p, start, opens)
  /\ missed' = [missed EXCEPT ![p] = @ + 1] /\ lossy' = TRUE
  /\ offered' = {}
  /\ UNCHANGED <<tables, assembly, counter, contErrors, gaps>>

\* CheckPESTimeouts: nothing arrived for five seconds on an unfinished PES
CheckPESTimeouts(S) ==
  /\ S # {} /\ \A p \in S : pes[p].inProgress
  /\ pes' = [p \in Elementary |->
               IF p \in S THEN [pes[p] EXCEPT !.inProgress = FALSE] ELSE pes[p]]
  /\ pesBuffer' = [p \in Elementary |-> IF p \in S THEN <<>> ELSE pesBuffer[p]]
  /\ pesStarted' = pesStarted \ S
  /\ offered' = {}
  /\ UNCHANGED <<tables, wire>>

TSNext ==
  \/ ParsePAT
  \/ \E s \in Sections : ParseSection(s)
  \/ \E p \in Elementary, len \in PESLengths, x \in {Nothing} \cup ParamSets :
       \E w \in SUBSET (ParamSets \ {x}) : ReceiveTS(p, TRUE, len, w, x)
  \/ \E p \in Elementary, x \in {Nothing} \cup ParamSets :
       \E w \in SUBSET (ParamSets \ {x}) : ReceiveTS(p, FALSE, 0, w, x)
  \/ \E p \in Elementary, x \in {Nothing} \cup ParamSets, st \in BOOLEAN : LoseTS(p, st, x)
  \/ \E p \in Elementary : AdaptationOnly(p)
  \/ \E S \in SUBSET Elementary : CheckPESTimeouts(S)

TSSpec == TSInit /\ [][TSNext]_tsVars

-----------------------------------------------------------------------------
\* Whatever is lost, malformed or timed out, what pesBuffer holds for a PID is
\* part of the one PES assembly the validator has under way for it
\* (parser.go:919, pes.go:104), so the validator's size limit bounds the memory.
AssemblyBounded ==
  \A p \in Elementary : pesBuffer[p] # <<>> =>
    /\ p \in pesStarted /\ pes[p].inProgress
    /\ Len(pesBuffer[p]) < pes[p].got /\ pes[p].got <= MaxPESSize

\* The video and the audio PID come from the same program map, also when maps
\* of several programs are tried by guessing their PID before the association
\* table arrives and moves pmtPID (parser.go:119, :131).
OneProgram ==
  videoPID # NoStream /\ audioPID # NoStream => videoPID.from = audioPID.from

\* The continuity counters notice every gap they can show, and without loss
\* they report none, on every PID and across the counter's wrap.
LossNoticed ==
  /\ contErrors >= gaps
  /\ contErrors > 0 => lossy

\* The demultiplexer over lossy input: bounded assemblies, one program, no
\* detectable gap without an error (parser.go, validation/pes.go, continuity.go),
\* and an alignment in front that recovers from loss (validation/alignment.go).
DemuxSound == AssemblyBounded /\ OneProgram /\ LossNoticed /\ AlignmentSound
=============================================================================
