---------------------------- MODULE Depacketizer ----------------------------
(***************************************************************************)
(* codec/*_depacketizer.go: the four depacketizers, each as a function of  *)
(* its state and a packet, fed by a network that loses, repeats, reorders  *)
(* and damages packets.  A packet carries one unit, several units, a part  *)
(* of one, or (AV1) a part of one and other units; payload bytes are the   *)
(* pairs <<unit, part>>, so that what comes out can be compared with what  *)
(* the sender put in.  Depacketize is called from one goroutine per        *)
(* session and is one step.                                                *)
(***************************************************************************)
EXTENDS Naturals, FiniteSets, Sequences, SequencesExt

CONSTANTS
  Codecs,     \* codecs of the instance, subset of {"h264","hevc","av1","jpegxs"}
  DepPackets,    \* what the sender sends: a sequence of packets, see PacketType
  SeqSpace,     \* 2^16
  Delimiters, \* the payloads that read as an AV1 temporal delimiter
  DepFirstSeq,   \* sequence number of the first packet
  MaxParts,   \* MaxNALUnitSize, in parts
  MaxBundled, \* maxNALUnits of a STAP-A, 100
  MaxCopies   \* bound: deliveries of the one packet the network repeats

\* kind: "plain" (one unit), "bundle" (aggregation of units), "part" (FU, OBU
\* fragment), "mixed" (AV1: Z or Y is set and W is not 1, so that the payload has
\* length fields and maybe other OBUs).  Packets linked by parts of units make a
\* run, of which this is packet number part of parts.  new: first packet of a
\* temporal unit (AV1's N bit)
PacketType == [kind : {"plain", "bundle", "part", "mixed"}, units : Seq(Nat),
               part : Nat, parts : Nat, new : BOOLEAN]

\* The sender is a correct packetizer: a unit is sent in one packet or in parts
\* that follow each other, and in as many whenever it is sent.
WellSent(p) ==
  LET this == DepPackets[p]
      last == DepPackets[p - 1]
  IN  /\ this.part \in 1..this.parts
      /\ this.kind \in {"plain", "part"} => Len(this.units) = 1
      /\ this.kind = "mixed" => Len(this.units) > 0
      /\ this.kind \in {"plain", "bundle"} => this.parts = 1
      /\ this.part > 1 => /\ p > 1 /\ last.kind \in {"part", "mixed"}
                         /\ last.units[Len(last.units)] = this.units[1]
                         /\ last.part = this.part - 1 /\ last.parts = this.parts
      /\ \A q \in DOMAIN DepPackets :
           ToSet(this.units) \cap ToSet(DepPackets[q].units) # {} => DepPackets[q].parts = this.parts

ASSUME DepacketizerAssumption ==
  /\ Codecs \subseteq {"h264", "hevc", "av1", "jpegxs"}
  /\ DepPackets \in Seq(PacketType) /\ \A p \in DOMAIN DepPackets : WellSent(p)
  /\ SeqSpace \in Nat /\ Len(DepPackets) + 1 < SeqSpace /\ DepFirstSeq \in 0..(SeqSpace - 1)
  /\ MaxParts \in Nat \ {0} /\ MaxBundled \in Nat /\ MaxCopies \in Nat

VARIABLES
  codec,     \* the session's codec
  dep,       \* the depacketizer
  delivered,       \* network: how often each packet was delivered
  output,    \* history: all units handed to the NAL callback
  inOrder    \* history: number of packets that came in order, undamaged and
             \* within the depacketizer's limits; -1 once one did not

depVars == <<codec, dep, delivered, output, inOrder>>

Positions == DOMAIN DepPackets
Seqno(p)  == (DepFirstSeq + p - 1) % SeqSpace
Starts(p) == DepPackets[p].part = 1
Ends(p)   == DepPackets[p].part = DepPackets[p].parts
Fragment(p) == DepPackets[p].kind \in {"part", "mixed"}
UnitOf(p) == DepPackets[p].units[1]
\* The bytes of a fragment.  Those of a mixed packet are no part of a unit, and
\* there are none when the payload ends behind its header.
Chunk(p) == <<UnitOf(p), IF DepPackets[p].kind = "mixed" THEN DepPackets[p].parts + 1
                         ELSE DepPackets[p].part>>
NoBytes(p) == <<UnitOf(p), 0>>
Data(p, damage) == IF damage = "empty" THEN NoBytes(p) ELSE Chunk(p)
Size(frags) == Cardinality({i \in DOMAIN frags : frags[i][2] # 0})
\* the units of a plain or bundle packet, each in one part
Contained(p) == [i \in 1..Len(DepPackets[p].units) |-> <<<<DepPackets[p].units[i], 1>>>>]
Follows(s, last) == s = (last + 1) % SeqSpace

\* fragments, lastSeq, hasLastSeq, temporalUnitBuf, currentFrameID.
\* fuInProgress and fragmentedOBU hold exactly while there are fragments.  A
\* fragment without data that was passed over while fragments are held stays in
\* frags as NoBytes, so that it shows what the bytes in hand came from.
NewDepacketizer == [frags |-> <<>>, lastSeq |-> 0, seen |-> FALSE,
                    buffered |-> <<>>, frame |-> 0]

Result(d, o) == [d |-> d, out |-> o]
DropFragments(d) == [d EXCEPT !.frags = <<>>]
PassOver(d, p) == [d EXCEPT !.frags = IF @ = <<>> THEN @ ELSE Append(@, NoBytes(p))]

-----------------------------------------------------------------------------
(* H.264 and HEVC                                                          *)

\* Mutant of Continue: a gap in the sequence numbers is tolerated
ContinueTolerant(d, last, p, damage) ==
  LET frags == Append(d.frags, Data(p, damage))
  IN  IF d.frags = <<>> THEN Result(d, <<>>)
      ELSE IF Ends(p) THEN Result(DropFragments(d), <<frags>>)
                      ELSE Result([d EXCEPT !.frags = frags], <<>>)

\* A fragment that is not the first: it must follow the one before it
Continue(d, last, p, damage) ==
  LET frags == Append(d.frags, Data(p, damage))
  IN  CASE d.frags = <<>> \/ Seqno(p) = last -> Result(d, <<>>)
        [] d.frags # <<>> /\ Seqno(p) # last ->
             IF ~Follows(Seqno(p), last) \/ Size(frags) > MaxParts
             THEN Result(DropFragments(d), <<>>)
             ELSE IF Ends(p) THEN Result(DropFragments(d), <<frags>>)
                             ELSE Result([d EXCEPT !.frags = frags], <<>>)

\* A fragment cut short (broken: before the end of its header, empty: behind it)
\* is passed over, and lastSeq moves on.  A unit in a single fragment (S and E
\* both set) breaks the RFC and is taken nevertheless.  Fragments older than the
\* timeout are forgotten.
HandleFUA(d, p, damage, expired) ==
  LET moved  == [d EXCEPT !.lastSeq = Seqno(p)]
      kept   == IF expired THEN DropFragments(moved) ELSE moved
      single == Starts(p) /\ Ends(p)
  IN  CASE damage = "broken" \/ (damage = "empty" /\ ~single) -> Result(PassOver(moved, p), <<>>)
        [] damage # "broken" /\ single -> Result(moved, <<<<Data(p, damage)>>>>)
        [] damage = "none" /\ Starts(p) /\ ~Ends(p) -> Result([moved EXCEPT !.frags = <<Chunk(p)>>], <<>>)
        [] damage = "none" /\ ~Starts(p) -> Continue(kept, d.lastSeq, p, damage)

\* STAP-A: every NAL unit in it, and an error if they are too many
HandleSTAPA(p) == Contained(p)
TooManyUnits(p) == DepPackets[p].kind = "bundle" /\ Len(DepPackets[p].units) >= MaxBundled

\* A damaged packet that is no fragment (forbidden bit, reserved or unsupported
\* type, truncated aggregation) is an error and leaves lastSeq alone.
DepacketizeH264(d, p, damage, expired) ==
  CASE Fragment(p) -> HandleFUA(d, p, damage, expired)
    [] ~Fragment(p) /\ (damage # "none" \/ TooManyUnits(p)) -> Result(d, <<>>)
    [] ~Fragment(p) /\ damage = "none" /\ ~TooManyUnits(p) ->
         Result([d EXCEPT !.lastSeq = Seqno(p)], HandleSTAPA(p))

\* HEVC ignores a unit in a single fragment, knows no timeout and takes a fragment
\* without data for one.
HandleFragmentationUnit(d, p, damage) ==
  LET moved == [d EXCEPT !.lastSeq = Seqno(p)]
  IN  CASE damage = "broken" -> Result(PassOver(moved, p), <<>>)
        [] damage # "broken" /\ Starts(p) /\ Ends(p) -> Result(moved, <<>>)
        [] damage # "broken" /\ Starts(p) /\ ~Ends(p) ->
             Result([moved EXCEPT !.frags = <<Data(p, damage)>>], <<>>)
        [] damage # "broken" /\ ~Starts(p) -> Continue(moved, d.lastSeq, p, damage)

HandleAggregationPacket(p) == Contained(p)

DepacketizeHEVC(d, p, damage) ==
  CASE Fragment(p) -> HandleFragmentationUnit(d, p, damage)
    [] ~Fragment(p) /\ damage # "none" -> Result(d, <<>>)
    [] ~Fragment(p) /\ damage = "none" ->
         Result([d EXCEPT !.lastSeq = Seqno(p)], HandleAggregationPacket(p))

-----------------------------------------------------------------------------
(* AV1: complete OBUs wait in the temporal-unit buffer until the N bit of a *)
(* later packet flushes them.  A packet with Z or Y is a fragment with all it *)
(* holds: W is not looked at.                                              *)

ReceiveOBU(d, p, damage) ==
  LET flushed == IF DepPackets[p].new THEN d.buffered ELSE <<>>
      b == [d EXCEPT !.buffered = IF DepPackets[p].new THEN <<>> ELSE @]
      frags == Append(d.frags, Data(p, damage))
  IN  CASE ~Fragment(p) ->
             IF damage # "none" THEN Result(b, <<>>)   \* the error discards what was flushed
             ELSE Result([b EXCEPT !.buffered = @ \o Contained(p)], flushed)
        [] Fragment(p) /\ Starts(p) -> Result([b EXCEPT !.frags = <<Data(p, damage)>>], flushed)
        [] Fragment(p) /\ ~Starts(p) ->
             IF b.frags = <<>> THEN Result(b, flushed)
             ELSE IF Size(frags) > MaxParts THEN Result(DropFragments(b), <<>>)
             ELSE IF Ends(p)
             THEN Result([DropFragments(b) EXCEPT !.buffered = Append(@, frags)], flushed)
             ELSE Result([b EXCEPT !.frags = frags], flushed)

\* parseOBUHeader on the first byte there is
IsDelimiter(obu) ==
  \E i \in DOMAIN obu : obu[i] \in Delimiters /\ \A j \in 1..i : obu[j][2] = 0 <=> j < i

\* a temporal delimiter behind other OBUs begins the next temporal unit
SplitAtDelimiter(r) ==
  LET b == r.d.buffered
      at == {i \in 2..Len(b) : IsDelimiter(b[i])}
      i == CHOOSE j \in at : \A k \in at : j <= k
  IN  IF r.d.frags # <<>> \/ at = {} THEN r
      ELSE Result([r.d EXCEPT !.buffered = SubSeq(b, i, Len(b))], r.out \o SubSeq(b, 1, i - 1))

\* A broken fragment has no aggregation header and is an error.
DepacketizeAV1(d, p, damage) ==
  LET lost == d.frags # <<>> /\ ~Follows(Seqno(p), d.lastSeq)
      d1 == [(IF lost THEN DropFragments(d) ELSE d) EXCEPT !.lastSeq = Seqno(p)]
      late == Fragment(p) /\ ~Starts(p)   \* a continuation that leads nowhere
      received == ReceiveOBU(d1, p, damage)
  IN  IF Fragment(p) /\ damage = "broken" THEN Result(d, <<>>)
      ELSE IF lost /\ late THEN Result(d1, <<>>)
      ELSE IF damage = "broken" \/ (late /\ d1.frags = <<>>) THEN received
      ELSE SplitAtDelimiter(received)

-----------------------------------------------------------------------------
(* JPEG XS: a frame is a unit, every packet is a part of one.  A broken     *)
(* packet has an unreadable header; one without data is an error too, but   *)
(* only after lastSeq, the frame and the fragments were brought up to date. *)

\* The fragments as one frame, unless that is larger than a frame may be.
AssembleFrame(frags) == IF Size(frags) > MaxParts THEN <<>> ELSE <<frags>>

DepacketizeJPEGXS(d, p, damage) ==
  LET lost  == d.seen /\ ~Follows(Seqno(p), d.lastSeq)
      first == Starts(p) \/ UnitOf(p) # d.frame
      d1 == [(IF lost \/ first THEN DropFragments(d) ELSE d) EXCEPT
               !.lastSeq = Seqno(p), !.seen = TRUE,
               !.frame = IF first THEN UnitOf(p) ELSE @]
      frags == Append(d1.frags, Chunk(p))
  IN  IF damage = "broken" THEN Result(d, <<>>)
      ELSE IF lost /\ ~first THEN Result(d1, <<>>)
      ELSE IF damage = "empty" THEN Result(PassOver(d1, p), <<>>)
      ELSE IF ~Ends(p) THEN Result([d1 EXCEPT !.frags = frags], <<>>)
      ELSE Result(DropFragments(d1), AssembleFrame(frags))

-----------------------------------------------------------------------------
DepInit ==
  /\ codec \in Codecs
  /\ dep = NewDepacketizer
  /\ delivered = [p \in Positions |-> 0]
  /\ output = <<>> /\ inOrder = 0

Depacketize(c, d, p, damage, expired) ==
  CASE c = "h264" -> DepacketizeH264(d, p, damage, expired)
    [] c = "hevc" -> DepacketizeHEVC(d, p, damage)
    [] c = "av1" -> DepacketizeAV1(d, p, damage)
    [] c = "jpegxs" -> DepacketizeJPEGXS(d, p, damage)

\* A packet the depacketizer can make what it should of: a run of parts is a unit
\* of a size that may be, and a STAP-A has fewer units than its limit.
InLimits(c, p) ==
  /\ Fragment(p) => DepPackets[p].kind = "part" /\ DepPackets[p].parts \in 2..MaxParts
  /\ c = "h264" => ~TooManyUnits(p)

\* processBufferedPacket: packet p reaches the depacketizer
ReceivePacket(p, damage, expired) ==
  LET r == Depacketize(codec, dep, p, damage, expired)
  IN  /\ delivered[p] = 0 \/ (delivered[p] < MaxCopies /\ \A q \in Positions \ {p} : delivered[q] <= 1)
      /\ DepPackets[p].kind = "bundle" => codec # "jpegxs"
      /\ DepPackets[p].kind = "mixed" => codec = "av1"
      /\ damage = "empty" => Fragment(p) \/ codec = "jpegxs"
      /\ expired => codec = "h264" /\ dep.frags # <<>>
      /\ delivered' = [delivered EXCEPT ![p] = @ + 1]
      /\ dep' = r.d
      /\ output' = output \o r.out
      /\ inOrder' = IF p = inOrder + 1 /\ damage = "none" /\ ~expired /\ InLimits(codec, p)
                    THEN p ELSE -1
      /\ UNCHANGED codec

\* Reset
ResetDepacketizer ==
  /\ dep.frags # <<>> \/ dep.buffered # <<>>
  /\ dep' = [NewDepacketizer EXCEPT !.lastSeq = IF codec = "h264" THEN dep.lastSeq ELSE 0]
  /\ inOrder' = -1
  /\ UNCHANGED <<codec, delivered, output>>

DepNext ==
  \/ \E p \in Positions : ReceivePacket(p, "none", FALSE)
  \/ \E p \in Positions : ReceivePacket(p, "broken", FALSE)
  \/ \E p \in Positions : ReceivePacket(p, "empty", FALSE)
  \/ \E p \in Positions : ReceivePacket(p, "none", TRUE)
  \/ ResetDepacketizer

DepSpec == DepInit /\ [][DepNext]_depVars

-----------------------------------------------------------------------------
SentUnits == UNION {ToSet(DepPackets[p].units) : p \in Positions}
PartsOf(u) == DepPackets[CHOOSE p \in Positions : u \in ToSet(DepPackets[p].units)].parts

Promise == INSTANCE Reassembly
  WITH Units <- SentUnits, Parts <- PartsOf,
       handedOn <- output, mayCut <- (codec = "jpegxs")

\* Whatever the network does, the depacketizers implement Reassembly: a unit
\* handed on is whole, never one with a hole or with pieces of two
\* (h264_depacketizer.go:229), unless a fragment without data or a mixed packet
\* went into this very unit.  The former moves lastSeq although it adds nothing
\* (h264_depacketizer.go:81, hevc_depacketizer.go:77, jpegxs_depacketizer.go:79),
\* the latter is taken for a fragment whole (av1_depacketizer.go:90-135).
\* JPEG XS hands on the end of a frame whose beginning was lost
\* (jpegxs_depacketizer.go:87).
Reassembles == Promise!ASpec

\* Nothing is held back or dropped without a reason: as long as the packets come
\* in order, undamaged and within the limits, what was handed on (for AV1: or waits for the end of
\* its temporal unit) is every unit that is complete so far, in order.
CleanIsComplete ==
  LET all  == FlattenSeq([p \in 1..(IF inOrder > 0 THEN inOrder ELSE 0) |->
                            IF Ends(p) THEN DepPackets[p].units ELSE <<>>])
      have == output \o dep.buffered
  IN  inOrder >= 0 => [i \in 1..Len(have) |-> have[i][1][1]] = all

\* Both halves of what a depacketizer is for: nothing wrong comes out, and in the
\* absence of loss nothing is missing.
Depacketizes == Reassembles /\ []CleanIsComplete
=============================================================================
