------------------------------ MODULE Alignment ------------------------------
(***************************************************************************)
(* From SRT messages to whole transport packets: the AlignmentValidator in *)
(* front of the parser (validation/alignment.go, processMessage of         *)
(* srt_connection_adapter.go).                                             *)
(*                                                                         *)
(* A byte is its position in the sender's stream; a packet starts at every *)
(* multiple of TSSize with a sync byte.  A payload byte may look like one. *)
(* The sender cuts its stream into messages as it likes, a receiver may    *)
(* join in the middle of a packet, and a message that comes too late is    *)
(* dropped by SRT.  The validator belongs to the goroutine that reads.     *)
(***************************************************************************)
EXTENDS Integers, Sequences, FiniteSets, FiniteSetsExt

CONSTANTS
  TSSize,       \* bytes of a transport packet (188)
  MessageSizes, \* bytes of a message
  Lookalikes,   \* sets of positions of payload bytes with the value 0x47
  MaxStream,    \* bound on the sender's stream
  MaxDropped    \* bound on the dropped messages

ASSUME AlignmentAssumption ==
  /\ TSSize \in Nat \ {0, 1} /\ MessageSizes \subseteq Nat \ {0}
  /\ \A s \in Lookalikes : s \subseteq Nat
  /\ MaxStream \in Nat /\ MaxDropped \in Nat

VARIABLES
  syncLike,     \* the payload bytes that look like a sync byte
  joined,       \* where the receiver joined the stream
  streamPos,    \* where the sender's stream stands
  partial,      \* partialPacketBuffer; not empty when hasPartialPacket
  alignedBytes, \* what was handed to the parser until a message was dropped
  skipped,      \* packets whole in the last message that the parser did not get
  calm,         \* messages of a packet or more since a shorter or dropped one
  lostCount     \* dropped messages

alignVars ==
  <<syncLike, joined, streamPos, partial, alignedBytes, skipped, calm, lostCount>>

AlignInit ==
  /\ syncLike \in Lookalikes
  /\ joined \in 0..(TSSize - 1) /\ streamPos = joined
  /\ partial = <<>> /\ alignedBytes = <<>> /\ skipped = {} /\ calm = 2 /\ lostCount = 0

-----------------------------------------------------------------------------
\* The bytes of the stream from position a up to, but not including, b.
Stretch(a, b) == [i \in 1..(b - a) |-> a + i - 1]

SyncByte(b) == b % TSSize = 0 \/ b \in syncLike

\* The first sync byte that is followed by another one a packet later, or
\* for which that cannot be told; 0 when there is none.
FindSyncByte(data) ==
  LET found == {i \in DOMAIN data :
                  SyncByte(data[i]) /\ (i + TSSize \in DOMAIN data => SyncByte(data[i + TSSize]))}
  IN  IF found = {} THEN 0 ELSE Min(found)

\* The bytes left over come first; what is left of them goes into the buffer.
ProcessWithAlignment(data) ==
  LET all == partial \o data
      at  == IF SyncByte(all[1]) THEN 1 ELSE FindSyncByte(all)
      cut == SubSeq(all, at, Len(all))
      complete == (Len(cut) \div TSSize) * TSSize
  IN  IF at = 0 THEN [aligned |-> <<>>, rest |-> all]
      ELSE [aligned |-> SubSeq(cut, 1, complete),
            rest    |-> SubSeq(cut, complete + 1, Len(cut))]

\* The pieces the parser cuts: ParseWithExtractor steps by TSSize and skips a
\* piece that does not start with a sync byte.
Parsed(aligned) ==
  LET piece(k) == SubSeq(aligned, k * TSSize + 1, (k + 1) * TSSize)
  IN  {p \in {piece(k) : k \in 0..(Len(aligned) \div TSSize - 1)} : SyncByte(p[1])}

ProcessMessage(n) ==
  LET done == ProcessWithAlignment(Stretch(streamPos, streamPos + n))
      inside == {k \in (streamPos \div TSSize)..((streamPos + n) \div TSSize) :
                   k * TSSize >= streamPos /\ (k + 1) * TSSize <= streamPos + n}
  IN  /\ streamPos + n <= MaxStream
      /\ streamPos' = streamPos + n
      /\ partial' = done.rest
      /\ alignedBytes' = IF lostCount = 0 THEN alignedBytes \o done.aligned ELSE <<>>
      /\ skipped' = {k \in inside :
                      Stretch(k * TSSize, (k + 1) * TSSize) \notin Parsed(done.aligned)}
      /\ calm' = IF n < TSSize THEN 0 ELSE IF calm < 3 THEN calm + 1 ELSE calm
      /\ UNCHANGED <<syncLike, joined, lostCount>>

\* SRT gives up a message that would be delivered too late.
DropMessage(n) ==
  /\ lostCount < MaxDropped /\ streamPos + n <= MaxStream
  /\ streamPos' = streamPos + n /\ lostCount' = lostCount + 1
  /\ alignedBytes' = <<>> /\ skipped' = {} /\ calm' = 0
  /\ UNCHANGED <<syncLike, joined, partial>>

AlignNext == \E n \in MessageSizes : ProcessMessage(n) \/ DropMessage(n)

AlignSpec == AlignInit /\ [][AlignNext]_alignVars

-----------------------------------------------------------------------------
\* However the stream is cut into messages: until one is dropped the parser
\* gets every byte from the first packet boundary on, in order and aligned,
\* and less than a packet is kept back (alignment.go:67, :98).  A receiver that
\* joins inside a packet may take a payload byte for the boundary.
CutsAreSeamless ==
  (lostCount = 0 /\ (joined = 0 \/ syncLike = {})) =>
    LET first == IF joined = 0 THEN 0 ELSE TSSize
    IN  \/ streamPos <= first /\ alignedBytes = <<>> /\ partial = Stretch(joined, streamPos)
        \/ /\ alignedBytes \o partial = Stretch(first, streamPos)
           /\ Len(alignedBytes) % TSSize = 0 /\ Len(partial) < TSSize

\* A dropped message costs the packets of the message after it, not more: the
\* cut may then be off by some bytes, but the next message brings the sync
\* byte back (alignment.go:79, :128), unless a payload byte is taken for one.
LossHeals == syncLike = {} /\ calm >= 2 => skipped = {}

\* What is kept back without a sync byte grows by less than a packet for each
\* dropped message (alignment.go:83).
PartialBounded == Len(partial) < (lostCount + 1) * TSSize

\* Cutting is seamless, loss heals, the buffer stays small.
AlignmentSound == CutsAreSeamless /\ LossHeals /\ PartialBounded
=============================================================================
