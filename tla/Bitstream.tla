------------------------------ MODULE Bitstream -----------------------------
(***************************************************************************)
(* The bit-level algorithms the parameter sets are read and rewritten      *)
(* with: BitReader and BitWriter with the exponential Golomb codes         *)
(* (types/h264_parser.go) and the emulation prevention bytes of a NAL unit *)
(* (types/rbsp.go).  The state is the payload under construction; what a   *)
(* writer makes of it is compared with what a reader gets back.            *)
(*                                                                         *)
(* A payload is a sequence of bytes (the escaping) or of bits (the codes). *)
(* Only the values 0 to 3 of a byte matter to the escaping, so 4 stands    *)
(* for every larger one.  An unsigned value has CodeWidth bits: 32 in the  *)
(* code, where the width is built into the types and into the limit of 31  *)
(* leading zeros.                                                          *)
(***************************************************************************)
EXTENDS Integers, Sequences, FiniteSetsExt, SequencesExt

CONSTANTS
  PayloadBytes,  \* byte values tried
  MaxPayload,    \* bytes in a payload
  CodeWidth      \* bits of an unsigned value (32)

ASSUME BitstreamAssumption ==
  /\ PayloadBytes \subseteq Nat
  /\ MaxPayload \in Nat
  /\ CodeWidth \in Nat \ {0, 1}

VARIABLE
  payload        \* the bytes written so far

BitInit == payload = <<>>

WritePayload(b) ==
  /\ Len(payload) < MaxPayload
  /\ payload' = Append(payload, b)

BitNext == \E b \in PayloadBytes : WritePayload(b)

----------------------------------------------------------------------------
(* Emulation prevention.  Both directions walk the bytes with a count of   *)
(* the zeros just seen; a fold carries the output and that count.          *)

NothingYet == [out |-> <<>>, zeros |-> 0]

CountZeros(zeros, b) == IF b = 0 THEN zeros + 1 ELSE 0

\* Mutant of EscapeByte: the inserted byte does not end the run of zeros.
EscapeByteKeepingCount(acc, b) ==
  IF acc.zeros = 2 /\ b <= 3
  THEN [out |-> acc.out \o <<3, b>>, zeros |-> CountZeros(acc.zeros, b)]
  ELSE [out |-> Append(acc.out, b), zeros |-> CountZeros(acc.zeros, b)]

EscapeByte(acc, b) ==
  IF acc.zeros >= 2 /\ b <= 3
  THEN [out |-> acc.out \o <<3, b>>, zeros |-> CountZeros(0, b)]
  ELSE [out |-> Append(acc.out, b), zeros |-> CountZeros(acc.zeros, b)]

AddEmulationPreventionBytes(data) == FoldLeft(EscapeByte, NothingYet, data).out

\* Is the byte at i an escape: two zeros before it (since the last escape),
\* and a byte of at most three, or nothing, after it.
IsEscape(data, i, zeros) ==
  /\ zeros >= 2
  /\ data[i] = 3
  /\ i < Len(data) => data[i + 1] <= 3

UnescapeByte(data, acc, i) ==
  IF IsEscape(data, i, acc.zeros)
  THEN [acc EXCEPT !.zeros = 0]
  ELSE [out |-> Append(acc.out, data[i]), zeros |-> CountZeros(acc.zeros, data[i])]

\* The code refuses an empty input; its callers return it unchanged before.
RemoveEmulationPreventionBytes(data) ==
  FoldLeft(LAMBDA acc, i : UnescapeByte(data, acc, i), NothingYet,
           [i \in 1..Len(data) |-> i]).out

\* ValidateRBSP: no two zeros are followed by a byte of at most three.
ValidateRBSP(data) ==
  \A i \in 1..(Len(data) - 2) : ~(data[i] = 0 /\ data[i + 1] = 0 /\ data[i + 2] <= 3)

----------------------------------------------------------------------------
(* Exponential Golomb codes over bits.  A reader is a position; a failed    *)
(* read is NoValue.                                                         *)

NoValue == -1

\* WriteBits: the n low bits of the value, most significant first.
WriteBits(value, n) == [i \in 1..n |-> (value \div 2^(n - i)) % 2]

ReadBits(bits, pos, n) ==
  IF pos + n > Len(bits) THEN NoValue
  ELSE FoldLeft(LAMBDA acc, b : 2 * acc + b, 0, SubSeq(bits, pos + 1, pos + n))

\* Halvings of v until one is left.
HighestBit(v) == CHOOSE k \in 0..CodeWidth : 2^k <= v /\ v < 2^(k + 1)

\* value + 1 wraps to zero for the largest value, which has no halvings.
WriteUE(value) ==
  IF value = 0 THEN <<1>>
  ELSE LET next == (value + 1) % 2^CodeWidth
           zeros == IF next = 0 THEN 0 ELSE HighestBit(next)
       IN WriteBits(0, zeros) \o WriteBits(next, zeros + 1)

\* Leading zeros from pos on, up to the first one or the end.
LeadingZeros(bits, pos) ==
  Cardinality({i \in (pos + 1)..Len(bits) : \A j \in (pos + 1)..i : bits[j] = 0})

\* The value read and the position after it.
ReadUE(bits, pos) ==
  LET zeros == LeadingZeros(bits, pos)
      rest == pos + zeros + 1
      value == ReadBits(bits, rest, zeros)
  IN IF \/ pos + zeros >= Len(bits)
        \/ zeros > CodeWidth - 1
        \/ value = NoValue
     THEN [value |-> NoValue, pos |-> pos]
     ELSE [value |-> 2^zeros - 1 + value, pos |-> rest + zeros]

\* Signed values: 0, 1, -1, 2, -2, ... in the order of their unsigned code.
SignedCode(value) ==
  (IF value <= 0 THEN -value * 2 ELSE value * 2 - 1) % 2^CodeWidth

FromSignedCode(ue) == IF ue % 2 = 1 THEN (ue + 1) \div 2 ELSE -(ue \div 2)

WriteSE(value) == WriteUE(SignedCode(value))

----------------------------------------------------------------------------
(* Properties. *)

\* What is escaped contains no start code and is read back unchanged, for
\* every payload, the ones that look escaped already and the ones that end
\* in zeros included (AddEmulationPreventionBytes, then
\* RemoveEmulationPreventionBytes).
EscapingLossless(data) ==
  LET escaped == AddEmulationPreventionBytes(data)
  IN /\ RemoveEmulationPreventionBytes(escaped) = data
     /\ \A i \in 1..(Len(escaped) - 2) :
          ~(escaped[i] = 0 /\ escaped[i + 1] = 0 /\ escaped[i + 2] <= 2)
     /\ ValidateRBSP(data) => escaped = data

\* Every value below the largest comes back from its code, whatever bits
\* stand before and after it, and the reader stops right behind it; a
\* signed value comes back too (WriteUE/ReadUE, WriteSE/ReadSE, up to the
\* limit of 31 leading zeros).
CodesExact(data) ==
  LET before == [i \in 1..Len(data) |-> data[i] % 2]
      After(code) == before \o code \o before
      Read(code) == ReadUE(After(code), Len(before))
  IN /\ \A v \in 0..(2^CodeWidth - 2) :
          Read(WriteUE(v)) = [value |-> v, pos |-> Len(before) + Len(WriteUE(v))]
     /\ \A v \in (1 - 2^(CodeWidth - 1))..(2^(CodeWidth - 1) - 1) :
          FromSignedCode(Read(WriteSE(v)).value) = v

RoundTrips(data) == EscapingLossless(data) /\ CodesExact(data)

\* What is written is what is read: every byte added makes a payload that
\* comes back from its escaping, with the codes written after it.
BitsRoundTrip ==
  [][payload' # payload => \A data \in {payload'} : RoundTrips(data)]_payload
============================================================================
