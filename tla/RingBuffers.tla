----------------------------- MODULE RingBuffers -----------------------------
(***************************************************************************)
(* buffer/ring.go and buffer/sized.go.  RingBuffer and                     *)
(* ProperSizedBuffer are the same cyclic array under a mutex with two      *)
(* condition variables, and differ in how they tell full from empty: the   *)
(* first by running totals, the second by leaving one byte free.  Either   *)
(* implements ByteFIFO.  One writer, one reader, callers of Close and, for *)
(* the ring, callers of Reset and Reopen (the pool) run against it; a step *)
(* is a section of mu, or an access to closed outside it.                  *)
(***************************************************************************)
EXTENDS Integers, Sequences

CONSTANTS
  Kinds,       \* subset of {"ring", "sized"}
  RingSize,    \* size, in bytes
  MaxPacket,   \* maxPacketSize of a RingBuffer
  ReadSizes,   \* lengths of the slices given to Read
  MaxWritten,  \* bound: bytes written
  MaxResets,   \* bound: calls of Reset
  MaxClosers   \* bound: calls of Close under way at once

ASSUME RingAssumption ==
  /\ Kinds \subseteq {"ring", "sized"} /\ RingSize \in Nat \ {0, 1}
  /\ MaxPacket \in Nat /\ ReadSizes \subseteq Nat \ {0} /\ MaxWritten \in Nat
  /\ MaxResets \in Nat /\ MaxClosers \in Nat

VARIABLES
  kind, cells, writePos, readPos, written, readTotal,
  shut,       \* closed
  closers,    \* calls of Close between their compare-and-swap and their broadcast
  ringWriter, \* 0, or the length of the slice of a Write past its first look
  reader,     \* [at, want]: "out", "lock", "waiting"
  base,       \* history: the bytes written before the last Reset
  resets      \* history: calls of Reset

array == <<kind, cells, writePos, readPos, written, readTotal, base, resets>>
ringVars == <<array, shut, closers, ringWriter, reader>>

Outside == [at |-> "out", want |-> 0]

RingInit ==
  /\ kind \in Kinds
  /\ cells = [i \in 0..(RingSize - 1) |-> 0]
  /\ writePos = 0 /\ readPos = 0 /\ written = 0 /\ readTotal = 0
  /\ shut = FALSE /\ closers = 0 /\ ringWriter = 0 /\ reader = Outside
  /\ base = 0 /\ resets = 0

-----------------------------------------------------------------------------
(* The array                                                               *)

\* bytes a reader of the sized buffer finds, from the positions
SizedAvailable ==
  IF writePos >= readPos THEN writePos - readPos ELSE RingSize - readPos + writePos

\* and of the ring, from the totals
Available == IF kind = "ring" THEN written - readTotal ELSE SizedAvailable

\* room for a writer: the sized buffer leaves one byte free, or full would
\* look like empty
RoomLeft == IF kind = "ring" THEN RingSize - Available
            ELSE IF writePos >= readPos THEN RingSize - writePos + readPos - 1
                 ELSE readPos - writePos - 1

\* The next n bytes written from writePos on, in at most two pieces.  Bytes are
\* numbered through all resets.
CopyIn(n) ==
  [i \in DOMAIN cells |->
     LET k == (i - writePos) % RingSize IN IF k < n THEN base + written + k + 1 ELSE cells[i]]

\* n bytes from pos on, in at most two pieces
CopyOut(pos, n) == [i \in 1..n |-> cells[(pos + i - 1) % RingSize]]

\* GetPreview of n bytes of the sized buffer: back from writePos, but not
\* beyond readPos
SizedPreview(n) ==
  LET m == IF n > SizedAvailable THEN SizedAvailable ELSE n
      start == IF writePos < m THEN writePos - m + RingSize ELSE writePos - m
      before == /\ start < readPos
                /\ writePos >= readPos \/ start >= writePos
  IN  IF before THEN CopyOut(readPos, SizedAvailable) ELSE CopyOut(start, m)

\* GetPreview of n bytes: the newest ones that are still unread
GetPreview(n) ==
  LET m == IF n > Available THEN Available ELSE n
  IN  IF kind = "ring"
      THEN CopyOut((readPos + (written - m - readTotal)) % RingSize, m)
      ELSE SizedPreview(n)

\* GetHotData, with n the bytes of two seconds
GetHotData(n) ==
  LET total == written - readTotal
  IN  IF total < n THEN CopyOut(readPos, total)
      ELSE CopyOut(IF writePos < n THEN writePos - n + RingSize ELSE writePos - n, n)

-----------------------------------------------------------------------------
(* Write, Read, Close, Reset, Reopen                                       *)

WriteEnter(n) ==
  /\ ringWriter = 0 /\ ~shut /\ base + written + n <= MaxWritten
  /\ kind = "ring" => n <= MaxPacket
  /\ ringWriter' = n
  /\ UNCHANGED <<array, shut, closers, reader>>

Wake == reader' = IF reader.at = "waiting" THEN [reader EXCEPT !.at = "lock"] ELSE reader

\* The whole slice or nothing; Broadcast on readCond.  Close may have come in
\* between, and is not looked at again.
WriteLocked ==
  /\ ringWriter > 0
  /\ ringWriter' = 0
  /\ IF RoomLeft < ringWriter
     THEN UNCHANGED <<cells, writePos, written, reader>>
     ELSE /\ cells' = CopyIn(ringWriter)
          /\ writePos' = (writePos + ringWriter) % RingSize
          /\ written' = written + ringWriter
          /\ Wake
  /\ UNCHANGED <<kind, readPos, readTotal, base, resets, shut, closers>>

\* The look at closed and at the two totals, without the mutex: between the two
\* a Reset may make an empty ring look as if it held bytes.
ReadEnter(n) ==
  /\ reader.at = "out"
  /\ shut /\ Available = 0 => resets > 0
  /\ reader' = [at |-> "lock", want |-> n]
  /\ UNCHANGED <<array, shut, closers, ringWriter>>

\* with the mutex: wait, give up on a closed empty buffer, or read
ReadLocked ==
  LET n == IF reader.want > Available THEN Available ELSE reader.want
  IN  /\ reader.at = "lock"
      /\ IF Available = 0
         THEN /\ reader' = IF shut THEN Outside ELSE [reader EXCEPT !.at = "waiting"]
              /\ UNCHANGED <<readPos, readTotal>>
         ELSE /\ readPos' = (readPos + n) % RingSize
              /\ readTotal' = readTotal + n
              /\ reader' = Outside
      /\ UNCHANGED <<kind, cells, writePos, written, base, resets, shut, closers, ringWriter>>

\* ReadTimeout: past the deadline it returns ErrTimeout, data or no data
ReadTimesOut ==
  /\ kind = "ring" /\ reader.at = "waiting"
  /\ reader' = Outside
  /\ UNCHANGED <<array, shut, closers, ringWriter>>

\* Close: the compare-and-swap on closed, outside the mutex
RingCloseMark ==
  /\ ~shut /\ closers < MaxClosers
  /\ shut' = TRUE /\ closers' = closers + 1
  /\ UNCHANGED <<array, ringWriter, reader>>

\* Mutant of CloseTell: nobody is woken.
CloseSilently ==
  /\ closers > 0
  /\ closers' = closers - 1
  /\ UNCHANGED <<array, shut, ringWriter, reader>>

\* then both broadcasts under the mutex; a sized buffer returns its memory
CloseTell ==
  /\ closers > 0
  /\ closers' = closers - 1
  /\ Wake
  /\ UNCHANGED <<array, shut, ringWriter>>

\* Reset of a ring: positions and totals, but neither the cells nor closed, and
\* nobody is woken.
RingReset ==
  /\ kind = "ring" /\ resets < MaxResets
  /\ writePos' = 0 /\ readPos' = 0 /\ written' = 0 /\ readTotal' = 0
  /\ base' = base + written /\ resets' = resets + 1
  /\ UNCHANGED <<kind, cells, shut, closers, ringWriter, reader>>

\* Reopen of a ring, outside the mutex; a Close may still have to broadcast
RingReopen ==
  /\ kind = "ring" /\ shut
  /\ shut' = FALSE
  /\ UNCHANGED <<array, closers, ringWriter, reader>>

-----------------------------------------------------------------------------
RingStep == WriteLocked \/ ReadLocked \/ CloseTell

RingNext ==
  \/ \E n \in 1..MaxWritten : WriteEnter(n)
  \/ \E n \in ReadSizes : ReadEnter(n)
  \/ RingStep
  \/ ReadTimesOut
  \/ RingCloseMark
  \/ RingReset
  \/ RingReopen

\* whoever holds or waits for the mutex gets on
RingFairness == WF_ringVars(ReadLocked) /\ WF_ringVars(CloseTell)

RingSpec == RingInit /\ [][RingNext]_ringVars /\ RingFairness

-----------------------------------------------------------------------------
FIFO == INSTANCE ByteFIFO WITH
  Room    <- RingSize,
  inside  <- CopyOut(readPos, Available),
  taken   <- base + readTotal,
  cleared <- resets

\* Both buffers are a FIFO of bytes: whatever the reader and the writer do, and
\* also when the positions wrap, the array is full or the pool resets and
\* reopens a ring somebody still uses, the bytes accepted come out once and in
\* order, none is lost but by a Reset, and a Reset leaves nothing of what was
\* there before it (ring.go:142, :284, sized.go:145).
BuffersAreFIFO == FIFO!FSpec

\* GetPreview and GetHotData return the newest unread bytes, across the wrap of
\* the positions and however full the buffer is (ring.go:357, sized.go:215, :297).
PreviewIsNewest ==
  \A n \in 1..RingSize :
    LET m == IF n > written - readTotal THEN written - readTotal ELSE n
        newest == [i \in 1..m |-> base + written - m + i]
    IN  GetPreview(n) = newest /\ (kind = "sized" /\ n < RingSize => GetHotData(n) = newest)

\* Close lets a reader go (ring.go:255): although closed is set outside the
\* mutex, every Read of a closed buffer returns, unless the buffer is reopened
\* first.  A reader that Close has woken but that gets the mutex only after a
\* Reset and a Reopen (pool.go:59-60) sleeps on, for the buffer's next stream.
CloseWakesReader == shut ~> (reader.at = "out" \/ ~shut)

\* What the two buffers promise their streams: a FIFO, a preview of the newest
\* bytes, and a reader that is not left behind by Close.
RingsServe == BuffersAreFIFO /\ []PreviewIsNewest /\ CloseWakesReader
=============================================================================
