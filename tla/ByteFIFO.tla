------------------------------ MODULE ByteFIFO ------------------------------
(***************************************************************************)
(* What a byte buffer promises: what is accepted comes out once, in order, *)
(* and no more than Room bytes are inside; only Clear loses bytes, and it  *)
(* loses all that are inside.  Bytes are numbered as they are accepted.    *)
(***************************************************************************)
EXTENDS Integers, Sequences

CONSTANT Room

VARIABLES inside,  \* the bytes that wait to be read
          taken,   \* the bytes read or cleared so far
          cleared  \* how often the buffer was cleared

FInit == inside = <<>> /\ taken = 0 /\ cleared = 0

Accept(n) ==
  /\ Len(inside) + n <= Room
  /\ inside' = inside \o [i \in 1..n |-> taken + Len(inside) + i]
  /\ UNCHANGED <<taken, cleared>>

Take(n) ==
  /\ n <= Len(inside) /\ SubSeq(inside, 1, n) = [i \in 1..n |-> taken + i]
  /\ inside' = SubSeq(inside, n + 1, Len(inside))
  /\ taken' = taken + n
  /\ UNCHANGED cleared

Clear ==
  /\ inside' = <<>>
  /\ taken' = taken + Len(inside)
  /\ cleared' = cleared + 1

FNext == Clear \/ \E n \in 1..Room : Accept(n) \/ Take(n)

FSpec == FInit /\ [][FNext]_<<inside, taken, cleared>>
=============================================================================
