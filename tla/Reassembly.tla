----------------------------- MODULE Reassembly -----------------------------
(***************************************************************************)
(* What a depacketizer promises its consumer: the units it hands on are    *)
(* units of the sender, whole and with their parts in order.  Where it is  *)
(* allowed to cut, it may leave out a beginning of a unit, never a piece   *)
(* from its middle or its end.  A unit into which something went that is   *)
(* no part of a unit (a packet without data, or with more than a part) is  *)
(* marred, and nothing is promised of it.                                  *)
(***************************************************************************)
EXTENDS Naturals, Sequences

CONSTANTS
  Units,        \* the sender's units
  Parts(_)      \* the number of parts of a unit

VARIABLES
  handedOn,     \* everything handed on so far, a sequence of sequences of parts
  mayCut        \* whether this reassembler may cut

Whole(u) == [i \in 1..Parts(u) |-> <<u, i>>]
EndOf(u, k) == [i \in 1..(Parts(u) - k) |-> <<u, i + k>>]

Marred(e) == \E i \in DOMAIN e : e[i][2] \notin 1..Parts(e[i][1])

Acceptable(e) ==
  \/ Marred(e)
  \/ \E u \in Units : e = Whole(u)
  \/ mayCut /\ \E u \in Units : \E k \in 1..(Parts(u) - 1) : e = EndOf(u, k)

AInit == handedOn = <<>>

HandOn ==
  /\ Len(handedOn') >= Len(handedOn)
  /\ SubSeq(handedOn', 1, Len(handedOn)) = handedOn
  /\ \A i \in (Len(handedOn) + 1)..Len(handedOn') : Acceptable(handedOn'[i])
  /\ UNCHANGED mayCut

ASpec == AInit /\ [][HandOn]_<<handedOn, mayCut>>
=============================================================================
