------------------------------- MODULE Lanes -------------------------------
(***************************************************************************)
(* Taking some members of a sequence and adding them up, as recursive      *)
(* functions, so that they can be proved about.                            *)
(***************************************************************************)
EXTENDS Naturals, Sequences

\* The members of s that are in keep, in their order.
Lane(s, keep) ==
  LET taken[i \in 0 .. Len(s)] ==
        IF i = 0 THEN <<>>
        ELSE IF s[i] \in keep THEN Append(taken[i - 1], s[i]) ELSE taken[i - 1]
  IN  taken[Len(s)]

Members(s) == {s[i] : i \in DOMAIN s}

\* The sum of a sequence of numbers.
SumOf(s) ==
  LET sum[i \in 0 .. Len(s)] == IF i = 0 THEN 0 ELSE sum[i - 1] + s[i]
  IN  sum[Len(s)]
=============================================================================
