----------------------------- MODULE CommonLemmas -----------------------------
(***************************************************************************)
(* What the proofs of several components need: induction for a set of good *)
(* numbers, sequences or subsets (a set instead of a predicate, so that    *)
(* its instances are first-order), remainders, and what Lane and SumOf     *)
(* compute.                                                                *)
(***************************************************************************)
EXTENDS Integers, Lanes, Functions, FiniteSetTheorems, SequenceTheorems, WellFoundedInduction, TLAPS

-----------------------------------------------------------------------------
(* Induction                                                               *)

(* A set of naturals has a least element. *)
LEMMA LeastExists ==
  ASSUME NEW T \in SUBSET Nat, T # {}
  PROVE  \E x \in T : \A y \in T : x <= y
<1>1. \E x \in T : \A y \in T : ~(<<y, x>> \in OpToRel(<, Nat))
  BY NatLessThanWellFounded, WFMin
<1>2. ASSUME NEW x \in Nat, NEW y \in Nat, y < x PROVE <<y, x>> \in OpToRel(<, Nat)
  BY <1>2 DEF OpToRel
<1>3. PICK x \in T : \A y \in T : ~(<<y, x>> \in OpToRel(<, Nat))
  BY <1>1
<1>4. ASSUME NEW y \in T PROVE x <= y
  <2>1. x \in Nat /\ y \in Nat
    OBVIOUS
  <2>2. ~(y < x)
    BY <1>2, <1>3, <2>1
  <2>. QED
    BY <2>1, <2>2
<1>. QED
  BY <1>4

(* Induction for a set of good numbers. *)
LEMMA SetInduction ==
  ASSUME NEW Good, 0 \in Good, \A n \in Nat : n \in Good => n + 1 \in Good
  PROVE  \A n \in Nat : n \in Good
<1>. DEFINE Bad == {n \in Nat : n \notin Good}
<1>. SUFFICES ASSUME Bad # {} PROVE FALSE
  OBVIOUS
<1>1. PICK n \in Bad : \A k \in Bad : n <= k
  BY LeastExists
<1>2. n # 0 /\ n \in Nat
  OBVIOUS
<1>3. n - 1 \in Nat /\ n - 1 \notin Bad /\ (n - 1) + 1 = n
  BY <1>1, <1>2
<1>. QED
  BY <1>3

\* Induction over the subsets of a finite set, for a set of good ones.
LEMMA SubsetInduction ==
  ASSUME NEW S, IsFiniteSet(S), NEW Good,
         \A s \in SUBSET S : (\A x \in s : s \ {x} \in Good) => s \in Good
  PROVE  S \in Good
<1> SUFFICES ASSUME S \notin Good PROVE FALSE
  OBVIOUS
<1> DEFINE Bad == {n \in Nat : \E s \in SUBSET S : s \notin Good /\ Cardinality(s) = n}
<1>1. \A s \in SUBSET S : IsFiniteSet(s) /\ Cardinality(s) \in Nat
  BY FS_Subset, FS_CardinalityType
<1>2. Cardinality(S) \in Bad
  BY <1>1
<1>3. PICK n \in Bad : \A k \in Bad : n <= k
  BY <1>2, LeastExists
<1>4. PICK s \in SUBSET S : s \notin Good /\ Cardinality(s) = n
  OBVIOUS
<1>5. ASSUME NEW x \in s PROVE s \ {x} \in Good
  <2>1. Cardinality(s \ {x}) = n - 1 /\ s \ {x} \in SUBSET S /\ Cardinality(s \ {x}) \in Nat
    BY <1>1, <1>4, FS_RemoveElement
  <2>2. s \ {x} \notin Good => Cardinality(s \ {x}) \in Bad
    BY <2>1
  <2>3. n \in Nat /\ ~(n <= n - 1)
    OBVIOUS
  <2> QED
    BY <1>3, <2>1, <2>2, <2>3
<1> QED
  BY <1>4, <1>5

-----------------------------------------------------------------------------
(* Remainders                                                              *)

LEMMA ModRange ==
  ASSUME NEW n \in Nat \ {0}, NEW a \in Int
  PROVE  a % n \in 0..(n - 1) /\ a % n \in Nat
OBVIOUS

\* A multiple of n that is not zero is at least n away from it.
LEMMA TimesApart ==
  ASSUME NEW n \in Nat \ {0}, NEW k \in Int
  PROVE  n * k \in Int /\ (k >= 1 => n * k >= n) /\ (k <= -1 => n * k <= -n)
OBVIOUS

\* Two numbers with one remainder that are less than the modulus apart are equal.
LEMMA ModUnique ==
  ASSUME NEW n \in Nat \ {0}, NEW a \in Int, NEW b \in Int, a % n = b % n,
         a - b < n, b - a < n
  PROVE  a = b
<1> DEFINE q == a \div n
           p == b \div n
           r == a % n
<1>1. a = n * q + r /\ b = n * p + r
  OBVIOUS
<1>2. q \in Int /\ p \in Int /\ r \in Int
  OBVIOUS
<1> HIDE DEF q, p, r
<1>3. n * (q - p) = n * q - n * p
  BY <1>2
<1>4. a - b = n * (q - p)
  BY <1>1, <1>2, <1>3
<1>5. ~(q - p >= 1) /\ ~(q - p <= -1)
  BY <1>2, <1>4, TimesApart
<1>6. q = p
  BY <1>2, <1>5
<1> QED
  BY <1>1, <1>6

\* What a multiple of n leaves over.
LEMMA ModOf ==
  ASSUME NEW n \in Nat \ {0}, NEW c \in Int, NEW r \in 0..(n - 1)
  PROVE  (n * c + r) % n = r
<1> DEFINE a == n * c + r
           q == a \div n
           s == a % n
<1>1. a \in Int /\ a = n * q + s /\ q \in Int /\ s \in 0..(n - 1)
  OBVIOUS
<1>2. n * c + r = n * q + s
  BY <1>1
<1> HIDE DEF a, q, s
<1>3. n * (c - q) = n * c - n * q
  BY <1>1
<1>4. n * (c - q) = s - r
  BY <1>1, <1>2, <1>3
<1>5. ~(c - q >= 1) /\ ~(c - q <= -1)
  BY <1>1, <1>4, TimesApart
<1>6. c = q
  BY <1>1, <1>5
<1> QED
  BY <1>1, <1>2, <1>6 DEF a, s

\* Adding to a remainder is adding to the number.
LEMMA ModAdd ==
  ASSUME NEW n \in Nat \ {0}, NEW a \in Int, NEW b \in Int
  PROVE  ((a % n) + b) % n = (a + b) % n
<1> DEFINE q == a \div n
           r == a % n
           t == (r + b) \div n
           s == (r + b) % n
<1>1. a = n * q + r /\ q \in Int /\ r \in Int
  OBVIOUS
<1>2. r + b = n * t + s /\ t \in Int /\ s \in 0..(n - 1)
  OBVIOUS
<1> HIDE DEF q, r, t, s
<1>3. n * (q + t) = n * q + n * t
  BY <1>1, <1>2
<1>4. a + b = n * (q + t) + s
  BY <1>1, <1>2, <1>3
<1>5. (n * (q + t) + s) % n = s
  <2>1. q + t \in Int
    BY <1>1, <1>2
  <2> QED
    BY <1>2, <2>1, ModOf
<1>6. (a + b) % n = s
  BY <1>4, <1>5
<1> QED
  BY <1>6 DEF r, s

\* A step of at most one modulus shows as itself or less one modulus.
LEMMA ModNear ==
  ASSUME NEW n \in Nat \ {0}, NEW a \in Int, NEW d \in 0..n
  PROVE  (a + d) % n \in {(a % n) + d, (a % n) + d - n}
<1> DEFINE r == a % n
<1>1. r \in 0..(n - 1) /\ (a + d) % n = (r + d) % n
  <2>1. d \in Int
    OBVIOUS
  <2>2. (r + d) % n = (a + d) % n
    BY <2>1, ModAdd
  <2> QED
    BY <2>2, ModRange
<1> HIDE DEF r
<1>2. CASE r + d < n
  <2>1. (n * 0 + (r + d)) % n = r + d
    BY <1>1, <1>2, ModOf
  <2> QED
    BY <1>1, <2>1
<1>3. CASE r + d >= n
  <2>1. (n * 1 + (r + d - n)) % n = r + d - n
    BY <1>1, <1>3, ModOf
  <2>2. n * 1 + (r + d - n) = r + d
    BY <1>1
  <2>3. (r + d) % n = r + d - n
    BY <2>1, <2>2, Zenon
  <2> QED
    BY <1>1, <2>3 DEF r
<1> QED
  BY <1>1, <1>2, <1>3 DEF r

-----------------------------------------------------------------------------
(* Sequences                                                               *)

LEMMA SubSeqIs ==
  ASSUME NEW T, NEW s \in Seq(T), NEW m \in 1..(Len(s) + 1), NEW n \in (m - 1)..Len(s)
  PROVE  /\ SubSeq(s, m, n) \in Seq(T) /\ Len(SubSeq(s, m, n)) = n - m + 1
         /\ \A i \in 1..(n - m + 1) : SubSeq(s, m, n)[i] = s[m + i - 1]
<1>1. m \in Int /\ n \in Int /\ Len(s) \in Nat /\ m >= 1 /\ n <= Len(s) /\ n >= m - 1
  OBVIOUS
<1>2. \A i \in m..n : s[i] \in T
  BY <1>1
<1>3. (IF m <= n THEN n - m + 1 ELSE 0) = n - m + 1
  BY <1>1
<1> QED
  BY <1>1, <1>2, <1>3, SubSeqProperties

-----------------------------------------------------------------------------
(* Lanes                                                                   *)

Take(g, s, keep, i) ==
  IF i = 0 THEN <<>> ELSE IF s[i] \in keep THEN Append(g[i - 1], s[i]) ELSE g[i - 1]

Takes(g, s, keep, n) == g = [i \in 0 .. n |-> Take(g, s, keep, i)]

LEMMA TakesUpTo ==
  ASSUME NEW s, NEW keep, NEW n \in Nat
  PROVE  \E g : g = [i \in 0 .. n |-> Take(g, s, keep, i)]
<1>. DEFINE Good == {k \in Nat : \E g : g = [i \in 0 .. k |-> Take(g, s, keep, i)]}
<1>1. 0 \in Good
  <2>. DEFINE g == [i \in 0 .. 0 |-> <<>>]
  <2>1. g = [i \in 0 .. 0 |-> Take(g, s, keep, i)]
    BY DEF Take
  <2>. QED
    BY <2>1
<1>2. ASSUME NEW k \in Nat, k \in Good PROVE k + 1 \in Good
  <2>1. PICK g : g = [i \in 0 .. k |-> Take(g, s, keep, i)]
    BY <1>2
  <2>. DEFINE h == [i \in 0 .. k + 1 |-> Take(g, s, keep, i)]
  <2>2. \A i \in 0 .. k : h[i] = g[i]
    BY <2>1
  <2>3. ASSUME NEW i \in 0 .. k + 1 PROVE Take(g, s, keep, i) = Take(h, s, keep, i)
    <3>1. i # 0 => i - 1 \in 0 .. k
      OBVIOUS
    <3>. HIDE DEF h
    <3>. QED
      BY <2>2, <3>1 DEF Take
  <2>4. h = [i \in 0 .. k + 1 |-> Take(h, s, keep, i)]
    BY <2>3
  <2>. HIDE DEF h
  <2>. QED
    BY <2>4
<1>. HIDE DEF Good
<1>3. \A k \in Nat : k \in Good
  BY <1>1, <1>2, SetInduction
<1>. QED
  BY <1>3 DEF Good

(* Lane(s, keep) is the last value of a function g that takes one element   *)
(* after the other.                                                         *)
LEMMA LaneIs ==
  ASSUME NEW s, NEW keep, Len(s) \in Nat
  PROVE  \E g : g = [i \in 0 .. Len(s) |-> Take(g, s, keep, i)] /\ Lane(s, keep) = g[Len(s)]
<1>. DEFINE h == CHOOSE g : g = [i \in 0 .. Len(s) |-> Take(g, s, keep, i)]
<1>1. h = [i \in 0 .. Len(s) |-> Take(h, s, keep, i)]
  BY TakesUpTo
<1>2. Lane(s, keep) = h[Len(s)]
  BY DEF Lane, Take
<1>. HIDE DEF h
<1>. QED
  BY <1>1, <1>2

(* Sequences that agree up to n have the same lanes up to n. *)
LEMMA TakesAgree ==
  ASSUME NEW s, NEW t, NEW a, NEW b, NEW n \in Nat, NEW l \in Nat, NEW m \in Nat, n <= l, n <= m,
         NEW g, Takes(g, s, a, l), NEW h, Takes(h, t, b, m),
         \A i \in 1 .. n : s[i] = t[i] /\ (s[i] \in a <=> t[i] \in b)
  PROVE  g[n] = h[n]
<1>. DEFINE Good == {k \in Nat : k <= n => g[k] = h[k]}
<1>1. 0 \in Good
  BY DEF Take, Takes
<1>2. ASSUME NEW k \in Nat, k \in Good PROVE k + 1 \in Good
  <2>. SUFFICES ASSUME k + 1 <= n PROVE g[k + 1] = h[k + 1]
    OBVIOUS
  <2>1. g[k] = h[k] /\ k + 1 \in 0 .. l /\ k + 1 \in 0 .. m /\ k + 1 \in 1 .. n /\ (k + 1) - 1 = k
        /\ k + 1 # 0
    BY <1>2
  <2>2. g[k + 1] = Take(g, s, a, k + 1) /\ h[k + 1] = Take(h, t, b, k + 1)
    BY <2>1 DEF Takes
  <2>3. s[k + 1] = t[k + 1] /\ (s[k + 1] \in a <=> t[k + 1] \in b)
    BY <2>1
  <2>. QED
    BY <2>1, <2>2, <2>3 DEF Take
<1>. HIDE DEF Good
<1>3. n \in Good
  BY <1>1, <1>2, SetInduction
<1>. QED
  BY <1>3 DEF Good

LEMMA LaneSame ==
  ASSUME NEW T, NEW s \in Seq(T), NEW a, NEW b, \A i \in DOMAIN s : s[i] \in a <=> s[i] \in b
  PROVE  Lane(s, a) = Lane(s, b)
<1>0. Len(s) \in Nat /\ DOMAIN s = 1 .. Len(s)
  OBVIOUS
<1>1. PICK g : g = [i \in 0 .. Len(s) |-> Take(g, s, a, i)] /\ Lane(s, a) = g[Len(s)]
  BY <1>0, LaneIs
<1>2. PICK h : h = [i \in 0 .. Len(s) |-> Take(h, s, b, i)] /\ Lane(s, b) = h[Len(s)]
  BY <1>0, LaneIs
<1>3. Takes(g, s, a, Len(s)) /\ Takes(h, s, b, Len(s))
  BY <1>1, <1>2 DEF Takes
<1>4. g[Len(s)] = h[Len(s)]
  <2>1. Len(s) <= Len(s) /\ \A i \in 1 .. Len(s) : s[i] = s[i] /\ (s[i] \in a <=> s[i] \in b)
    BY <1>0
  <2>. QED
    BY <1>0, <1>3, <2>1, TakesAgree
<1>. QED
  BY <1>1, <1>2, <1>4

LEMMA LaneEmpty == ASSUME NEW a PROVE Lane(<<>>, a) = <<>>
<1>0. Len(<<>>) = 0
  OBVIOUS
<1>1. PICK g : g = [i \in 0 .. Len(<<>>) |-> Take(g, <<>>, a, i)] /\ Lane(<<>>, a) = g[Len(<<>>)]
  BY <1>0, LaneIs
<1>. QED
  BY <1>0, <1>1 DEF Take

LEMMA LaneAppend ==
  ASSUME NEW T, NEW s \in Seq(T), NEW x \in T, NEW a
  PROVE  Lane(Append(s, x), a) = IF x \in a THEN Append(Lane(s, a), x) ELSE Lane(s, a)
<1>. DEFINE t == Append(s, x)
           n == Len(s)
<1>0. /\ n \in Nat /\ Len(t) = n + 1 /\ t[n + 1] = x /\ \A i \in 1 .. n : t[i] = s[i]
      /\ t \in Seq(T)
  OBVIOUS
<1>1. PICK g : g = [i \in 0 .. n |-> Take(g, s, a, i)] /\ Lane(s, a) = g[n]
  BY <1>0, LaneIs
<1>. HIDE DEF t, n
<1>2. PICK h : h = [i \in 0 .. n + 1 |-> Take(h, t, a, i)] /\ Lane(t, a) = h[n + 1]
  <2>1. Len(t) \in Nat
    BY <1>0
  <2>2. \E h : h = [i \in 0 .. Len(t) |-> Take(h, t, a, i)] /\ Lane(t, a) = h[Len(t)]
    BY <2>1, LaneIs
  <2>. QED
    BY <1>0, <2>2
<1>3. h[n] = g[n]
  <2>1. n + 1 \in Nat /\ n <= n + 1 /\ n <= n
    BY <1>0
  <2>2. \A i \in 1 .. n : t[i] = s[i] /\ (t[i] \in a <=> s[i] \in a)
    BY <1>0
  <2>3. Takes(h, t, a, n + 1) /\ Takes(g, s, a, n)
    BY <1>1, <1>2 DEF Takes
  <2>. QED
    BY <1>0, <2>1, <2>2, <2>3, TakesAgree
<1>4. h[n + 1] = Take(h, t, a, n + 1)
  <2>1. n + 1 \in 0 .. n + 1
    BY <1>0
  <2>. QED
    BY <1>2, <2>1
<1>5. n + 1 # 0 /\ (n + 1) - 1 = n
  BY <1>0
<1>. QED
  BY <1>0, <1>1, <1>2, <1>3, <1>4, <1>5 DEF Take, t

LEMMA LaneType ==
  ASSUME NEW T, NEW s \in Seq(T), NEW a PROVE Lane(s, a) \in Seq(T)
<1>0. Len(s) \in Nat /\ \A i \in 1 .. Len(s) : s[i] \in T
  OBVIOUS
<1>1. PICK g : g = [i \in 0 .. Len(s) |-> Take(g, s, a, i)] /\ Lane(s, a) = g[Len(s)]
  BY <1>0, LaneIs
<1>. DEFINE Good == {k \in Nat : k <= Len(s) => g[k] \in Seq(T)}
<1>2. 0 \in Good
  BY <1>1 DEF Take
<1>3. ASSUME NEW k \in Nat, k \in Good PROVE k + 1 \in Good
  <2>. SUFFICES ASSUME k + 1 <= Len(s) PROVE g[k + 1] \in Seq(T)
    OBVIOUS
  <2>1. g[k] \in Seq(T) /\ k + 1 \in 0 .. Len(s) /\ k + 1 \in 1 .. Len(s) /\ (k + 1) - 1 = k /\ k + 1 # 0
    BY <1>0, <1>3
  <2>2. g[k + 1] = Take(g, s, a, k + 1)
    BY <1>1, <2>1
  <2>3. s[k + 1] \in T
    BY <1>0, <2>1
  <2>. QED
    BY <2>1, <2>2, <2>3 DEF Take
<1>. HIDE DEF Good
<1>4. Len(s) \in Good
  BY <1>0, <1>2, <1>3, SetInduction
<1>. QED
  BY <1>0, <1>1, <1>4 DEF Good

LEMMA AppendMembers ==
  ASSUME NEW T, NEW s \in Seq(T), NEW x
  PROVE  Members(Append(s, x)) = Members(s) \cup {x}
<1>1. Len(s) \in Nat /\ DOMAIN s = 1 .. Len(s) /\ DOMAIN Append(s, x) = 1 .. Len(s) + 1
  OBVIOUS
<1>2. Append(s, x)[Len(s) + 1] = x /\ \A i \in 1 .. Len(s) : Append(s, x)[i] = s[i]
  OBVIOUS
<1>3. Members(s) \cup {x} \subseteq Members(Append(s, x))
  BY <1>1, <1>2 DEF Members
<1>4. ASSUME NEW i \in 1 .. Len(s) + 1 PROVE Append(s, x)[i] \in Members(s) \cup {x}
  BY <1>1, <1>2 DEF Members
<1>5. Members(Append(s, x)) \subseteq Members(s) \cup {x}
  BY <1>1, <1>4 DEF Members
<1>. QED
  BY <1>3, <1>5

(* Induction along a sequence that grows at its end. *)
LEMMA SeqInduction ==
  ASSUME NEW T, NEW Good, <<>> \in Good,
         \A s \in Seq(T), x \in T : s \in Good => Append(s, x) \in Good
  PROVE  \A s \in Seq(T) : s \in Good
<1> DEFINE Fine == {n \in Nat : \A s \in Seq(T) : Len(s) = n => s \in Good}
<1>1. 0 \in Fine
  <2>1. \A s \in Seq(T) : Len(s) = 0 => s = <<>>
    OBVIOUS
  <2> QED BY <2>1
<1>2. ASSUME NEW n \in Nat, n \in Fine PROVE n + 1 \in Fine
  <2> SUFFICES ASSUME NEW s \in Seq(T), Len(s) = n + 1 PROVE s \in Good
    OBVIOUS
  <2>1. s # <<>>
    BY EmptySeq
  <2>2. PICK t \in Seq(T), x \in T : s = Append(t, x)
    BY <2>1, SequenceEmptyOrAppend
  <2>3. Len(s) = Len(t) + 1 /\ Len(t) \in Nat
    BY <2>2, AppendProperties
  <2>4. Len(t) = n
    BY <2>3
  <2> QED BY <1>2, <2>2, <2>4
<1> HIDE DEF Fine
<1>3. \A n \in Nat : n \in Fine
  BY <1>1, <1>2, SetInduction
<1> QED
  BY <1>3 DEF Fine

LEMMA NoMembers == Members(<<>>) = {}
BY DEF Members

LEMMA LaneMembers ==
  ASSUME NEW T, NEW s \in Seq(T), NEW a
  PROVE  Members(Lane(s, a)) = Members(s) \cap a
<1> DEFINE Good == {q \in Seq(T) : Members(Lane(q, a)) = Members(q) \cap a}
<1>0. <<>> \in Seq(T)
  OBVIOUS
<1>1. <<>> \in Good
  BY <1>0, LaneEmpty, NoMembers
<1>2. ASSUME NEW q \in Seq(T), NEW x \in T, q \in Good PROVE Append(q, x) \in Good
  <2>1. Lane(q, a) \in Seq(T)
    BY LaneType
  <2>2. Members(Append(q, x)) = Members(q) \cup {x}
    BY AppendMembers
  <2>3. Members(Append(Lane(q, a), x)) = Members(Lane(q, a)) \cup {x}
    BY <2>1, AppendMembers
  <2>4. Lane(Append(q, x), a) = IF x \in a THEN Append(Lane(q, a), x) ELSE Lane(q, a)
    BY LaneAppend
  <2>5. Append(q, x) \in Seq(T) /\ Members(Lane(q, a)) = Members(q) \cap a
    BY <1>2
  <2> QED BY <2>2, <2>3, <2>4, <2>5
<1> HIDE DEF Good
<1>3. s \in Good
  BY <1>1, <1>2, SeqInduction
<1> QED BY <1>3 DEF Good

LEMMA LaneOfLane ==
  ASSUME NEW T, NEW s \in Seq(T), NEW a, NEW b
  PROVE  Lane(Lane(s, a), b) = Lane(s, a \cap b)
<1> DEFINE Good == {q \in Seq(T) : Lane(Lane(q, a), b) = Lane(q, a \cap b)}
<1>0. <<>> \in Seq(T)
  OBVIOUS
<1>1. <<>> \in Good
  BY <1>0, LaneEmpty
<1>2. ASSUME NEW q \in Seq(T), NEW x \in T, q \in Good PROVE Append(q, x) \in Good
  <2>1. Lane(q, a) \in Seq(T)
    BY LaneType
  <2>2. Lane(Append(q, x), a \cap b) = IF x \in a \cap b THEN Append(Lane(q, a \cap b), x) ELSE Lane(q, a \cap b)
    BY LaneAppend
  <2>3. Lane(Append(Lane(q, a), x), b) = IF x \in b THEN Append(Lane(Lane(q, a), b), x) ELSE Lane(Lane(q, a), b)
    BY <2>1, LaneAppend
  <2>4. Lane(Append(q, x), a) = IF x \in a THEN Append(Lane(q, a), x) ELSE Lane(q, a)
    BY LaneAppend
  <2>5. Append(q, x) \in Seq(T) /\ Lane(Lane(q, a), b) = Lane(q, a \cap b)
    BY <1>2
  <2>6. x \in a \cap b <=> x \in a /\ x \in b
    OBVIOUS
  <2>7. Lane(Lane(Append(q, x), a), b) = Lane(Append(q, x), a \cap b)
    <3>1. CASE x \in a /\ x \in b
      BY <2>2, <2>3, <2>4, <2>5, <2>6, <3>1, Zenon
    <3>2. CASE x \notin a
      BY <2>2, <2>4, <2>5, <2>6, <3>2, Zenon
    <3>3. CASE x \in a /\ x \notin b
      BY <2>2, <2>3, <2>4, <2>5, <2>6, <3>3, Zenon
    <3> QED BY <3>1, <3>2, <3>3
  <2> QED BY <2>5, <2>7
<1> HIDE DEF Good
<1>3. s \in Good
  BY <1>1, <1>2, SeqInduction
<1> QED BY <1>3 DEF Good

LEMMA LaneCons ==
  ASSUME NEW T, NEW s \in Seq(T), NEW k \in T, NEW a
  PROVE  Lane(<<k>> \o s, a) = IF k \in a THEN <<k>> \o Lane(s, a) ELSE Lane(s, a)
<1> DEFINE Good == {q \in Seq(T) : Lane(<<k>> \o q, a) = IF k \in a THEN <<k>> \o Lane(q, a) ELSE Lane(q, a)}
<1>0. <<>> \in Seq(T) /\ <<k>> \in Seq(T)
  OBVIOUS
<1>1. <<>> \in Good
  <2>1. <<k>> \o <<>> = <<k>> /\ <<k>> = Append(<<>>, k)
    OBVIOUS
  <2>2. Lane(Append(<<>>, k), a) = IF k \in a THEN Append(Lane(<<>>, a), k) ELSE Lane(<<>>, a)
    BY <1>0, LaneAppend
  <2>3. Lane(<<>>, a) = <<>>
    BY LaneEmpty
  <2> QED BY <1>0, <2>1, <2>2, <2>3
<1>2. ASSUME NEW q \in Seq(T), NEW x \in T, q \in Good PROVE Append(q, x) \in Good
  <2> DEFINE kq == <<k>> \o q
             l == Lane(q, a)
  <2>1. l \in Seq(T) /\ kq \in Seq(T) /\ <<x>> \in Seq(T)
    BY <1>0, LaneType, ConcatProperties
  <2>2. \A t \in Seq(T) : <<k>> \o Append(t, x) = Append(<<k>> \o t, x)
    <3> SUFFICES ASSUME NEW t \in Seq(T) PROVE <<k>> \o Append(t, x) = Append(<<k>> \o t, x)
      OBVIOUS
    <3>1. Append(t, x) = t \o <<x>>
      BY AppendIsConcat
    <3>2. <<k>> \o t \in Seq(T)
      BY <1>0, ConcatProperties
    <3>3. Append(<<k>> \o t, x) = (<<k>> \o t) \o <<x>>
      BY <3>2, AppendIsConcat
    <3>4. (<<k>> \o t) \o <<x>> = <<k>> \o (t \o <<x>>)
      BY <1>0, <2>1, ConcatAssociative
    <3> QED BY <3>1, <3>3, <3>4
  <2>3. Lane(Append(kq, x), a) = IF x \in a THEN Append(Lane(kq, a), x) ELSE Lane(kq, a)
    BY <2>1, LaneAppend
  <2>4. Lane(Append(q, x), a) = IF x \in a THEN Append(l, x) ELSE l
    BY LaneAppend
  <2>5. Append(q, x) \in Seq(T) /\ Lane(kq, a) = IF k \in a THEN <<k>> \o l ELSE l
    BY <1>2
  <2>6. <<k>> \o Append(q, x) = Append(kq, x) /\ <<k>> \o Append(l, x) = Append(<<k>> \o l, x)
    BY <2>1, <2>2
  <2> HIDE DEF kq, l
  <2>7. Lane(<<k>> \o Append(q, x), a) = IF k \in a THEN <<k>> \o Lane(Append(q, x), a) ELSE Lane(Append(q, x), a)
    BY <2>3, <2>4, <2>5, <2>6
  <2> QED BY <2>5, <2>7
<1> HIDE DEF Good
<1>3. s \in Good
  BY <1>1, <1>2, SeqInduction
<1> QED BY <1>3 DEF Good

LEMMA ConsMembers ==
  ASSUME NEW T, NEW s \in Seq(T), NEW k \in T
  PROVE  Members(<<k>> \o s) = {k} \cup Members(s)
<1>1. Len(s) \in Nat /\ DOMAIN s = 1 .. Len(s) /\ DOMAIN (<<k>> \o s) = 1 .. Len(s) + 1
  OBVIOUS
<1>2. (<<k>> \o s)[1] = k /\ \A i \in 1 .. Len(s) : (<<k>> \o s)[i + 1] = s[i]
  OBVIOUS
<1>3. 1 \in 1..Len(s) + 1 /\ \A i \in 1 .. Len(s) : i + 1 \in 1 .. Len(s) + 1
  BY <1>1
<1>4. {k} \cup Members(s) \subseteq Members(<<k>> \o s)
  <2>1. k \in Members(<<k>> \o s)
    BY <1>1, <1>2, <1>3 DEF Members
  <2>2. ASSUME NEW i \in 1 .. Len(s) PROVE s[i] \in Members(<<k>> \o s)
    <3>1. i + 1 \in DOMAIN (<<k>> \o s) /\ (<<k>> \o s)[i + 1] = s[i]
      BY <1>1, <1>2, <1>3
    <3> QED BY <3>1, Zenon DEF Members
  <2> QED BY <1>1, <2>1, <2>2 DEF Members
<1>5. ASSUME NEW i \in 1 .. Len(s) + 1 PROVE (<<k>> \o s)[i] \in {k} \cup Members(s)
  <2>1. CASE i = 1
    BY <1>2, <2>1
  <2>2. CASE i # 1
    <3>1. i - 1 \in 1 .. Len(s) /\ (i - 1) + 1 = i
      BY <1>1, <2>2
    <3> QED BY <1>1, <1>2, <3>1 DEF Members
  <2> QED BY <2>1, <2>2
<1> QED
  BY <1>1, <1>4, <1>5 DEF Members

(* A lane is as long as its sequence, or shorter when something is left out. *)
LEMMA LaneLen ==
  ASSUME NEW T, NEW s \in Seq(T), NEW a
  PROVE  /\ Len(Lane(s, a)) <= Len(s)
         /\ ~(Members(s) \subseteq a) => Len(Lane(s, a)) < Len(s)
<1> DEFINE Good == {q \in Seq(T) : /\ Len(Lane(q, a)) <= Len(q)
                                   /\ ~(Members(q) \subseteq a) => Len(Lane(q, a)) < Len(q)}
<1>0. <<>> \in Seq(T) /\ Len(<<>>) = 0
  OBVIOUS
<1>1. <<>> \in Good
  BY <1>0, LaneEmpty, NoMembers
<1>2. ASSUME NEW q \in Seq(T), NEW x \in T, q \in Good PROVE Append(q, x) \in Good
  <2>1. Lane(q, a) \in Seq(T)
    BY LaneType
  <2>2. Lane(Append(q, x), a) = IF x \in a THEN Append(Lane(q, a), x) ELSE Lane(q, a)
    BY LaneAppend
  <2>3. Members(Append(q, x)) = Members(q) \cup {x}
    BY AppendMembers
  <2>4. Append(q, x) \in Seq(T) /\ Len(Append(q, x)) = Len(q) + 1
        /\ Len(Append(Lane(q, a), x)) = Len(Lane(q, a)) + 1
    BY <2>1, AppendProperties
  <2>5. Len(q) \in Nat /\ Len(Lane(q, a)) \in Nat
    BY <2>1
  <2>6. Len(Lane(q, a)) <= Len(q) /\ (~(Members(q) \subseteq a) => Len(Lane(q, a)) < Len(q))
    BY <1>2
  <2>7. CASE x \in a
    <3>1. Members(Append(q, x)) \subseteq a <=> Members(q) \subseteq a
      BY <2>3, <2>7
    <3> QED BY <2>2, <2>4, <2>5, <2>6, <2>7, <3>1
  <2>8. CASE x \notin a
    BY <2>2, <2>4, <2>5, <2>6, <2>8
  <2> QED BY <2>7, <2>8
<1> HIDE DEF Good
<1>3. s \in Good
  BY <1>1, <1>2, SeqInduction
<1> QED BY <1>3 DEF Good

LEMMA LaneAll ==
  ASSUME NEW T, NEW s \in Seq(T), NEW a, Members(s) \subseteq a
  PROVE  Lane(s, a) = s
<1> DEFINE Good == {q \in Seq(T) : Members(q) \subseteq a => Lane(q, a) = q}
<1>0. <<>> \in Seq(T)
  OBVIOUS
<1>1. <<>> \in Good
  BY <1>0, LaneEmpty
<1>2. ASSUME NEW q \in Seq(T), NEW x \in T, q \in Good PROVE Append(q, x) \in Good
  <2>1. Lane(Append(q, x), a) = IF x \in a THEN Append(Lane(q, a), x) ELSE Lane(q, a)
    BY LaneAppend
  <2>2. Members(Append(q, x)) = Members(q) \cup {x}
    BY AppendMembers
  <2>3. Append(q, x) \in Seq(T) /\ (Members(q) \subseteq a => Lane(q, a) = q)
    BY <1>2
  <2> QED BY <2>1, <2>2, <2>3
<1> HIDE DEF Good
<1>3. s \in Good
  BY <1>1, <1>2, SeqInduction
<1> QED BY <1>3 DEF Good

LEMMA AppendInjects ==
  ASSUME NEW T, NEW s \in Seq(T), NEW x \in T
  PROVE  IsInjective(Append(s, x)) <=> IsInjective(s) /\ x \notin Members(s)
<1>1. Len(s) \in Nat /\ DOMAIN s = 1 .. Len(s) /\ DOMAIN Append(s, x) = 1 .. Len(s) + 1
  OBVIOUS
<1>2. Append(s, x)[Len(s) + 1] = x /\ \A i \in 1 .. Len(s) : Append(s, x)[i] = s[i]
  OBVIOUS
<1>3. ASSUME IsInjective(Append(s, x)) PROVE IsInjective(s)
  BY <1>1, <1>2, <1>3 DEF IsInjective
<1>4. ASSUME IsInjective(Append(s, x)), x \in Members(s) PROVE FALSE
  <2>1. PICK i \in 1 .. Len(s) : s[i] = x
    BY <1>1, <1>4 DEF Members
  <2>2. i \in 1 .. Len(s) + 1 /\ Len(s) + 1 \in 1 .. Len(s) + 1 /\ i # Len(s) + 1
    BY <1>1
  <2> QED BY <1>1, <1>2, <1>4, <2>1, <2>2 DEF IsInjective
<1>5. ASSUME IsInjective(s), x \notin Members(s) PROVE IsInjective(Append(s, x))
  <2> SUFFICES ASSUME NEW i \in 1 .. Len(s) + 1, NEW j \in 1 .. Len(s) + 1,
                      Append(s, x)[i] = Append(s, x)[j]
               PROVE  i = j
    BY <1>1 DEF IsInjective
  <2>1. (i \in 1 .. Len(s) \/ i = Len(s) + 1) /\ (j \in 1 .. Len(s) \/ j = Len(s) + 1)
    BY <1>1
  <2>2. \A m \in 1 .. Len(s) : s[m] # x
    BY <1>1, <1>5 DEF Members
  <2> QED BY <1>1, <1>2, <1>5, <2>1, <2>2 DEF IsInjective
<1> QED BY <1>3, <1>4, <1>5

LEMMA LaneInjects ==
  ASSUME NEW T, NEW s \in Seq(T), NEW a, IsInjective(s)
  PROVE  IsInjective(Lane(s, a))
<1> DEFINE Good == {q \in Seq(T) : IsInjective(q) => IsInjective(Lane(q, a))}
<1>0. <<>> \in Seq(T)
  OBVIOUS
<1>1. <<>> \in Good
  BY <1>0, LaneEmpty
<1>2. ASSUME NEW q \in Seq(T), NEW x \in T, q \in Good PROVE Append(q, x) \in Good
  <2>1. Lane(Append(q, x), a) = IF x \in a THEN Append(Lane(q, a), x) ELSE Lane(q, a)
    BY LaneAppend
  <2>2. Lane(q, a) \in Seq(T) /\ Members(Lane(q, a)) = Members(q) \cap a
    BY LaneType, LaneMembers
  <2>3. IsInjective(Append(q, x)) <=> IsInjective(q) /\ x \notin Members(q)
    BY AppendInjects
  <2>4. IsInjective(Append(Lane(q, a), x)) <=> IsInjective(Lane(q, a)) /\ x \notin Members(Lane(q, a))
    BY <2>2, AppendInjects
  <2>5. Append(q, x) \in Seq(T) /\ (IsInjective(q) => IsInjective(Lane(q, a)))
    BY <1>2
  <2> QED BY <2>1, <2>2, <2>3, <2>4, <2>5
<1> HIDE DEF Good
<1>3. s \in Good
  BY <1>1, <1>2, SeqInduction
<1> QED BY <1>3 DEF Good

LEMMA ConsInjects ==
  ASSUME NEW T, NEW s \in Seq(T), NEW k \in T, IsInjective(s), k \notin Members(s)
  PROVE  IsInjective(<<k>> \o s)
<1>1. Len(s) \in Nat /\ DOMAIN s = 1 .. Len(s) /\ DOMAIN (<<k>> \o s) = 1 .. Len(s) + 1
  OBVIOUS
<1>2. (<<k>> \o s)[1] = k /\ \A i \in 1 .. Len(s) : (<<k>> \o s)[i + 1] = s[i]
  OBVIOUS
<1> SUFFICES ASSUME NEW i \in 1 .. Len(s) + 1, NEW j \in 1 .. Len(s) + 1,
                    (<<k>> \o s)[i] = (<<k>> \o s)[j]
             PROVE  i = j
  BY <1>1 DEF IsInjective
<1>3. \A m \in 1 .. Len(s) + 1 : m # 1 => m - 1 \in 1 .. Len(s) /\ (<<k>> \o s)[m] = s[m - 1]
  <2> SUFFICES ASSUME NEW m \in 1 .. Len(s) + 1, m # 1
               PROVE  m - 1 \in 1 .. Len(s) /\ (<<k>> \o s)[m] = s[m - 1]
    OBVIOUS
  <2>1. m - 1 \in 1 .. Len(s) /\ (m - 1) + 1 = m
    BY <1>1
  <2> QED BY <1>2, <2>1
<1>4. \A m \in 1 .. Len(s) : s[m] # k
  BY <1>1 DEF Members
<1>5. CASE i = 1 \/ j = 1
  BY <1>2, <1>3, <1>4, <1>5
<1>6. CASE i # 1 /\ j # 1
  <2>1. i - 1 = j - 1
    BY <1>1, <1>3, <1>6 DEF IsInjective
  <2> QED BY <1>1, <2>1
<1> QED BY <1>5, <1>6

LEMMA ConcatAppend ==
  ASSUME NEW T, NEW s \in Seq(T), NEW q \in Seq(T), NEW x \in T
  PROVE  s \o Append(q, x) = Append(s \o q, x)
<1>1. Append(q, x) = q \o <<x>>
  BY AppendIsConcat
<1>2. s \o q \in Seq(T) /\ <<x>> \in Seq(T)
  BY ConcatProperties
<1>3. Append(s \o q, x) = (s \o q) \o <<x>>
  BY <1>2, AppendIsConcat
<1>4. (s \o q) \o <<x>> = s \o (q \o <<x>>)
  BY <1>2, ConcatAssociative
<1> QED BY <1>1, <1>3, <1>4

(* A sequence without repetition is as long as it has members. *)
LEMMA InjectiveCount ==
  ASSUME NEW T, NEW s \in Seq(T), IsInjective(s)
  PROVE  IsFiniteSet(Members(s)) /\ Cardinality(Members(s)) = Len(s)
<1> DEFINE Good == {q \in Seq(T) : IsInjective(q) => IsFiniteSet(Members(q)) /\ Cardinality(Members(q)) = Len(q)}
<1>0. <<>> \in Seq(T) /\ Len(<<>>) = 0
  OBVIOUS
<1>1. <<>> \in Good
  BY <1>0, NoMembers, FS_EmptySet
<1>2. ASSUME NEW q \in Seq(T), NEW x \in T, q \in Good PROVE Append(q, x) \in Good
  <2>1. Append(q, x) \in Seq(T) /\ Len(Append(q, x)) = Len(q) + 1
    BY AppendProperties
  <2>2. Members(Append(q, x)) = Members(q) \cup {x}
    BY AppendMembers
  <2>3. IsInjective(Append(q, x)) <=> IsInjective(q) /\ x \notin Members(q)
    BY AppendInjects
  <2>4. ASSUME IsInjective(Append(q, x))
        PROVE  IsFiniteSet(Members(q) \cup {x}) /\ Cardinality(Members(q) \cup {x}) = Len(q) + 1
    <3>1. IsFiniteSet(Members(q)) /\ Cardinality(Members(q)) = Len(q) /\ x \notin Members(q)
      BY <1>2, <2>3, <2>4
    <3> QED BY <3>1, FS_AddElement
  <2> QED BY <2>1, <2>2, <2>4
<1> HIDE DEF Good
<1>3. s \in Good
  BY <1>1, <1>2, SeqInduction
<1> QED BY <1>3 DEF Good

LEMMA ConcatMembers ==
  ASSUME NEW T, NEW s \in Seq(T), NEW t \in Seq(T)
  PROVE  Members(s \o t) = Members(s) \cup Members(t)
<1> DEFINE Good == {q \in Seq(T) : Members(s \o q) = Members(s) \cup Members(q)}
<1>0. <<>> \in Seq(T) /\ s \o <<>> = s
  OBVIOUS
<1>1. <<>> \in Good
  BY <1>0, NoMembers
<1>2. ASSUME NEW q \in Seq(T), NEW x \in T, q \in Good PROVE Append(q, x) \in Good
  <2>1. s \o q \in Seq(T) /\ Append(q, x) \in Seq(T)
    BY ConcatProperties, AppendProperties
  <2>2. s \o Append(q, x) = Append(s \o q, x)
    BY <2>1, ConcatAppend
  <2>3. Members(Append(s \o q, x)) = Members(s \o q) \cup {x} /\ Members(Append(q, x)) = Members(q) \cup {x}
    BY <2>1, AppendMembers
  <2>4. Members(s \o q) = Members(s) \cup Members(q)
    BY <1>2
  <2> QED BY <2>1, <2>2, <2>3, <2>4
<1> HIDE DEF Good
<1>3. t \in Good
  BY <1>1, <1>2, SeqInduction
<1> QED BY <1>3 DEF Good

LEMMA ConcatInjects ==
  ASSUME NEW T, NEW s \in Seq(T), NEW t \in Seq(T), IsInjective(s), IsInjective(t),
         Members(s) \cap Members(t) = {}
  PROVE  IsInjective(s \o t)
<1> DEFINE Good == {q \in Seq(T) : IsInjective(q) /\ Members(s) \cap Members(q) = {} => IsInjective(s \o q)}
<1>0. <<>> \in Seq(T) /\ s \o <<>> = s
  OBVIOUS
<1>1. <<>> \in Good
  BY <1>0
<1>2. ASSUME NEW q \in Seq(T), NEW x \in T, q \in Good PROVE Append(q, x) \in Good
  <2>1. s \o q \in Seq(T) /\ Append(q, x) \in Seq(T)
    BY ConcatProperties, AppendProperties
  <2>2. s \o Append(q, x) = Append(s \o q, x)
    BY <2>1, ConcatAppend
  <2>3. IsInjective(Append(q, x)) <=> IsInjective(q) /\ x \notin Members(q)
    BY AppendInjects
  <2>4. IsInjective(Append(s \o q, x)) <=> IsInjective(s \o q) /\ x \notin Members(s \o q)
    BY <2>1, AppendInjects
  <2>5. Members(s \o q) = Members(s) \cup Members(q) /\ Members(Append(q, x)) = Members(q) \cup {x}
    BY ConcatMembers, AppendMembers
  <2>6. ASSUME IsInjective(Append(q, x)), Members(s) \cap Members(Append(q, x)) = {}
        PROVE  IsInjective(s \o Append(q, x))
    <3>1. IsInjective(q) /\ x \notin Members(q) /\ x \notin Members(s) /\ Members(s) \cap Members(q) = {}
      BY <2>3, <2>5, <2>6
    <3>2. IsInjective(s \o q)
      BY <1>2, <3>1
    <3> QED BY <2>2, <2>4, <2>5, <3>1, <3>2
  <2> QED BY <2>1, <2>6
<1> HIDE DEF Good
<1>3. t \in Good
  BY <1>1, <1>2, SeqInduction
<1> QED BY <1>3 DEF Good

-----------------------------------------------------------------------------
(* Sums of sequences                                                       *)

Summing(g, s, i) == IF i = 0 THEN 0 ELSE g[i - 1] + s[i]

Sums(g, s, n) == g = [i \in 0..n |-> Summing(g, s, i)]

LEMMA SumsUpTo ==
  ASSUME NEW s, NEW n \in Nat
  PROVE  \E g : g = [i \in 0..n |-> Summing(g, s, i)]
<1> DEFINE Good == {k \in Nat : \E g : g = [i \in 0..k |-> Summing(g, s, i)]}
<1>1. 0 \in Good
  <2> DEFINE g == [i \in 0..0 |-> 0]
  <2>1. g = [i \in 0..0 |-> Summing(g, s, i)]
    BY DEF Summing
  <2> QED BY <2>1
<1>2. ASSUME NEW k \in Nat, k \in Good PROVE k + 1 \in Good
  <2>1. PICK g : g = [i \in 0..k |-> Summing(g, s, i)]
    BY <1>2
  <2> DEFINE h == [i \in 0..(k + 1) |-> Summing(g, s, i)]
  <2>2. \A i \in 0..k : h[i] = g[i]
    BY <2>1
  <2>3. ASSUME NEW i \in 0..(k + 1) PROVE Summing(g, s, i) = Summing(h, s, i)
    <3>1. i # 0 => i - 1 \in 0..k
      OBVIOUS
    <3> HIDE DEF h
    <3> QED BY <2>2, <3>1 DEF Summing
  <2>4. h = [i \in 0..(k + 1) |-> Summing(h, s, i)]
    BY <2>3
  <2> HIDE DEF h
  <2> QED BY <2>4
<1> HIDE DEF Good
<1>3. \A k \in Nat : k \in Good
  BY <1>1, <1>2, SetInduction
<1> QED BY <1>3 DEF Good

LEMMA SumOfIs ==
  ASSUME NEW s, Len(s) \in Nat
  PROVE  \E g : Sums(g, s, Len(s)) /\ SumOf(s) = g[Len(s)]
<1> DEFINE h == CHOOSE g : g = [i \in 0..Len(s) |-> Summing(g, s, i)]
<1>1. h = [i \in 0..Len(s) |-> Summing(h, s, i)]
  BY SumsUpTo
<1>2. SumOf(s) = h[Len(s)]
  BY DEF SumOf, Summing
<1> HIDE DEF h
<1> QED BY <1>1, <1>2 DEF Sums

LEMMA SumsAgree ==
  ASSUME NEW s, NEW t, NEW n \in Nat, NEW l \in Nat, NEW m \in Nat, n <= l, n <= m,
         NEW g, Sums(g, s, l), NEW h, Sums(h, t, m), \A i \in 1..n : s[i] = t[i]
  PROVE  g[n] = h[n]
<1> DEFINE Good == {k \in Nat : k <= n => g[k] = h[k]}
<1>1. 0 \in Good
  BY DEF Summing, Sums
<1>2. ASSUME NEW k \in Nat, k \in Good PROVE k + 1 \in Good
  <2> SUFFICES ASSUME k + 1 <= n PROVE g[k + 1] = h[k + 1]
    OBVIOUS
  <2>1. g[k] = h[k] /\ k + 1 \in 0..l /\ k + 1 \in 0..m /\ k + 1 \in 1..n /\ (k + 1) - 1 = k /\ k + 1 # 0
    BY <1>2
  <2>2. g[k + 1] = Summing(g, s, k + 1) /\ h[k + 1] = Summing(h, t, k + 1)
    BY <2>1 DEF Sums
  <2> QED BY <2>1, <2>2 DEF Summing
<1> HIDE DEF Good
<1>3. n \in Good
  BY <1>1, <1>2, SetInduction
<1> QED BY <1>3 DEF Good

LEMMA SumOfEmpty == SumOf(<<>>) = 0
<1>1. Len(<<>>) = 0
  OBVIOUS
<1>2. PICK g : Sums(g, <<>>, Len(<<>>)) /\ SumOf(<<>>) = g[Len(<<>>)]
  BY <1>1, SumOfIs
<1> QED BY <1>1, <1>2 DEF Sums, Summing

LEMMA SumOfAppend ==
  ASSUME NEW T, NEW s \in Seq(T), NEW x \in T
  PROVE  SumOf(Append(s, x)) = SumOf(s) + x
<1> DEFINE t == Append(s, x)
           n == Len(s)
<1>1. n \in Nat /\ Len(t) = n + 1 /\ t[n + 1] = x /\ \A i \in 1..n : s[i] = t[i]
  BY AppendProperties
<1> HIDE DEF t
<1>2. PICK g : Sums(g, s, n) /\ SumOf(s) = g[n]
  BY <1>1, SumOfIs
<1>3. PICK h : Sums(h, t, Len(t)) /\ SumOf(t) = h[Len(t)]
  BY <1>1, SumOfIs
<1> HIDE DEF n
<1>4. g[n] = h[n]
  <2>1. n + 1 \in Nat /\ n <= n /\ n <= n + 1 /\ Sums(h, t, n + 1)
    BY <1>1, <1>3
  <2> QED BY <1>1, <1>2, <2>1, SumsAgree
<1>5. h[n + 1] = h[n] + t[n + 1]
  <2>1. n + 1 \in 0..(n + 1) /\ n + 1 # 0 /\ (n + 1) - 1 = n
    BY <1>1
  <2> QED BY <1>1, <1>3, <2>1 DEF Sums, Summing
<1>6. SumOf(t) = SumOf(s) + x
  BY <1>1, <1>2, <1>3, <1>4, <1>5
<1> QED BY <1>6 DEF t

LEMMA SumOfType ==
  /\ \A s \in Seq(Int) : SumOf(s) \in Int
  /\ \A s \in Seq(Nat) : SumOf(s) \in Nat
<1>1. \A s \in Seq(Int) : SumOf(s) \in Int
  <2> DEFINE Good == {s \in Seq(Int) : SumOf(s) \in Int}
  <2>1. <<>> \in Good
    <3>1. <<>> \in Seq(Int)
      OBVIOUS
    <3> QED BY <3>1, SumOfEmpty
  <2>2. ASSUME NEW s \in Seq(Int), NEW x \in Int, s \in Good PROVE Append(s, x) \in Good
    <3>1. SumOf(Append(s, x)) = SumOf(s) + x /\ Append(s, x) \in Seq(Int)
      BY SumOfAppend, AppendProperties
    <3> QED BY <2>2, <3>1
  <2> HIDE DEF Good
  <2>3. \A s \in Seq(Int) : s \in Good
    BY <2>1, <2>2, SeqInduction
  <2> QED BY <2>3 DEF Good
<1>2. \A s \in Seq(Nat) : SumOf(s) \in Nat
  <2> DEFINE Good == {s \in Seq(Nat) : SumOf(s) \in Nat}
  <2>1. <<>> \in Good
    <3>1. <<>> \in Seq(Nat)
      OBVIOUS
    <3> QED BY <3>1, SumOfEmpty
  <2>2. ASSUME NEW s \in Seq(Nat), NEW x \in Nat, s \in Good PROVE Append(s, x) \in Good
    <3>1. SumOf(Append(s, x)) = SumOf(s) + x /\ Append(s, x) \in Seq(Nat)
      BY SumOfAppend, AppendProperties
    <3> QED BY <2>2, <3>1
  <2> HIDE DEF Good
  <2>3. \A s \in Seq(Nat) : s \in Good
    BY <2>1, <2>2, SeqInduction
  <2> QED BY <2>3 DEF Good
<1> QED BY <1>1, <1>2

\* One number of a sequence changes.
LEMMA SumOfExcept ==
  ASSUME NEW s \in Seq(Int), NEW i \in DOMAIN s, NEW v \in Int
  PROVE  SumOf([s EXCEPT ![i] = v]) = SumOf(s) - s[i] + v
<1> DEFINE n == Len(s)
           t == [s EXCEPT ![i] = v]
<1>1. /\ n \in Nat /\ i \in 1..n /\ Len(t) = n /\ t[i] = v /\ \A k \in 1..n : k # i => t[k] = s[k]
      /\ \A k \in 1..n : s[k] \in Int
  OBVIOUS
<1> HIDE DEF t
<1>2. PICK g : Sums(g, s, n) /\ SumOf(s) = g[n]
  BY <1>1, SumOfIs
<1>3. PICK h : Sums(h, t, n) /\ SumOf(t) = h[n]
  BY <1>1, SumOfIs
<1> HIDE DEF n
<1> DEFINE Good == {k \in Nat : k <= n => g[k] \in Int /\ h[k] = IF k < i THEN g[k] ELSE g[k] - s[i] + v}
<1>4. 0 \in Good
  <2>1. 0 \in 0..n /\ 0 < i
    BY <1>1
  <2>2. g[0] = 0 /\ h[0] = 0
    BY <1>2, <1>3, <2>1 DEF Sums, Summing
  <2> QED BY <2>1, <2>2
<1>5. ASSUME NEW k \in Nat, k \in Good PROVE k + 1 \in Good
  <2> SUFFICES ASSUME k + 1 <= n
               PROVE  /\ g[k + 1] \in Int
                      /\ h[k + 1] = IF k + 1 < i THEN g[k + 1] ELSE g[k + 1] - s[i] + v
    OBVIOUS
  <2>1. k + 1 \in 0..n /\ k + 1 \in 1..n /\ k + 1 # 0 /\ (k + 1) - 1 = k /\ k <= n
    BY <1>1
  <2>2. g[k + 1] = g[k] + s[k + 1] /\ h[k + 1] = h[k] + t[k + 1]
    BY <1>2, <1>3, <2>1 DEF Sums, Summing
  <2>3. g[k] \in Int /\ h[k] = IF k < i THEN g[k] ELSE g[k] - s[i] + v
    BY <1>5, <2>1
  <2>4. s[k + 1] \in Int /\ s[i] \in Int
    BY <1>1, <2>1
  <2>5. CASE k + 1 = i
    BY <1>1, <2>2, <2>3, <2>4, <2>5
  <2>6. CASE k + 1 # i
    <3>1. t[k + 1] = s[k + 1]
      BY <1>1, <2>1, <2>6
    <3>2. CASE k < i
      <4>1. k + 1 < i
        BY <1>1, <2>6, <3>2
      <4> QED BY <2>2, <2>3, <2>4, <3>1, <3>2, <4>1
    <3>3. CASE ~(k < i)
      <4>1. ~(k + 1 < i)
        BY <1>1, <2>6, <3>3
      <4> QED BY <2>2, <2>3, <2>4, <3>1, <3>3, <4>1
    <3> QED BY <3>2, <3>3
  <2> QED BY <2>5, <2>6
<1> HIDE DEF Good
<1>6. n \in Good
  BY <1>1, <1>4, <1>5, SetInduction
<1>7. ~(n < i) /\ n <= n
  BY <1>1
<1>8. SumOf(t) = SumOf(s) - s[i] + v
  BY <1>1, <1>2, <1>3, <1>6, <1>7 DEF Good
<1> QED BY <1>8 DEF t

LEMMA SumOfCons ==
  ASSUME NEW s \in Seq(Int), NEW k \in Int
  PROVE  SumOf(<<k>> \o s) = k + SumOf(s)
<1> DEFINE Good == {q \in Seq(Int) : SumOf(<<k>> \o q) = k + SumOf(q)}
<1>0. <<k>> \in Seq(Int)
  OBVIOUS
<1>1. <<>> \in Good
  <2>1. <<k>> \o <<>> = Append(<<>>, k) /\ <<>> \in Seq(Int)
    OBVIOUS
  <2>2. SumOf(Append(<<>>, k)) = SumOf(<<>>) + k
    BY <2>1, SumOfAppend
  <2> QED BY <2>1, <2>2, SumOfEmpty
<1>2. ASSUME NEW q \in Seq(Int), NEW x \in Int, q \in Good PROVE Append(q, x) \in Good
  <2>1. <<k>> \o Append(q, x) = Append(<<k>> \o q, x)
    BY <1>0, ConcatAppend
  <2>2. <<k>> \o q \in Seq(Int)
    BY <1>0, ConcatProperties
  <2>3. SumOf(Append(<<k>> \o q, x)) = SumOf(<<k>> \o q) + x
    BY <2>2, SumOfAppend
  <2>4. SumOf(Append(q, x)) = SumOf(q) + x /\ SumOf(q) \in Int /\ Append(q, x) \in Seq(Int)
    BY SumOfAppend, SumOfType, AppendProperties
  <2>5. SumOf(<<k>> \o q) = k + SumOf(q)
    BY <1>2
  <2> DEFINE a == SumOf(<<k>> \o Append(q, x))
             b == SumOf(<<k>> \o q)
             c == SumOf(q)
             d == SumOf(Append(q, x))
  <2>6. a = b + x /\ d = c + x /\ c \in Int /\ b = k + c
    BY <2>1, <2>3, <2>4, <2>5, Zenon
  <2> HIDE DEF a, b, c, d
  <2>7. a = k + d
    BY <2>6
  <2> QED BY <2>4, <2>7 DEF a, d
<1> HIDE DEF Good
<1>3. s \in Good
  BY <1>1, <1>2, SeqInduction
<1> QED BY <1>3 DEF Good

-----------------------------------------------------------------------------
(* Lanes of a sequence that is cut in two                                  *)

LEMMA LaneConcat ==
  ASSUME NEW T, NEW s \in Seq(T), NEW t \in Seq(T), NEW a
  PROVE  Lane(s \o t, a) = Lane(s, a) \o Lane(t, a)
<1> DEFINE Good == {q \in Seq(T) : Lane(s \o q, a) = Lane(s, a) \o Lane(q, a)}
<1>0. Lane(s, a) \in Seq(T)
  BY LaneType
<1>1. <<>> \in Good
  <2>1. <<>> \in Seq(T) /\ s \o <<>> = s
    OBVIOUS
  <2>2. Lane(s, a) \o <<>> = Lane(s, a)
    <3> DEFINE l == Lane(s, a)
    <3> HIDE DEF l
    <3>1. l \in Seq(T)
      BY <1>0 DEF l
    <3>2. l \o <<>> = l
      BY <3>1
    <3> QED BY <3>2 DEF l
  <2> QED BY <2>1, <2>2, LaneEmpty
<1>2. ASSUME NEW q \in Seq(T), NEW x \in T, q \in Good PROVE Append(q, x) \in Good
  <2>1. s \o Append(q, x) = Append(s \o q, x)
    BY ConcatAppend
  <2>2. s \o q \in Seq(T) /\ Append(q, x) \in Seq(T) /\ Lane(q, a) \in Seq(T)
    BY ConcatProperties, AppendProperties, LaneType
  <2>3. Lane(Append(s \o q, x), a) = IF x \in a THEN Append(Lane(s \o q, a), x) ELSE Lane(s \o q, a)
    BY <2>2, LaneAppend
  <2>4. Lane(Append(q, x), a) = IF x \in a THEN Append(Lane(q, a), x) ELSE Lane(q, a)
    BY LaneAppend
  <2>5. Lane(s, a) \o Append(Lane(q, a), x) = Append(Lane(s, a) \o Lane(q, a), x)
    BY <1>0, <2>2, ConcatAppend
  <2>6. Lane(s \o q, a) = Lane(s, a) \o Lane(q, a)
    BY <1>2
  <2>7. Lane(s \o Append(q, x), a) = Lane(s, a) \o Lane(Append(q, x), a)
    BY <2>1, <2>3, <2>4, <2>5, <2>6, Zenon
  <2> QED BY <2>2, <2>7
<1> HIDE DEF Good
<1>3. t \in Good
  BY <1>1, <1>2, SeqInduction
<1> QED BY <1>3 DEF Good

LEMMA LaneNone ==
  ASSUME NEW T, NEW s \in Seq(T), NEW a, Members(s) \cap a = {}
  PROVE  Lane(s, a) = <<>>
<1>1. Members(Lane(s, a)) = {} /\ Lane(s, a) \in Seq(T)
  BY LaneMembers, LaneType
<1> DEFINE l == Lane(s, a)
<1> HIDE DEF l
<1>2. Members(l) = {} /\ l \in Seq(T)
  BY <1>1 DEF l
<1>3. Len(l) \in Nat /\ DOMAIN l = 1..Len(l)
  BY <1>2
<1>4. ~(Len(l) >= 1)
  <2> SUFFICES ASSUME Len(l) >= 1 PROVE FALSE
    OBVIOUS
  <2>1. 1 \in DOMAIN l
    BY <1>3
  <2> QED BY <1>2, <2>1 DEF Members
<1>5. Len(l) = 0
  BY <1>3, <1>4
<1>6. l = <<>>
  BY <1>2, <1>5
<1> QED BY <1>6 DEF l

\* A beginning of a sequence without repetitions is the lane of its members.
LEMMA PrefixLane ==
  ASSUME NEW T, NEW s \in Seq(T), IsInjective(s), NEW k \in 0..Len(s)
  PROVE  /\ SubSeq(s, 1, k) \in Seq(T) /\ Len(SubSeq(s, 1, k)) = k
         /\ \A i \in 1..k : SubSeq(s, 1, k)[i] = s[i]
         /\ SubSeq(s, 1, k) = Lane(s, Members(SubSeq(s, 1, k)))
<1> DEFINE n == Len(s)
           p == SubSeq(s, 1, k)
           q == SubSeq(s, k + 1, n)
           M == Members(p)
<1>0. n \in Nat /\ k \in Nat /\ k <= n
  OBVIOUS
<1>1. p \in Seq(T) /\ Len(p) = k /\ \A i \in 1..k : p[i] = s[i]
  <2>1. 1 \in 1..(Len(s) + 1) /\ k \in (1 - 1)..Len(s) /\ k - 1 + 1 = k /\ \A i \in 1..k : 1 + i - 1 = i
    BY <1>0
  <2>2. p \in Seq(T) /\ Len(p) = k - 1 + 1 /\ \A i \in 1..(k - 1 + 1) : p[i] = s[1 + i - 1]
    BY <2>1, SubSeqIs
  <2> QED BY <2>1, <2>2
<1>2. q \in Seq(T) /\ Len(q) = n - k /\ \A i \in 1..(n - k) : q[i] = s[k + i]
  <2>1. /\ k + 1 \in 1..(Len(s) + 1) /\ n \in ((k + 1) - 1)..Len(s) /\ n - (k + 1) + 1 = n - k
        /\ \A i \in 1..(n - k) : (k + 1) + i - 1 = k + i
    BY <1>0
  <2>2. q \in Seq(T) /\ Len(q) = n - (k + 1) + 1 /\ \A i \in 1..(n - (k + 1) + 1) : q[i] = s[(k + 1) + i - 1]
    BY <2>1, SubSeqIs
  <2> QED BY <2>1, <2>2
<1> HIDE DEF p, q, n
<1>3. s = p \o q
  <2>1. p \o q \in Seq(T) /\ Len(p \o q) = n /\ Len(s) = n
    BY <1>0, <1>1, <1>2, ConcatProperties DEF n
  <2>2. \A i \in 1..n : (p \o q)[i] = s[i]
    <3> TAKE i \in 1..n
    <3>1. CASE i <= k
      BY <1>0, <1>1, <1>2, <3>1, ConcatProperties
    <3>2. CASE i > k
      <4>1. i - k \in 1..(n - k) /\ k + (i - k) = i /\ i \in (k + 1)..(k + (n - k))
        BY <1>0, <3>2
      <4>2. (p \o q)[i] = q[i - k]
        BY <1>0, <1>1, <1>2, <3>2, <4>1, ConcatProperties
      <4> QED BY <1>2, <4>1, <4>2
    <3>3. i <= k \/ i > k
      BY <1>0
    <3> QED BY <3>1, <3>2, <3>3, Zenon
  <2> DEFINE c == p \o q
  <2> HIDE DEF c
  <2>3. c \in Seq(T) /\ Len(c) = n /\ \A i \in 1..n : c[i] = s[i]
    BY <2>1, <2>2 DEF c
  <2>4. c = s
    BY <2>1, <2>3
  <2> QED BY <2>4 DEF c
<1>4. Lane(p, M) = p
  BY <1>1, LaneAll
<1>5. Members(q) \cap M = {}
  <2> SUFFICES ASSUME NEW i \in 1..(n - k), NEW j \in 1..k, q[i] = p[j] PROVE FALSE
    <3>1. DOMAIN q = 1..(n - k) /\ DOMAIN p = 1..k
      BY <1>0, <1>1, <1>2
    <3> QED BY <3>1 DEF Members
  <2>1. s[k + i] = s[j] /\ k + i \in DOMAIN s /\ j \in DOMAIN s /\ k + i # j
    BY <1>0, <1>1, <1>2 DEF n
  <2> QED BY <2>1 DEF IsInjective
<1>6. Lane(q, M) = <<>>
  BY <1>2, <1>5, LaneNone
<1>7. Lane(s, M) = p \o <<>>
  <2>1. Lane(p \o q, M) = Lane(p, M) \o Lane(q, M)
    BY <1>1, <1>2, LaneConcat
  <2> QED BY <1>3, <1>4, <1>6, <2>1, Zenon
<1>8. p \o <<>> = p
  BY <1>1
<1> HIDE DEF M
<1>9. p = Lane(s, M)
  BY <1>7, <1>8
<1> QED BY <1>1, <1>9 DEF p, M

\* Disjoint lanes add up.
LEMMA LaneLenSplit ==
  ASSUME NEW T, NEW s \in Seq(T), NEW a, NEW b, a \cap b = {}
  PROVE  Len(Lane(s, a \cup b)) = Len(Lane(s, a)) + Len(Lane(s, b))
<1> DEFINE Good == {q \in Seq(T) : Len(Lane(q, a \cup b)) = Len(Lane(q, a)) + Len(Lane(q, b))}
<1>1. <<>> \in Good
  <2>1. <<>> \in Seq(T) /\ Len(<<>>) = 0
    OBVIOUS
  <2> QED BY <2>1, LaneEmpty
<1>2. ASSUME NEW q \in Seq(T), NEW x \in T, q \in Good PROVE Append(q, x) \in Good
  <2> DEFINE l == Lane(q, a)
             m == Lane(q, b)
             u == Lane(q, a \cup b)
  <2>1. l \in Seq(T) /\ m \in Seq(T) /\ u \in Seq(T)
    BY LaneType
  <2>2. /\ Lane(Append(q, x), a) = IF x \in a THEN Append(l, x) ELSE l
        /\ Lane(Append(q, x), b) = IF x \in b THEN Append(m, x) ELSE m
        /\ Lane(Append(q, x), a \cup b) = IF x \in a \cup b THEN Append(u, x) ELSE u
    BY LaneAppend
  <2>3. Len(u) = Len(l) + Len(m)
    BY <1>2
  <2> HIDE DEF l, m, u
  <2>4. /\ Len(l) \in Nat /\ Len(m) \in Nat /\ Len(u) \in Nat /\ Len(Append(l, x)) = Len(l) + 1
        /\ Len(Append(m, x)) = Len(m) + 1 /\ Len(Append(u, x)) = Len(u) + 1
    BY <2>1, AppendProperties
  <2>5. Append(q, x) \in Seq(T)
    BY AppendProperties
  <2>6. Len(Lane(Append(q, x), a \cup b)) = Len(Lane(Append(q, x), a)) + Len(Lane(Append(q, x), b))
    <3> DEFINE la == Lane(Append(q, x), a)
               lb == Lane(Append(q, x), b)
               lu == Lane(Append(q, x), a \cup b)
    <3>1. \/ la = Append(l, x) /\ lb = m /\ lu = Append(u, x)
          \/ la = l /\ lb = Append(m, x) /\ lu = Append(u, x)
          \/ la = l /\ lb = m /\ lu = u
      <4>1. x \in a => x \notin b
        OBVIOUS
      <4> HIDE DEF la, lb, lu
      <4>2. /\ la = (IF x \in a THEN Append(l, x) ELSE l) /\ lb = (IF x \in b THEN Append(m, x) ELSE m)
            /\ lu = (IF x \in a \cup b THEN Append(u, x) ELSE u)
        BY <2>2 DEF la, lb, lu
      <4> QED BY <4>1, <4>2, Zenon
    <3> HIDE DEF la, lb, lu
    <3>2. Len(lu) = Len(la) + Len(lb)
      BY <2>3, <2>4, <3>1
    <3> QED BY <3>2 DEF la, lb, lu
  <2> QED BY <2>5, <2>6
<1> HIDE DEF Good
<1>3. s \in Good
  BY <1>1, <1>2, SeqInduction
<1> QED BY <1>3 DEF Good
=============================================================================
