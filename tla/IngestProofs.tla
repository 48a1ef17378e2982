----------------------------- MODULE IngestProofs -----------------------------
(***************************************************************************)
(* Proofs about what the ingestion keeps account of: memory, and streams.  *)
(*                                                                         *)
(* Memory.  The memory controller's books balance for any number of        *)
(* goroutines and streams, any limits and sizes.  The argument needs sums  *)
(* over them: the first part proves what SumFunctionOnSet does when one    *)
(* value of the function changes, by induction over the subsets of a       *)
(* finite set (SubsetInduction).                                           *)
(***************************************************************************)
EXTENDS MemoryController, StreamLifecycle, CommonLemmas

-----------------------------------------------------------------------------
(* Sums of functions over finite sets                                      *)

Pick(s) == CHOOSE x \in s : TRUE

\* What SumFunctionOnSet computes with: g[s] is the sum over s.
Adds(g, f, S) == g = [s \in SUBSET S |-> IF s = {} THEN 0 ELSE f[Pick(s)] + g[s \ {Pick(s)}]]

LEMMA Picks == ASSUME NEW s, s # {} PROVE Pick(s) \in s
BY DEF Pick

Step(g, f, s) == IF s = {} THEN 0 ELSE f[Pick(s)] + g[s \ {Pick(s)}]
Sub(S, n) == {s \in SUBSET S : Cardinality(s) <= n}

LEMMA AddsUpTo ==
  ASSUME NEW f, NEW S, IsFiniteSet(S), NEW n \in Nat
  PROVE  \E g : g = [s \in Sub(S, n) |-> Step(g, f, s)]
<1> DEFINE Bad == {k \in Nat : ~\E g : g = [s \in Sub(S, k) |-> Step(g, f, s)]}
<1> SUFFICES ASSUME Bad # {} PROVE FALSE
  OBVIOUS
<1>1. PICK k \in Bad : \A j \in Bad : k <= j
  BY LeastExists
<1>2. ASSUME NEW s \in SUBSET S, s # {}
      PROVE  /\ s \ {Pick(s)} \in SUBSET S /\ Cardinality(s) \in Nat \ {0}
             /\ Cardinality(s \ {Pick(s)}) = Cardinality(s) - 1
  <2>1. IsFiniteSet(s)
    BY FS_Subset
  <2> QED
    BY <1>2, <2>1, Picks, FS_RemoveElement, FS_CardinalityType, FS_EmptySet
<1>3. CASE k = 0
  <2> DEFINE g == [s \in Sub(S, 0) |-> 0]
  <2>1. ASSUME NEW s \in Sub(S, 0) PROVE s = {}
    <3>1. s \in SUBSET S /\ Cardinality(s) <= 0
      BY DEF Sub
    <3>2. s # {} => Cardinality(s) \in Nat \ {0}
      BY <1>2, <3>1
    <3> QED
      BY <3>1, <3>2
  <2>2. g = [s \in Sub(S, 0) |-> Step(g, f, s)]
    BY <2>1 DEF Step
  <2> QED
    BY <1>3, <2>2
<1>4. CASE k # 0
  <2>1. k - 1 \in Nat /\ k - 1 \notin Bad
    BY <1>1, <1>4
  <2>2. PICK g : g = [s \in Sub(S, k - 1) |-> Step(g, f, s)]
    BY <2>1
  <2> DEFINE h == [s \in Sub(S, k) |-> Step(g, f, s)]
  <2>3. ASSUME NEW s \in Sub(S, k) PROVE Step(g, f, s) = Step(h, f, s)
    <3>1. CASE s = {}
      BY <3>1 DEF Step
    <3>2. CASE s # {}
      <4> DEFINE t == s \ {Pick(s)}
      <4>1. t \in Sub(S, k - 1) /\ t \in Sub(S, k)
        <5>1. s \in SUBSET S /\ Cardinality(s) <= k /\ k \in Nat
          BY DEF Sub
        <5> QED
          BY <1>2, <3>2, <5>1 DEF Sub
      <4>2. g[t] = Step(g, f, t)
        BY <2>2, <4>1
      <4>3. h[t] = Step(g, f, t)
        BY <4>1
      <4> HIDE DEF h
      <4> QED
        BY <3>2, <4>2, <4>3 DEF Step
    <3> QED
      BY <3>1, <3>2
  <2>4. h = [s \in Sub(S, k) |-> Step(h, f, s)]
    BY <2>3
  <2> QED
    BY <1>1, <2>4
<1> QED
  BY <1>3, <1>4

LEMMA AddsExists ==
  ASSUME NEW f, NEW S, IsFiniteSet(S)
  PROVE  \E g : Adds(g, f, S)
<1>1. Cardinality(S) \in Nat
  BY FS_CardinalityType
<1>2. Sub(S, Cardinality(S)) = SUBSET S
  BY FS_Subset DEF Sub
<1>3. PICK g : g = [s \in Sub(S, Cardinality(S)) |-> Step(g, f, s)]
  BY <1>1, AddsUpTo
<1> QED
  BY <1>2, <1>3 DEF Adds, Step

\* Sums over the same set of functions that agree on it are the same.
LEMMA AddsUnique ==
  ASSUME NEW f, NEW e, NEW S, NEW T, NEW g, NEW h, Adds(g, f, S), Adds(h, e, T),
         NEW R, IsFiniteSet(R), R \subseteq S, R \subseteq T, \A x \in R : f[x] = e[x]
  PROVE  g[R] = h[R]
<1> DEFINE Good == {s \in SUBSET R : g[s] = h[s]}
<1>1. ASSUME NEW s \in SUBSET R, \A x \in s : s \ {x} \in Good PROVE s \in Good
  <2>1. g[s] = Step(g, f, s) /\ h[s] = Step(h, e, s)
    BY DEF Adds, Step
  <2>2. CASE s = {}
    BY <2>1, <2>2 DEF Step
  <2>3. CASE s # {}
    <3>1. g[s \ {Pick(s)}] = h[s \ {Pick(s)}] /\ f[Pick(s)] = e[Pick(s)]
      BY <1>1, <2>3, Picks
    <3> QED
      BY <2>1, <2>3, <3>1 DEF Step
  <2> QED
    BY <2>2, <2>3
<1>2. R \in Good
  BY <1>1, SubsetInduction
<1> QED
  BY <1>2

LEMMA SumIs ==
  ASSUME NEW f, NEW S, IsFiniteSet(S)
  PROVE  \E g : Adds(g, f, S) /\ SumFunctionOnSet(f, S) = g[S]
<1> DEFINE h == CHOOSE g : Adds(g, f, S)
<1>1. Adds(h, f, S)
  BY AddsExists
<1>2. SumFunctionOnSet(f, S) = h[S]
  BY DEF SumFunctionOnSet, FoldFunctionOnSet, MapThenFoldSet, Adds, Pick
<1> QED
  BY <1>1, <1>2

LEMMA SumSame ==
  ASSUME NEW f, NEW e, NEW S, IsFiniteSet(S), \A x \in S : f[x] = e[x]
  PROVE  SumFunctionOnSet(f, S) = SumFunctionOnSet(e, S)
<1>1. PICK g : Adds(g, f, S) /\ SumFunctionOnSet(f, S) = g[S]
  BY SumIs
<1>2. PICK h : Adds(h, e, S) /\ SumFunctionOnSet(e, S) = h[S]
  BY SumIs
<1>3. g[S] = h[S]
  BY <1>1, <1>2, AddsUnique
<1> QED
  BY <1>1, <1>2, <1>3

LEMMA SumEmpty == ASSUME NEW f PROVE SumFunctionOnSet(f, {}) = 0
<1>1. PICK g : Adds(g, f, {}) /\ SumFunctionOnSet(f, {}) = g[{}]
  BY SumIs, FS_EmptySet
<1> QED
  BY <1>1 DEF Adds

LEMMA SumPick ==
  ASSUME NEW f, NEW S, IsFiniteSet(S), S # {}
  PROVE  SumFunctionOnSet(f, S) = f[Pick(S)] + SumFunctionOnSet(f, S \ {Pick(S)})
<1>0. IsFiniteSet(S \ {Pick(S)})
  BY FS_Subset
<1>1. PICK g : Adds(g, f, S) /\ SumFunctionOnSet(f, S) = g[S]
  BY SumIs
<1>2. PICK h : Adds(h, f, S \ {Pick(S)}) /\ SumFunctionOnSet(f, S \ {Pick(S)}) = h[S \ {Pick(S)}]
  BY <1>0, SumIs
<1>3. g[S \ {Pick(S)}] = h[S \ {Pick(S)}]
  <2> DEFINE R == S \ {Pick(S)}
  <2>1. R \subseteq S /\ R \subseteq R /\ IsFiniteSet(R) /\ \A x \in R : f[x] = f[x]
    BY <1>0
  <2>2. Adds(h, f, R)
    BY <1>2
  <2> HIDE DEF R
  <2>3. g[R] = h[R]
    BY <1>1, <2>1, <2>2, AddsUnique
  <2> QED
    BY <2>3 DEF R
<1>4. g[S] = f[Pick(S)] + g[S \ {Pick(S)}]
  BY <1>1 DEF Adds
<1> QED
  BY <1>1, <1>2, <1>3, <1>4

\* Sums of integers are integers, and of naturals naturals.
LEMMA SumType ==
  ASSUME NEW f, NEW S, IsFiniteSet(S), \A x \in S : f[x] \in Int
  PROVE  /\ SumFunctionOnSet(f, S) \in Int
         /\ (\A x \in S : f[x] >= 0) => SumFunctionOnSet(f, S) >= 0
<1> DEFINE Fine(s) == /\ SumFunctionOnSet(f, s) \in Int
                      /\ (\A x \in s : f[x] >= 0) => SumFunctionOnSet(f, s) >= 0
           Good == {s \in SUBSET S : Fine(s)}
<1>1. ASSUME NEW s \in SUBSET S, \A x \in s : s \ {x} \in Good PROVE s \in Good
  <2>1. CASE s = {}
    BY <2>1, SumEmpty
  <2>2. CASE s # {}
    <3>1. IsFiniteSet(s) /\ Pick(s) \in s /\ f[Pick(s)] \in Int
      BY <2>2, FS_Subset, Picks
    <3>2. SumFunctionOnSet(f, s) = f[Pick(s)] + SumFunctionOnSet(f, s \ {Pick(s)})
      BY <2>2, <3>1, SumPick
    <3>3. Fine(s \ {Pick(s)})
      BY <1>1, <3>1
    <3> QED
      BY <3>1, <3>2, <3>3
  <2> QED
    BY <2>1, <2>2
<1>2. S \in Good
  BY <1>1, SubsetInduction
<1> QED
  BY <1>2

\* Any element can be taken out first.
LEMMA SumRemove ==
  ASSUME NEW f, NEW S, IsFiniteSet(S), \A x \in S : f[x] \in Int, NEW y \in S
  PROVE  SumFunctionOnSet(f, S) = f[y] + SumFunctionOnSet(f, S \ {y})
<1> DEFINE Fine(s) == \A z \in s : SumFunctionOnSet(f, s) = f[z] + SumFunctionOnSet(f, s \ {z})
           Good == {s \in SUBSET S : Fine(s)}
<1>1. ASSUME NEW s \in SUBSET S, \A x \in s : s \ {x} \in Good, NEW z \in s
      PROVE  SumFunctionOnSet(f, s) = f[z] + SumFunctionOnSet(f, s \ {z})
  <2> DEFINE c == Pick(s)
  <2>1. IsFiniteSet(s) /\ c \in s /\ f[c] \in Int /\ f[z] \in Int
    BY FS_Subset, Picks
  <2>2. SumFunctionOnSet(f, s) = f[c] + SumFunctionOnSet(f, s \ {c})
    BY <2>1, SumPick
  <2> HIDE DEF c
  <2>3. CASE z = c
    BY <2>2, <2>3
  <2>4. CASE z # c
    <3>1. SumFunctionOnSet(f, s \ {c}) = f[z] + SumFunctionOnSet(f, (s \ {c}) \ {z})
      BY <1>1, <2>1, <2>4
    <3>2. SumFunctionOnSet(f, s \ {z}) = f[c] + SumFunctionOnSet(f, (s \ {z}) \ {c})
      BY <1>1, <2>1, <2>4
    <3>3. (s \ {c}) \ {z} = (s \ {z}) \ {c}
      OBVIOUS
    <3>4. SumFunctionOnSet(f, (s \ {c}) \ {z}) \in Int
      <4>1. IsFiniteSet((s \ {c}) \ {z}) /\ \A x \in (s \ {c}) \ {z} : f[x] \in Int
        BY <2>1, FS_Subset
      <4> QED
        BY <4>1, SumType
    <3>5. SumFunctionOnSet(f, s) = f[c] + (f[z] + SumFunctionOnSet(f, (s \ {c}) \ {z}))
      BY <2>2, <3>1
    <3>6. f[z] + SumFunctionOnSet(f, s \ {z}) = f[z] + (f[c] + SumFunctionOnSet(f, (s \ {c}) \ {z}))
      BY <3>2, <3>3
    <3> QED
      BY <2>1, <3>4, <3>5, <3>6
  <2> QED
    BY <2>3, <2>4
<1>2. S \in Good
  <2>1. \A s \in SUBSET S : (\A x \in s : s \ {x} \in Good) => s \in Good
    BY <1>1
  <2> HIDE DEF Good
  <2> QED
    BY <2>1, SubsetInduction
<1> QED
  BY <1>2

\* One value changes.
LEMMA SumChange ==
  ASSUME NEW f, NEW e, NEW S, IsFiniteSet(S), \A x \in S : f[x] \in Int /\ e[x] \in Int,
         NEW y \in S, \A x \in S \ {y} : e[x] = f[x]
  PROVE  SumFunctionOnSet(e, S) = SumFunctionOnSet(f, S) - f[y] + e[y]
<1>0. IsFiniteSet(S \ {y})
  BY FS_Subset
<1>1. SumFunctionOnSet(e, S) = e[y] + SumFunctionOnSet(e, S \ {y})
  BY SumRemove
<1>2. SumFunctionOnSet(f, S) = f[y] + SumFunctionOnSet(f, S \ {y})
  BY SumRemove
<1>3. SumFunctionOnSet(e, S \ {y}) = SumFunctionOnSet(f, S \ {y})
  BY <1>0, SumSame
<1>4. SumFunctionOnSet(f, S \ {y}) \in Int
  BY <1>0, SumType
<1> QED
  BY <1>1, <1>2, <1>3, <1>4

\* A sum of larger values is larger.
LEMMA SumMore ==
  ASSUME NEW f, NEW e, NEW S, IsFiniteSet(S), \A x \in S : f[x] \in Int /\ e[x] \in Int /\ f[x] <= e[x]
  PROVE  SumFunctionOnSet(f, S) <= SumFunctionOnSet(e, S)
<1> DEFINE Good == {s \in SUBSET S : SumFunctionOnSet(f, s) <= SumFunctionOnSet(e, s)}
<1>1. ASSUME NEW s \in SUBSET S, \A x \in s : s \ {x} \in Good PROVE s \in Good
  <2>1. CASE s = {}
    BY <2>1, SumEmpty
  <2>2. CASE s # {}
    <3>1. IsFiniteSet(s) /\ Pick(s) \in s /\ IsFiniteSet(s \ {Pick(s)})
      BY <2>2, FS_Subset, Picks
    <3>2. /\ SumFunctionOnSet(f, s) = f[Pick(s)] + SumFunctionOnSet(f, s \ {Pick(s)})
          /\ SumFunctionOnSet(e, s) = e[Pick(s)] + SumFunctionOnSet(e, s \ {Pick(s)})
      BY <2>2, <3>1, SumPick
    <3>3. SumFunctionOnSet(f, s \ {Pick(s)}) \in Int /\ SumFunctionOnSet(e, s \ {Pick(s)}) \in Int
      BY <3>1, SumType
    <3>4. SumFunctionOnSet(f, s \ {Pick(s)}) <= SumFunctionOnSet(e, s \ {Pick(s)})
      BY <1>1, <3>1
    <3> QED
      BY <3>1, <3>2, <3>3, <3>4
  <2> QED
    BY <2>1, <2>2
<1>2. S \in Good
  BY <1>1, SubsetInduction
<1> QED
  BY <1>2

LEMMA SumZero ==
  ASSUME NEW f, NEW S, IsFiniteSet(S), \A x \in S : f[x] = 0
  PROVE  SumFunctionOnSet(f, S) = 0
<1> DEFINE Good == {s \in SUBSET S : SumFunctionOnSet(f, s) = 0}
<1>1. ASSUME NEW s \in SUBSET S, \A x \in s : s \ {x} \in Good PROVE s \in Good
  <2>1. CASE s = {}
    BY <2>1, SumEmpty
  <2>2. CASE s # {}
    <3>1. IsFiniteSet(s) /\ Pick(s) \in s
      BY <2>2, FS_Subset, Picks
    <3>2. SumFunctionOnSet(f, s) = f[Pick(s)] + SumFunctionOnSet(f, s \ {Pick(s)})
      BY <2>2, <3>1, SumPick
    <3>3. SumFunctionOnSet(f, s \ {Pick(s)}) = 0
      BY <1>1, <3>1
    <3> QED
      BY <3>1, <3>2, <3>3
  <2> QED
    BY <2>1, <2>2
<1>2. S \in Good
  BY <1>1, SubsetInduction
<1> QED
  BY <1>2

-----------------------------------------------------------------------------
(***************************************************************************)
(* The memory controller.  A goroutine's step moves bytes between usage, a *)
(* counter and its own account (InFlight), and the sum of the three stays. *)
(* What a refused request has added counts in the books and not in the     *)
(* budget (Admitted): an add that stays within maxMemory leaves the books, *)
(* and so the smaller budget, within maxMemory.  A counter is at least     *)
(* what its requests are still to undo, so a swap never finds it negative. *)
(***************************************************************************)

Labels == {"ready", "add", "undo", "gc", "undogc", "pressure", "again", "undoagain", "select", "swap",
           "evictsub", "stream", "streamadd", "streamundo", "globalundo", "cas", "sub", "resetswap"}

\* the places where a goroutine holds a counter
AtCounter == {"streamadd", "streamundo", "cas", "resetswap"}

MemShape ==
  /\ usage \in Int /\ torn \in BOOLEAN
  /\ counters \in [MemStreams -> Seq(Int)]
  /\ cur \in [MemStreams -> Nat] /\ \A s \in MemStreams : cur[s] <= Len(counters[s])
  /\ memPC \in [MemProcs -> Labels]
  /\ size \in [MemProcs -> Nat] /\ pend \in [MemProcs -> Nat] /\ obj \in [MemProcs -> Nat]
  /\ stream \in [MemProcs -> MemStreams \cup {NoStream}]
  /\ evictTodo \in [MemProcs -> Seq(MemStreams)]
  /\ \A p \in MemProcs : memPC[p] # "ready" => stream[p] \in MemStreams
  /\ \A p \in MemProcs : memPC[p] \in AtCounter => obj[p] \in DOMAIN counters[stream[p]]

\* No counter is overdrawn, as long as none was.
Covered == ~torn => \A s \in MemStreams : \A i \in DOMAIN counters[s] : counters[s][i] >= ToUndo(s, i)

FlightSum == SumFunction([p \in MemProcs |-> InFlight(p)])
AdmittedSum == SumFunction([p \in MemProcs |-> Admitted(p)])
Undoes(p, s, i) == IF memPC[p] = "streamundo" /\ stream[p] = s /\ obj[p] = i THEN size[p] ELSE 0

MemInv ==
  /\ MemShape /\ Covered /\ StreamBudgetKept
  /\ ~torn => usage = Total + FlightSum /\ Total + AdmittedSum <= MaxMemory

Others(p) == \A q \in MemProcs \ {p} : /\ memPC'[q] = memPC[q] /\ size'[q] = size[q] /\ pend'[q] = pend[q]
                                       /\ stream'[q] = stream[q] /\ obj'[q] = obj[q]

LEMMA FlightType ==
  ASSUME MemShape, NEW p \in MemProcs
  PROVE  InFlight(p) \in Nat /\ Admitted(p) \in Nat /\ Admitted(p) <= InFlight(p)
BY DEF MemShape, InFlight, Admitted, Refused

LEMMA SumsType ==
  ASSUME MemShape
  PROVE  /\ FlightSum \in Int /\ AdmittedSum \in Int /\ AdmittedSum <= FlightSum
         /\ Total \in Int
         /\ \A s, i : ToUndo(s, i) \in Nat
<1>1. IsFiniteSet(MemProcs) /\ IsFiniteSet(MemStreams)
  BY MemoryAssumption
<1> DEFINE F == [p \in MemProcs |-> InFlight(p)]
           A == [p \in MemProcs |-> Admitted(p)]
           T == [s \in MemStreams |-> SumFunction(counters[s])]
<1>2. \A p \in MemProcs : F[p] \in Int /\ A[p] \in Int /\ A[p] <= F[p]
  BY FlightType
<1>3. FlightSum = SumFunctionOnSet(F, MemProcs) /\ AdmittedSum = SumFunctionOnSet(A, MemProcs)
  BY DEF FlightSum, AdmittedSum, SumFunction
<1> HIDE DEF F, A
<1>4. FlightSum \in Int /\ AdmittedSum \in Int /\ AdmittedSum <= FlightSum
  BY <1>1, <1>2, <1>3, SumType, SumMore
<1>5. \A s \in MemStreams : T[s] \in Int
  <2> SUFFICES ASSUME NEW s \in MemStreams PROVE SumFunctionOnSet(counters[s], DOMAIN counters[s]) \in Int
    BY DEF SumFunction
  <2>1. counters[s] \in Seq(Int) /\ Len(counters[s]) \in Nat
    BY DEF MemShape
  <2>2. DOMAIN counters[s] = 1..Len(counters[s]) /\ \A i \in DOMAIN counters[s] : counters[s][i] \in Int
    BY <2>1
  <2>3. IsFiniteSet(DOMAIN counters[s])
    BY <2>1, <2>2, FS_Interval
  <2> QED
    BY <2>2, <2>3, SumType
<1>6. Total \in Int
  <2>1. Total = SumFunctionOnSet(T, MemStreams)
    BY DEF Total, SumFunction
  <2> HIDE DEF T
  <2> QED
    BY <1>1, <1>5, <2>1, SumType
<1>7. ASSUME NEW s, NEW i PROVE ToUndo(s, i) \in Nat
  <2> DEFINE U == [p \in MemProcs |-> IF memPC[p] = "streamundo" /\ stream[p] = s /\ obj[p] = i
                                      THEN size[p] ELSE 0]
  <2>1. ToUndo(s, i) = SumFunctionOnSet(U, MemProcs)
    BY DEF ToUndo, SumFunction
  <2>2. \A p \in MemProcs : U[p] \in Int /\ U[p] >= 0
    BY DEF MemShape
  <2> HIDE DEF U
  <2> QED
    BY <1>1, <2>1, <2>2, SumType
<1> QED
  BY <1>4, <1>6, <1>7

\* A step of p changes the sums by what changes at p.
LEMMA FlightMoves ==
  ASSUME MemShape, MemShape', NEW p \in MemProcs, Others(p)
  PROVE  /\ FlightSum' = FlightSum - InFlight(p) + InFlight(p)'
         /\ AdmittedSum' = AdmittedSum - Admitted(p) + Admitted(p)'
         /\ \A s, i : ToUndo(s, i)' = ToUndo(s, i) - Undoes(p, s, i) + Undoes(p, s, i)'
<1>0. IsFiniteSet(MemProcs)
  BY MemoryAssumption
<1>1. FlightSum' = FlightSum - InFlight(p) + InFlight(p)'
  <2> DEFINE f == [q \in MemProcs |-> InFlight(q)]
             e == [q \in MemProcs |-> InFlight(q)']
  <2>1. \A q \in MemProcs : f[q] \in Int /\ e[q] \in Int
    BY DEF MemShape, InFlight
  <2>2. \A q \in MemProcs \ {p} : e[q] = f[q]
    BY DEF Others, InFlight
  <2>3. /\ FlightSum = SumFunctionOnSet(f, MemProcs) /\ FlightSum' = SumFunctionOnSet(e, MemProcs)
        /\ f[p] = InFlight(p) /\ e[p] = InFlight(p)'
    BY DEF FlightSum, SumFunction
  <2> HIDE DEF f, e
  <2>4. SumFunctionOnSet(e, MemProcs) = SumFunctionOnSet(f, MemProcs) - f[p] + e[p]
    BY <1>0, <2>1, <2>2, SumChange
  <2> QED
    BY <2>3, <2>4
<1>2. AdmittedSum' = AdmittedSum - Admitted(p) + Admitted(p)'
  <2> DEFINE f == [q \in MemProcs |-> Admitted(q)]
             e == [q \in MemProcs |-> Admitted(q)']
  <2>1. \A q \in MemProcs : f[q] \in Int /\ e[q] \in Int
    BY DEF MemShape, InFlight, Admitted
  <2>2. \A q \in MemProcs \ {p} : e[q] = f[q]
    BY DEF Others, InFlight, Admitted
  <2>3. /\ AdmittedSum = SumFunctionOnSet(f, MemProcs) /\ AdmittedSum' = SumFunctionOnSet(e, MemProcs)
        /\ f[p] = Admitted(p) /\ e[p] = Admitted(p)'
    BY DEF AdmittedSum, SumFunction
  <2> HIDE DEF f, e
  <2>4. SumFunctionOnSet(e, MemProcs) = SumFunctionOnSet(f, MemProcs) - f[p] + e[p]
    BY <1>0, <2>1, <2>2, SumChange
  <2> QED
    BY <2>3, <2>4
<1>3. ASSUME NEW s, NEW i PROVE ToUndo(s, i)' = ToUndo(s, i) - Undoes(p, s, i) + Undoes(p, s, i)'
  <2> DEFINE f == [q \in MemProcs |-> Undoes(q, s, i)]
             e == [q \in MemProcs |-> Undoes(q, s, i)']
  <2>1. \A q \in MemProcs : f[q] \in Int /\ e[q] \in Int
    BY DEF MemShape, Undoes
  <2>2. \A q \in MemProcs \ {p} : e[q] = f[q]
    BY DEF Others, Undoes
  <2>3. /\ ToUndo(s, i) = SumFunctionOnSet(f, MemProcs) /\ ToUndo(s, i)' = SumFunctionOnSet(e, MemProcs)
        /\ f[p] = Undoes(p, s, i) /\ e[p] = Undoes(p, s, i)'
    BY DEF ToUndo, SumFunction, Undoes
  <2> HIDE DEF f, e
  <2>4. SumFunctionOnSet(e, MemProcs) = SumFunctionOnSet(f, MemProcs) - f[p] + e[p]
    BY <1>0, <2>1, <2>2, SumChange
  <2> QED
    BY <2>3, <2>4
<1> QED
  BY <1>1, <1>2, <1>3

\* The sum of a stream's counters is an integer.
LEMMA StreamSum ==
  ASSUME MemShape, NEW s \in MemStreams
  PROVE  /\ SumFunction(counters[s]) \in Int
         /\ counters[s] \in Seq(Int) /\ IsFiniteSet(DOMAIN counters[s])
         /\ \A i \in DOMAIN counters[s] : counters[s][i] \in Int
<1>1. counters[s] \in Seq(Int) /\ Len(counters[s]) \in Nat
  BY DEF MemShape
<1>2. DOMAIN counters[s] = 1..Len(counters[s]) /\ \A i \in DOMAIN counters[s] : counters[s][i] \in Int
  BY <1>1
<1>3. IsFiniteSet(DOMAIN counters[s])
  BY <1>1, <1>2, FS_Interval
<1> QED
  BY <1>1, <1>2, <1>3, SumType DEF SumFunction

\* The counters of one stream change: so does the total.
LEMMA TotalChanges ==
  ASSUME MemShape, MemShape', NEW s \in MemStreams,
         \A t \in MemStreams \ {s} : counters'[t] = counters[t], NEW d \in Int,
         SumFunction(counters'[s]) = SumFunction(counters[s]) + d
  PROVE  Total' = Total + d
<1> DEFINE f == [t \in MemStreams |-> SumFunction(counters[t])]
           e == [t \in MemStreams |-> SumFunction(counters'[t])]
<1>0. IsFiniteSet(MemStreams)
  BY MemoryAssumption
<1>1. /\ Total = SumFunctionOnSet(f, MemStreams) /\ Total' = SumFunctionOnSet(e, MemStreams)
      /\ f[s] = SumFunction(counters[s]) /\ e[s] = SumFunction(counters'[s])
      /\ \A t \in MemStreams \ {s} : e[t] = f[t]
  BY DEF Total, SumFunction
<1>2. \A t \in MemStreams : f[t] \in Int
  BY StreamSum
<1>3. \A t \in MemStreams : e[t] \in Int
  BY <1>1, <1>2
<1> HIDE DEF f, e
<1>4. SumFunctionOnSet(e, MemStreams) = SumFunctionOnSet(f, MemStreams) - f[s] + e[s]
  BY <1>0, <1>1, <1>2, <1>3, SumChange
<1>5. SumFunctionOnSet(f, MemStreams) \in Int
  BY <1>0, <1>2, SumType
<1> QED
  BY <1>1, <1>2, <1>4, <1>5

Put(s, i, v) == counters' = [counters EXCEPT ![s][i] = v]

LEMMA CellChanges ==
  ASSUME MemShape, MemShape', NEW s \in MemStreams, NEW i \in DOMAIN counters[s], NEW v \in Int,
         Put(s, i, v)
  PROVE  /\ Total' = Total - counters[s][i] + v
         /\ \A t \in MemStreams : DOMAIN counters'[t] = DOMAIN counters[t]
         /\ counters'[s][i] = v
         /\ \A t \in MemStreams : \A j \in DOMAIN counters[t] :
              t # s \/ j # i => counters'[t][j] = counters[t][j]
<1> DEFINE c == counters[s]
           e == [c EXCEPT ![i] = v]
<1>1. counters' = [counters EXCEPT ![s] = e] /\ counters \in [MemStreams -> Seq(Int)]
  BY DEF MemShape, Put
<1>2. c \in Seq(Int) /\ IsFiniteSet(DOMAIN c) /\ \A j \in DOMAIN c : c[j] \in Int
  BY StreamSum
<1>3. DOMAIN e = DOMAIN c /\ e[i] = v /\ \A j \in DOMAIN c \ {i} : e[j] = c[j]
  BY <1>2
<1>4. counters'[s] = e /\ \A t \in MemStreams \ {s} : counters'[t] = counters[t]
  BY <1>1
<1>5. SumFunction(c) \in Int
  BY StreamSum
<1>6. c[i] \in Int
  BY <1>2
<1> HIDE DEF e
<1>7. SumFunction(e) = SumFunction(c) - c[i] + v
  <2>1. \A j \in DOMAIN c : c[j] \in Int /\ e[j] \in Int
    BY <1>2, <1>3
  <2> HIDE DEF c
  <2>2. SumFunctionOnSet(e, DOMAIN c) = SumFunctionOnSet(c, DOMAIN c) - c[i] + e[i]
    <3>1. i \in DOMAIN c
      BY DEF c
    <3> QED
      BY <1>2, <1>3, <2>1, <3>1, SumChange
  <2> QED
    BY <1>3, <2>2 DEF SumFunction
<1>8. SumFunction(counters'[s]) = SumFunction(counters[s]) + (v - c[i]) /\ v - c[i] \in Int
  BY <1>4, <1>5, <1>6, <1>7
<1>9. Total' = Total + (v - c[i])
  BY <1>4, <1>8, TotalChanges
<1>10. Total \in Int
  BY SumsType
<1> QED
  BY <1>3, <1>4, <1>6, <1>9, <1>10

LEMMA AppendZero ==
  ASSUME MemShape, MemShape', NEW s \in MemStreams,
         counters' = [counters EXCEPT ![s] = Append(@, 0)]
  PROVE  /\ Total' = Total
         /\ \A t \in MemStreams : \A j \in DOMAIN counters'[t] :
              \/ counters'[t][j] = 0
              \/ j \in DOMAIN counters[t] /\ counters'[t][j] = counters[t][j]
<1> DEFINE c == counters[s]
           e == Append(c, 0)
           n == Len(c) + 1
<1>1. counters' = [counters EXCEPT ![s] = e] /\ counters \in [MemStreams -> Seq(Int)]
  BY DEF MemShape
<1>2. c \in Seq(Int) /\ IsFiniteSet(DOMAIN c) /\ \A j \in DOMAIN c : c[j] \in Int
  BY StreamSum
<1>3. /\ DOMAIN e = 1..n /\ e[n] = 0 /\ \A j \in DOMAIN c : e[j] = c[j]
      /\ n \in DOMAIN e /\ DOMAIN e \ {n} = DOMAIN c /\ n \in Nat
  BY <1>2
<1>4. counters'[s] = e /\ \A t \in MemStreams \ {s} : counters'[t] = counters[t]
  BY <1>1
<1>5. SumFunction(c) \in Int
  BY StreamSum
<1> HIDE DEF e, n, c
<1>6. SumFunction(e) = SumFunction(c)
  <2>0. IsFiniteSet(DOMAIN e)
    BY <1>3, FS_Interval
  <2>1. \A j \in DOMAIN e : e[j] \in Int
    BY <1>2, <1>3
  <2>2. SumFunctionOnSet(e, DOMAIN e) = e[n] + SumFunctionOnSet(e, DOMAIN e \ {n})
    BY <1>3, <2>0, <2>1, SumRemove
  <2>3. SumFunctionOnSet(e, DOMAIN c) = SumFunctionOnSet(c, DOMAIN c)
    BY <1>2, <1>3, SumSame
  <2> QED
    BY <1>3, <1>5, <2>2, <2>3 DEF SumFunction
<1>7. SumFunction(counters'[s]) = SumFunction(counters[s]) + 0
  <2>1. SumFunction(counters'[s]) = SumFunction(c)
    BY <1>4, <1>6
  <2>2. SumFunction(c) = SumFunction(c) + 0
    BY <1>5
  <2> QED
    BY <2>1, <2>2 DEF c
<1>8. Total' = Total + 0
  BY <1>4, <1>7, TotalChanges
<1>9. Total \in Int
  BY SumsType
<1> QED
  BY <1>3, <1>4, <1>8, <1>9 DEF c

\* What a step of p has to show for the books and for the budget.
LEMMA Booked ==
  ASSUME MemInv, MemShape', NEW p \in MemProcs, Others(p), torn' = (torn \/ Overdrawn'),
         ~torn => /\ usage' - Total' - InFlight(p)' = usage - Total - InFlight(p)
                  /\ \/ Total' + Admitted(p)' <= Total + Admitted(p)
                     \/ usage' <= MaxMemory
  PROVE  ~torn' => usage' = Total' + FlightSum' /\ Total' + AdmittedSum' <= MaxMemory
<1> SUFFICES ASSUME ~torn' PROVE usage' = Total' + FlightSum' /\ Total' + AdmittedSum' <= MaxMemory
  OBVIOUS
<1>1. ~torn
  OBVIOUS
<1>2. FlightSum \in Int /\ AdmittedSum \in Int /\ Total \in Int
  BY SumsType DEF MemInv
<1>3. FlightSum' \in Int /\ AdmittedSum' \in Int /\ AdmittedSum' <= FlightSum' /\ Total' \in Int
  <2>1. (/\ FlightSum \in Int /\ AdmittedSum \in Int /\ AdmittedSum <= FlightSum
         /\ Total \in Int
         /\ \A s, i : ToUndo(s, i) \in Nat)'
    BY SumsType, PTL
  <2> QED
    BY <2>1
<1>4. usage \in Int /\ usage' \in Int /\ MaxMemory \in Int
  BY MemoryAssumption DEF MemInv, MemShape
<1>5. InFlight(p) \in Int /\ Admitted(p) \in Int
  BY FlightType DEF MemInv
<1>6. InFlight(p)' \in Int /\ Admitted(p)' \in Int
  BY DEF MemShape, InFlight, Admitted
<1>7. /\ FlightSum' = FlightSum - InFlight(p) + InFlight(p)'
      /\ AdmittedSum' = AdmittedSum - Admitted(p) + Admitted(p)'
  BY FlightMoves DEF MemInv
<1>8. usage = Total + FlightSum /\ Total + AdmittedSum <= MaxMemory
  BY <1>1 DEF MemInv
<1> QED
  BY <1>1, <1>2, <1>3, <1>4, <1>5, <1>6, <1>7, <1>8

LEMMA CoveredKept ==
  ASSUME MemShape', torn' = (torn \/ Overdrawn')
  PROVE  Covered'
<1>1. \A s \in MemStreams : \A i \in DOMAIN counters'[s] : counters'[s][i] \in Int
  BY DEF MemShape
<1>2. \A s, i : ToUndo(s, i)' \in Nat
  <2>1. (/\ FlightSum \in Int /\ AdmittedSum \in Int /\ AdmittedSum <= FlightSum
         /\ Total \in Int
         /\ \A s, i : ToUndo(s, i) \in Nat)'
    BY SumsType, PTL
  <2> QED
    BY <2>1
<1>3. ASSUME ~torn', NEW s \in MemStreams, NEW i \in DOMAIN counters'[s]
      PROVE  counters'[s][i] >= ToUndo(s, i)'
  <2>1. ~(counters'[s][i] < ToUndo(s, i)')
    BY <1>3 DEF Overdrawn
  <2> QED
    BY <1>1, <1>2, <2>1
<1> QED
  BY <1>3 DEF Covered

\* A step that neither begins nor ends an undo and raises no counter above the limit.
LEMMA BudgetMoves ==
  ASSUME MemInv, MemShape', NEW p \in MemProcs, Others(p),
         memPC[p] # "streamundo", memPC'[p] # "streamundo",
         \A t \in MemStreams : \A j \in DOMAIN counters'[t] :
           \/ counters'[t][j] <= StreamLimit
           \/ j \in DOMAIN counters[t] /\ counters'[t][j] <= counters[t][j]
  PROVE  StreamBudgetKept'
<1>1. \A s, i : ToUndo(s, i)' = ToUndo(s, i) /\ ToUndo(s, i) \in Nat
  <2>1. \A s, i : ToUndo(s, i) \in Nat
    BY SumsType DEF MemInv
  <2>2. \A s, i : Undoes(p, s, i) = 0 /\ Undoes(p, s, i)' = 0
    BY DEF Undoes
  <2>3. \A s, i : ToUndo(s, i)' = ToUndo(s, i) - Undoes(p, s, i) + Undoes(p, s, i)'
    BY FlightMoves DEF MemInv
  <2> QED
    BY <2>1, <2>2, <2>3
<1>2. \A t \in MemStreams : \A j \in DOMAIN counters'[t] : counters'[t][j] \in Int
  BY DEF MemShape
<1>3. \A t \in MemStreams : \A j \in DOMAIN counters[t] :
        counters[t][j] \in Int /\ counters[t][j] <= StreamLimit + ToUndo(t, j)
  BY StreamSum DEF MemInv, StreamBudgetKept
<1>4. StreamLimit \in Int
  BY MemoryAssumption
<1>5. ASSUME NEW t \in MemStreams, NEW j \in DOMAIN counters'[t]
      PROVE  counters'[t][j] <= StreamLimit + ToUndo(t, j)'
  BY <1>1, <1>2, <1>3, <1>4
<1> QED
  BY <1>5 DEF StreamBudgetKept

LEMMA CountersKept ==
  ASSUME MemInv, MemShape', NEW p \in MemProcs, Others(p), torn' = (torn \/ Overdrawn'),
         counters' = counters, memPC[p] # "streamundo", memPC'[p] # "streamundo",
         usage' - InFlight(p)' = usage - InFlight(p),
         Admitted(p)' <= Admitted(p) \/ usage' <= MaxMemory
  PROVE  MemInv'
<1>1. Total' = Total /\ Total \in Int
  BY SumsType DEF Total, MemInv
<1>2. /\ usage \in Int /\ usage' \in Int /\ InFlight(p) \in Int /\ Admitted(p) \in Int
      /\ InFlight(p)' \in Int /\ Admitted(p)' \in Int
  BY DEF MemInv, MemShape, InFlight, Admitted
<1>3. /\ usage' - Total' - InFlight(p)' = usage - Total - InFlight(p)
      /\ \/ Total' + Admitted(p)' <= Total + Admitted(p)
         \/ usage' <= MaxMemory
  BY <1>1, <1>2
<1>4. ~torn' => usage' = Total' + FlightSum' /\ Total' + AdmittedSum' <= MaxMemory
  BY <1>3, Booked
<1>5. \A t \in MemStreams : \A j \in DOMAIN counters'[t] :
        j \in DOMAIN counters[t] /\ counters'[t][j] <= counters[t][j]
  BY StreamSum DEF MemInv
<1>6. StreamBudgetKept'
  BY <1>5, BudgetMoves
<1>7. Covered'
  BY CoveredKept
<1> QED
  BY <1>4, <1>6, <1>7 DEF MemInv

LEMMA RequestBeginKeeps ==
  ASSUME MemInv, NEW p \in MemProcs, NEW s \in MemStreams, NEW n \in Sizes, RequestBegin(p, s, n),
         torn' = (torn \/ Overdrawn')
  PROVE  MemInv'
<1>1. MemShape'
  BY MemoryAssumption
     DEF MemInv, MemShape, Labels, AtCounter, RequestBegin, MemGoto, shared, call, evict, Call
<1>2. Others(p)
  BY DEF MemInv, MemShape, Others, RequestBegin, MemGoto, shared, call, evict, Call
<1>3. counters' = counters /\ memPC[p] # "streamundo" /\ memPC'[p] # "streamundo"
  BY DEF MemInv, MemShape, RequestBegin, MemGoto, shared, call, evict, Call
<1>4. /\ usage' - InFlight(p)' = usage - InFlight(p)
      /\ Admitted(p)' <= Admitted(p) \/ usage' <= MaxMemory
  BY MemoryAssumption DEF MemInv, MemShape, InFlight, Admitted, Refused, RequestBegin, MemGoto,
     shared, call, evict, Call
<1> QED
  BY <1>1, <1>2, <1>3, <1>4, CountersKept

LEMMA GlobalAddKeeps ==
  ASSUME MemInv, NEW p \in MemProcs, NEW from \in {"add", "gc", "again"}, NEW over \in Refused,
         GlobalAdd(p, from, over), torn' = (torn \/ Overdrawn')
  PROVE  MemInv'
<1>1. MemShape'
  BY MemoryAssumption
     DEF MemInv, MemShape, Labels, AtCounter, GlobalAdd, MemGoto, Refused, call, evict
<1>2. Others(p)
  BY DEF MemInv, MemShape, Others, GlobalAdd, MemGoto, Refused, call, evict
<1>3. counters' = counters /\ memPC[p] # "streamundo" /\ memPC'[p] # "streamundo"
  BY DEF MemInv, MemShape, GlobalAdd, MemGoto, Refused, call, evict
<1>4. /\ usage' - InFlight(p)' = usage - InFlight(p)
      /\ Admitted(p)' <= Admitted(p) \/ usage' <= MaxMemory
  BY MemoryAssumption
     DEF MemInv, MemShape, InFlight, Admitted, GlobalAdd, MemGoto, Refused, call, evict
<1> QED
  BY <1>1, <1>2, <1>3, <1>4, CountersKept

LEMMA GlobalUndoKeeps ==
  ASSUME MemInv, NEW p \in MemProcs, NEW from \in Refused \cup {"globalundo"},
         NEW labels \in SUBSET {"gc", "pressure", "ready"},
         GlobalUndo(p, from, labels), torn' = (torn \/ Overdrawn')
  PROVE  MemInv'
<1>1. MemShape'
  BY MemoryAssumption
     DEF MemInv, MemShape, Labels, AtCounter, GlobalUndo, MemGoto, Refused, call, evict
<1>2. Others(p)
  BY DEF MemInv, MemShape, Others, GlobalUndo, MemGoto, Refused, call, evict
<1>3. counters' = counters /\ memPC[p] # "streamundo" /\ memPC'[p] # "streamundo"
  BY DEF MemInv, MemShape, GlobalUndo, MemGoto, Refused, call, evict
<1>4. /\ usage' - InFlight(p)' = usage - InFlight(p)
      /\ Admitted(p)' <= Admitted(p) \/ usage' <= MaxMemory
  <2>1. PICK l \in {"gc", "pressure", "ready"} : memPC' = [memPC EXCEPT ![p] = l]
    BY DEF GlobalUndo, MemGoto
  <2>2. /\ InFlight(p)' = 0 /\ Admitted(p)' = 0 /\ InFlight(p) = size[p] /\ size[p] \in Nat
        /\ Admitted(p) \in Nat
    BY <2>1 DEF MemInv, MemShape, InFlight, Admitted, Refused, GlobalUndo
  <2>3. usage' = usage - size[p] /\ usage \in Int
    BY DEF MemInv, MemShape, GlobalUndo
  <2> QED
    BY <2>2, <2>3
<1> QED
  BY <1>1, <1>2, <1>3, <1>4, CountersKept

LEMMA PressureCheckKeeps ==
  ASSUME MemInv, NEW p \in MemProcs, PressureCheck(p),
         torn' = (torn \/ Overdrawn')
  PROVE  MemInv'
<1>1. MemShape'
  BY MemoryAssumption
     DEF MemInv, MemShape, Labels, AtCounter, PressureCheck, MemGoto, shared, call, evict
<1>2. Others(p)
  BY DEF MemInv, MemShape, Others, PressureCheck, MemGoto, shared, call, evict
<1>3. counters' = counters /\ memPC[p] # "streamundo" /\ memPC'[p] # "streamundo"
  BY DEF MemInv, MemShape, PressureCheck, MemGoto, shared, call, evict
<1>4. /\ usage' - InFlight(p)' = usage - InFlight(p)
      /\ Admitted(p)' <= Admitted(p) \/ usage' <= MaxMemory
  BY MemoryAssumption
     DEF MemInv, MemShape, InFlight, Admitted, Refused, PressureCheck, MemGoto, shared, call, evict
<1> QED
  BY <1>1, <1>2, <1>3, <1>4, CountersKept

LEMMA EvictNothingKeeps ==
  ASSUME MemInv, NEW p \in MemProcs, EvictNothing(p),
         torn' = (torn \/ Overdrawn')
  PROVE  MemInv'
<1>1. MemShape'
  BY MemoryAssumption
     DEF MemInv, MemShape, Labels, AtCounter, EvictNothing, MemGoto, shared, call, evict
<1>2. Others(p)
  BY DEF MemInv, MemShape, Others, EvictNothing, MemGoto, shared, call, evict
<1>3. counters' = counters /\ memPC[p] # "streamundo" /\ memPC'[p] # "streamundo"
  BY DEF MemInv, MemShape, EvictNothing, MemGoto, shared, call, evict
<1>4. /\ usage' - InFlight(p)' = usage - InFlight(p)
      /\ Admitted(p)' <= Admitted(p) \/ usage' <= MaxMemory
  BY MemoryAssumption
     DEF MemInv, MemShape, InFlight, Admitted, Refused, EvictNothing, MemGoto, shared, call, evict
<1> QED
  BY <1>1, <1>2, <1>3, <1>4, CountersKept

LEMMA SelectStreamsKeeps ==
  ASSUME MemInv, NEW p \in MemProcs, SelectStreams(p),
         torn' = (torn \/ Overdrawn')
  PROVE  MemInv'
<1>0. \A q \in Lists : q \in Seq(MemStreams)
  <2> SUFFICES ASSUME NEW n \in 0 .. Cardinality(MemStreams), NEW q \in [1 .. n -> MemStreams]
               PROVE  q \in Seq(MemStreams)
    BY DEF Lists
  <2>1. n \in Nat
    BY MemoryAssumption, FS_CardinalityType
  <2> QED
    BY <2>1
<1>1. MemShape'
  BY <1>0 DEF MemInv, MemShape, Labels, AtCounter, SelectStreams, MemGoto, shared, call, evict
<1>2. Others(p)
  BY DEF MemInv, MemShape, Others, SelectStreams, MemGoto, shared, call, evict, Lists
<1>3. counters' = counters /\ memPC[p] # "streamundo" /\ memPC'[p] # "streamundo"
  BY DEF MemInv, MemShape, SelectStreams, MemGoto, shared, call, evict, Lists
<1>4. /\ usage' - InFlight(p)' = usage - InFlight(p)
      /\ Admitted(p)' <= Admitted(p) \/ usage' <= MaxMemory
  BY MemoryAssumption DEF MemInv, MemShape, InFlight, Admitted, Refused, SelectStreams, MemGoto,
     shared, call, evict, Lists
<1> QED
  BY <1>1, <1>2, <1>3, <1>4, CountersKept

LEMMA EvictSubKeeps ==
  ASSUME MemInv, NEW p \in MemProcs, EvictSub(p),
         torn' = (torn \/ Overdrawn')
  PROVE  MemInv'
<1>1. MemShape'
  BY MemoryAssumption
     DEF MemInv, MemShape, Labels, AtCounter, EvictSub, MemGoto, shared, call, evict
<1>2. Others(p)
  BY DEF MemInv, MemShape, Others, EvictSub, MemGoto, shared, call, evict
<1>3. counters' = counters /\ memPC[p] # "streamundo" /\ memPC'[p] # "streamundo"
  BY DEF MemInv, MemShape, EvictSub, MemGoto, shared, call, evict
<1>4. /\ usage' - InFlight(p)' = usage - InFlight(p)
      /\ Admitted(p)' <= Admitted(p) \/ usage' <= MaxMemory
  BY MemoryAssumption
     DEF MemInv, MemShape, InFlight, Admitted, Refused, EvictSub, MemGoto, shared, call, evict
<1> QED
  BY <1>1, <1>2, <1>3, <1>4, CountersKept

LEMMA EvictDoneKeeps ==
  ASSUME MemInv, NEW p \in MemProcs, EvictDone(p),
         torn' = (torn \/ Overdrawn')
  PROVE  MemInv'
<1>1. MemShape'
  BY MemoryAssumption
     DEF MemInv, MemShape, Labels, AtCounter, EvictDone, MemGoto, shared, call, evict
<1>2. Others(p)
  BY DEF MemInv, MemShape, Others, EvictDone, MemGoto, shared, call, evict
<1>3. counters' = counters /\ memPC[p] # "streamundo" /\ memPC'[p] # "streamundo"
  BY DEF MemInv, MemShape, EvictDone, MemGoto, shared, call, evict
<1>4. /\ usage' - InFlight(p)' = usage - InFlight(p)
      /\ Admitted(p)' <= Admitted(p) \/ usage' <= MaxMemory
  BY MemoryAssumption
     DEF MemInv, MemShape, InFlight, Admitted, Refused, EvictDone, MemGoto, shared, call, evict
<1> QED
  BY <1>1, <1>2, <1>3, <1>4, CountersKept

LEMMA ReleaseBeginKeeps ==
  ASSUME MemInv, NEW p \in MemProcs, NEW s \in MemStreams, NEW n \in Sizes, ReleaseBegin(p, s, n),
         torn' = (torn \/ Overdrawn')
  PROVE  MemInv'
<1>1. MemShape'
  BY MemoryAssumption
     DEF MemInv, MemShape, Labels, AtCounter, ReleaseBegin, MemGoto, shared, call, evict, Call
<1>2. Others(p)
  BY DEF MemInv, MemShape, Others, ReleaseBegin, MemGoto, shared, call, evict, Call
<1>3. counters' = counters /\ memPC[p] # "streamundo" /\ memPC'[p] # "streamundo"
  BY DEF MemInv, MemShape, ReleaseBegin, MemGoto, shared, call, evict, Call
<1>4. /\ usage' - InFlight(p)' = usage - InFlight(p)
      /\ Admitted(p)' <= Admitted(p) \/ usage' <= MaxMemory
  BY MemoryAssumption DEF MemInv, MemShape, InFlight, Admitted, Refused, ReleaseBegin, MemGoto,
     shared, call, evict, Call
<1> QED
  BY <1>1, <1>2, <1>3, <1>4, CountersKept

LEMMA ReleaseSubKeeps ==
  ASSUME MemInv, NEW p \in MemProcs, ReleaseSub(p),
         torn' = (torn \/ Overdrawn')
  PROVE  MemInv'
<1>1. MemShape'
  BY MemoryAssumption
     DEF MemInv, MemShape, Labels, AtCounter, ReleaseSub, MemGoto, shared, call, evict
<1>2. Others(p)
  BY DEF MemInv, MemShape, Others, ReleaseSub, MemGoto, shared, call, evict
<1>3. counters' = counters /\ memPC[p] # "streamundo" /\ memPC'[p] # "streamundo"
  BY DEF MemInv, MemShape, ReleaseSub, MemGoto, shared, call, evict
<1>4. /\ usage' - InFlight(p)' = usage - InFlight(p)
      /\ Admitted(p)' <= Admitted(p) \/ usage' <= MaxMemory
  BY MemoryAssumption
     DEF MemInv, MemShape, InFlight, Admitted, Refused, ReleaseSub, MemGoto, shared, call, evict
<1> QED
  BY <1>1, <1>2, <1>3, <1>4, CountersKept

LEMMA ResetBeginKeeps ==
  ASSUME MemInv, NEW p \in MemProcs, NEW s \in MemStreams, ResetBegin(p, s),
         torn' = (torn \/ Overdrawn')
  PROVE  MemInv'
<1>1. MemShape'
  BY MemoryAssumption
     DEF MemInv, MemShape, Labels, AtCounter, ResetBegin, MemGoto, shared, call, evict, Call
<1>2. Others(p)
  BY DEF MemInv, MemShape, Others, ResetBegin, MemGoto, shared, call, evict, Call
<1>3. counters' = counters /\ memPC[p] # "streamundo" /\ memPC'[p] # "streamundo"
  BY DEF MemInv, MemShape, ResetBegin, MemGoto, shared, call, evict, Call
<1>4. /\ usage' - InFlight(p)' = usage - InFlight(p)
      /\ Admitted(p)' <= Admitted(p) \/ usage' <= MaxMemory
  BY MemoryAssumption DEF MemInv, MemShape, InFlight, Admitted, Refused, ResetBegin, MemGoto,
     shared, call, evict, Call
<1> QED
  BY <1>1, <1>2, <1>3, <1>4, CountersKept

\* A step that changes one counter, and neither begins nor ends an undo.
LEMMA CellKept ==
  ASSUME MemInv, MemShape', NEW p \in MemProcs, Others(p), torn' = (torn \/ Overdrawn'),
         memPC[p] # "streamundo", memPC'[p] # "streamundo",
         NEW s \in MemStreams, NEW i \in DOMAIN counters[s], NEW v \in Int,
         Put(s, i, v), usage' = usage,
         v <= StreamLimit \/ v <= counters[s][i],
         ~torn => /\ InFlight(p)' = InFlight(p) + counters[s][i] - v
                  /\ Admitted(p)' = Admitted(p) + counters[s][i] - v
  PROVE  MemInv'
<1>1. /\ Total' = Total - counters[s][i] + v
      /\ \A t \in MemStreams : DOMAIN counters'[t] = DOMAIN counters[t]
      /\ counters'[s][i] = v
      /\ \A t \in MemStreams : \A j \in DOMAIN counters[t] :
           t # s \/ j # i => counters'[t][j] = counters[t][j]
  <2>1. MemShape
    BY DEF MemInv
  <2> QED
    BY <2>1, CellChanges
<1>2. /\ usage \in Int /\ usage' \in Int /\ InFlight(p) \in Int /\ Admitted(p) \in Int
      /\ InFlight(p)' \in Int /\ Admitted(p)' \in Int
  BY DEF MemInv, MemShape, InFlight, Admitted
<1>3. Total \in Int /\ \A t \in MemStreams : \A j \in DOMAIN counters[t] : counters[t][j] \in Int
  BY SumsType, StreamSum DEF MemInv
<1>4. counters[s][i] \in Int
  BY <1>3
<1>5. ~torn => /\ usage' - Total' - InFlight(p)' = usage - Total - InFlight(p)
               /\ Total' + Admitted(p)' <= Total + Admitted(p)
  BY <1>1, <1>2, <1>3, <1>4
<1>6. ~torn' => usage' = Total' + FlightSum' /\ Total' + AdmittedSum' <= MaxMemory
  BY <1>5, Booked
<1>7. \A t \in MemStreams : \A j \in DOMAIN counters'[t] :
        \/ counters'[t][j] <= StreamLimit
        \/ j \in DOMAIN counters[t] /\ counters'[t][j] <= counters[t][j]
  BY <1>1, <1>3
<1>8. StreamBudgetKept'
  BY <1>7, BudgetMoves
<1>9. Covered'
  BY CoveredKept
<1> QED
  BY <1>6, <1>8, <1>9 DEF MemInv

\* As long as nothing is torn no counter is negative.
LEMMA NotNegative ==
  ASSUME MemInv, ~torn, NEW s \in MemStreams, NEW i \in DOMAIN counters[s]
  PROVE  counters[s][i] \in Nat
<1>1. counters[s][i] >= ToUndo(s, i)
  BY DEF MemInv, Covered
<1>2. ToUndo(s, i) \in Nat /\ counters[s][i] \in Int
  BY SumsType, StreamSum DEF MemInv
<1> QED
  BY <1>1, <1>2

LEMMA EvictSwapKeeps ==
  ASSUME MemInv, NEW p \in MemProcs, EvictSwap(p), torn' = (torn \/ Overdrawn')
  PROVE  MemInv'
<1> DEFINE s == Head(evictTodo[p])
<1>0. s \in MemStreams /\ Tail(evictTodo[p]) \in Seq(MemStreams)
  BY DEF EvictSwap, MemInv, MemShape
<1>1. CASE cur[s] = 0
  <2>1. MemShape' /\ Others(p)
    BY <1>0, <1>1 DEF MemInv, MemShape, Others, EvictSwap, call
  <2>2. counters' = counters /\ memPC[p] # "streamundo" /\ memPC'[p] # "streamundo"
    BY <1>1 DEF MemInv, MemShape, EvictSwap, call
  <2>3. /\ usage' - InFlight(p)' = usage - InFlight(p)
        /\ Admitted(p)' <= Admitted(p) \/ usage' <= MaxMemory
    BY <1>1 DEF MemInv, MemShape, InFlight, Admitted, Refused, EvictSwap, call
  <2> QED
    BY <2>1, <2>2, <2>3, CountersKept
<1>2. CASE cur[s] # 0
  <2> DEFINE i == cur[s]
  <2>1. i \in DOMAIN counters[s] /\ Usage(s) = counters[s][i] /\ counters[s][i] \in Int
    <3> HIDE DEF s
    <3>1. i \in Nat /\ i # 0 /\ i <= Len(counters[s]) /\ counters[s] \in Seq(Int)
      BY <1>0, <1>2 DEF MemInv, MemShape
    <3> HIDE DEF i
    <3>2. i \in DOMAIN counters[s] /\ counters[s][i] \in Int
      BY <3>1
    <3>3. Usage(s) = counters[s][i]
      BY <3>1 DEF Usage, i
    <3> QED BY <3>2, <3>3
  <2>2. /\ counters' = [counters EXCEPT ![s][i] = 0]
        /\ pend' = [pend EXCEPT ![p] = IF counters[s][i] > 0 THEN counters[s][i] ELSE 0]
        /\ memPC' = [memPC EXCEPT ![p] = IF counters[s][i] > 0 THEN "evictsub" ELSE "swap"]
        /\ memPC[p] = "swap"
        /\ evictTodo' = [evictTodo EXCEPT ![p] = Tail(@)]
        /\ UNCHANGED <<usage, cur, stream, size, obj>>
    BY <1>2, <2>1 DEF EvictSwap, MemGoto, call
  <2> HIDE DEF i, s
  <2>3. counters' \in [MemStreams -> Seq(Int)] /\ \A t \in MemStreams : Len(counters'[t]) = Len(counters[t])
    BY <1>0, <2>1, <2>2 DEF MemInv, MemShape
  <2>4. \A t \in MemStreams : DOMAIN counters'[t] = DOMAIN counters[t]
    BY <2>3 DEF MemInv, MemShape
  <2>5. pend' \in [MemProcs -> Nat]
    BY <2>1, <2>2 DEF MemInv, MemShape
  <2>6. MemShape'
    BY <1>0, <2>2, <2>3, <2>4, <2>5 DEF MemInv, MemShape, Labels, AtCounter
  <2>7. Others(p) /\ memPC[p] # "streamundo" /\ memPC'[p] # "streamundo"
    BY <2>2 DEF Others, MemInv, MemShape
  <2>8. ~torn => counters[s][i] \in Nat
    BY <1>0, <2>1, NotNegative
  <2>9. ~torn => /\ InFlight(p)' = InFlight(p) + counters[s][i] - 0
                 /\ Admitted(p)' = Admitted(p) + counters[s][i] - 0
    BY <2>1, <2>2, <2>8 DEF InFlight, Admitted, Refused, MemInv, MemShape
  <2>10. 0 <= StreamLimit
    BY MemoryAssumption
  <2> DEFINE v == 0
  <2>11. /\ v \in Int /\ Put(s, i, v) /\ usage' = usage
         /\ v <= StreamLimit \/ v <= counters[s][i]
         /\ ~torn => /\ InFlight(p)' = InFlight(p) + counters[s][i] - v
                     /\ Admitted(p)' = Admitted(p) + counters[s][i] - v
    BY <2>2, <2>9, <2>10 DEF Put
  <2> HIDE DEF v
  <2> QED
    BY <1>0, <2>1, <2>6, <2>7, <2>11, CellKept
<1> QED
  BY <1>1, <1>2

LEMMA GetOrCreateKeeps ==
  ASSUME MemInv, NEW p \in MemProcs, GetOrCreate(p), torn' = (torn \/ Overdrawn')
  PROVE  MemInv'
<1> DEFINE s == stream[p]
<1>0. s \in MemStreams /\ memPC[p] = "stream" /\ memPC' = [memPC EXCEPT ![p] = "streamadd"]
  BY DEF GetOrCreate, MemGoto, MemInv, MemShape
<1>1. CASE cur[s] # 0
  <2>1. /\ counters' = counters /\ obj' = [obj EXCEPT ![p] = cur[s]]
        /\ UNCHANGED <<usage, cur, stream, size, pend, evictTodo>>
    BY <1>1 DEF GetOrCreate, call, evict
  <2>2. cur[s] \in DOMAIN counters[s]
    BY <1>0, <1>1 DEF MemInv, MemShape
  <2>3. MemShape'
    BY <1>0, <2>1, <2>2 DEF MemInv, MemShape, Labels, AtCounter
  <2>4. Others(p) /\ memPC[p] # "streamundo" /\ memPC'[p] # "streamundo"
    BY <1>0, <2>1 DEF MemInv, MemShape, Others
  <2>5. /\ usage' - InFlight(p)' = usage - InFlight(p)
        /\ Admitted(p)' <= Admitted(p) \/ usage' <= MaxMemory
    BY <1>0, <2>1 DEF MemInv, MemShape, InFlight, Admitted, Refused
  <2> QED
    BY <2>1, <2>3, <2>4, <2>5, CountersKept
<1>2. CASE cur[s] = 0
  <2> DEFINE n == Len(counters[s]) + 1
  <2>1. /\ counters' = [counters EXCEPT ![s] = Append(@, 0)]
        /\ cur' = [cur EXCEPT ![s] = n] /\ obj' = [obj EXCEPT ![p] = n]
        /\ UNCHANGED <<usage, stream, size, pend, evictTodo>>
    BY <1>2 DEF GetOrCreate, call, evict
  <2>2. /\ counters' \in [MemStreams -> Seq(Int)] /\ n \in Nat
        /\ Len(counters'[s]) = n /\ \A t \in MemStreams \ {s} : counters'[t] = counters[t]
        /\ \A t \in MemStreams : DOMAIN counters[t] \subseteq DOMAIN counters'[t]
        /\ n \in DOMAIN counters'[s]
    BY <1>0, <2>1 DEF MemInv, MemShape
  <2> HIDE DEF n, s
  <2>3. \A t \in MemStreams : cur'[t] <= Len(counters'[t])
    BY <1>0, <2>1, <2>2 DEF MemInv, MemShape
  <2>4. MemShape'
    BY <1>0, <2>1, <2>2, <2>3 DEF MemInv, MemShape, Labels, AtCounter, s
  <2>5. Others(p) /\ memPC[p] # "streamundo" /\ memPC'[p] # "streamundo"
    BY <1>0, <2>1 DEF MemInv, MemShape, Others
  <2>6. /\ Total' = Total
        /\ \A t \in MemStreams : \A j \in DOMAIN counters'[t] :
              \/ counters'[t][j] = 0
              \/ j \in DOMAIN counters[t] /\ counters'[t][j] = counters[t][j]
    BY <1>0, <2>1, <2>4, AppendZero DEF MemInv
  <2>7. Total \in Int /\ \A t \in MemStreams : \A j \in DOMAIN counters[t] : counters[t][j] \in Int
    BY SumsType, StreamSum DEF MemInv
  <2>8. /\ InFlight(p)' = InFlight(p) /\ Admitted(p)' = Admitted(p) /\ usage' = usage
        /\ Admitted(p) \in Int
    BY <1>0, <2>1 DEF MemInv, MemShape, InFlight, Admitted, Refused
  <2>9. /\ usage' - Total' - InFlight(p)' = usage - Total - InFlight(p)
        /\ Total' + Admitted(p)' <= Total + Admitted(p)
    BY <2>6, <2>7, <2>8
  <2>10. ~torn' => usage' = Total' + FlightSum' /\ Total' + AdmittedSum' <= MaxMemory
    BY <2>4, <2>5, <2>9, Booked
  <2>11. \A t \in MemStreams : \A j \in DOMAIN counters'[t] :
           \/ counters'[t][j] <= StreamLimit
           \/ j \in DOMAIN counters[t] /\ counters'[t][j] <= counters[t][j]
    BY <2>6, <2>7, MemoryAssumption
  <2>12. StreamBudgetKept'
    BY <2>4, <2>5, <2>11, BudgetMoves
  <2>13. Covered'
    BY <2>4, CoveredKept
  <2> QED
    BY <2>4, <2>10, <2>12, <2>13 DEF MemInv
<1> QED
  BY <1>1, <1>2

LEMMA PutShape ==
  ASSUME MemShape, NEW s \in MemStreams, NEW i \in DOMAIN counters[s], NEW v \in Int, Put(s, i, v)
  PROVE  /\ counters' \in [MemStreams -> Seq(Int)]
         /\ \A t \in MemStreams : Len(counters'[t]) = Len(counters[t])
         /\ \A t \in MemStreams : DOMAIN counters'[t] = DOMAIN counters[t]
<1>1. counters' \in [MemStreams -> Seq(Int)] /\ \A t \in MemStreams : Len(counters'[t]) = Len(counters[t])
  BY DEF MemShape, Put
<1>2. \A t \in MemStreams : DOMAIN counters'[t] = DOMAIN counters[t]
  BY <1>1 DEF MemShape
<1> QED
  BY <1>1, <1>2

\* A step that adds over the limit, or takes that back.
LEMMA UndoKept ==
  ASSUME MemInv, MemShape', NEW p \in MemProcs, Others(p), torn' = (torn \/ Overdrawn'),
         stream[p] \in MemStreams, obj[p] \in DOMAIN counters[stream[p]], NEW v \in Int,
         Put(stream[p], obj[p], v), UNCHANGED <<usage, stream, obj, size>>,
         v - Counter(p) = Undoes(p, stream[p], obj[p])' - Undoes(p, stream[p], obj[p]),
         InFlight(p)' = InFlight(p) + Counter(p) - v,
         Admitted(p)' = Admitted(p) + Counter(p) - v
  PROVE  MemInv'
<1>s. PICK s \in MemStreams : s = stream[p]
  OBVIOUS
<1>i. PICK i \in DOMAIN counters[s] : i = obj[p]
  BY <1>s
<1>0. Put(s, i, v) /\ Counter(p) = counters[s][i] /\ MemShape
  BY <1>s, <1>i DEF MemInv, Counter
<1>u. /\ \A t, j : Undoes(p, t, j) \in Int /\ Undoes(p, t, j)' \in Int
      /\ \A t, j : t # s \/ j # i => Undoes(p, t, j) = 0 /\ Undoes(p, t, j)' = 0
  BY <1>0, <1>s, <1>i DEF Undoes, MemShape
<1>d. v - counters[s][i] = Undoes(p, s, i)' - Undoes(p, s, i)
  BY <1>0, <1>s, <1>i DEF Undoes
<1>1. /\ Total' = Total - counters[s][i] + v
      /\ \A t \in MemStreams : DOMAIN counters'[t] = DOMAIN counters[t]
      /\ counters'[s][i] = v
      /\ \A t \in MemStreams : \A j \in DOMAIN counters[t] :
           t # s \/ j # i => counters'[t][j] = counters[t][j]
  BY <1>0, CellChanges
<1>2. /\ usage \in Int /\ usage' \in Int /\ InFlight(p) \in Int /\ Admitted(p) \in Int
      /\ InFlight(p)' \in Int /\ Admitted(p)' \in Int
  <2>1. usage \in Int /\ usage' \in Int
    BY <1>0 DEF MemShape
  <2>2. InFlight(p) \in Int /\ Admitted(p) \in Int
    BY <1>0, FlightType
  <2>3. \A q \in MemProcs : (InFlight(q) \in Nat /\ Admitted(q) \in Nat /\ Admitted(q) <= InFlight(q))'
    BY DEF MemShape, InFlight, Admitted, Refused
  <2> QED
    BY <2>1, <2>2, <2>3
<1>3. Total \in Int /\ \A t \in MemStreams : \A j \in DOMAIN counters[t] : counters[t][j] \in Int
  BY SumsType, StreamSum DEF MemInv
<1>4. counters[s][i] \in Int
  BY <1>0, <1>3
<1>5. /\ usage' - Total' - InFlight(p)' = usage - Total - InFlight(p)
      /\ Total' + Admitted(p)' <= Total + Admitted(p)
  BY <1>0, <1>1, <1>2, <1>3, <1>4
<1>6. ~torn' => usage' = Total' + FlightSum' /\ Total' + AdmittedSum' <= MaxMemory
  BY <1>5, Booked
<1>7. /\ \A t, j : ToUndo(t, j)' = ToUndo(t, j) - Undoes(p, t, j) + Undoes(p, t, j)'
      /\ \A t, j : ToUndo(t, j) \in Nat
  BY <1>0, FlightMoves, SumsType
<1>8. ASSUME NEW t \in MemStreams, NEW j \in DOMAIN counters'[t]
      PROVE  counters'[t][j] <= StreamLimit + ToUndo(t, j)'
  <2>1. StreamLimit \in Int /\ j \in DOMAIN counters[t]
    BY <1>1, MemoryAssumption
  <2>2. counters[t][j] \in Int /\ counters[t][j] <= StreamLimit + ToUndo(t, j)
    BY <1>3, <2>1 DEF MemInv, StreamBudgetKept
  <2>3. ToUndo(t, j) \in Int /\ ToUndo(t, j)' = ToUndo(t, j) - Undoes(p, t, j) + Undoes(p, t, j)'
    BY <1>7
  <2>4. Undoes(p, t, j) \in Int /\ Undoes(p, t, j)' \in Int
    BY <1>u
  <2>5. CASE t = s /\ j = i
    BY <1>1, <1>d, <2>1, <2>2, <2>3, <2>4, <2>5
  <2>6. CASE t # s \/ j # i
    BY <1>1, <1>u, <2>1, <2>2, <2>3, <2>6
  <2> QED
    BY <2>5, <2>6
<1>9. StreamBudgetKept'
  BY <1>8 DEF StreamBudgetKept
<1>10. Covered'
  BY CoveredKept
<1> QED
  BY <1>6, <1>9, <1>10 DEF MemInv

LEMMA StreamAddKeeps ==
  ASSUME MemInv, NEW p \in MemProcs, StreamAdd(p), torn' = (torn \/ Overdrawn')
  PROVE  MemInv'
<1> DEFINE s == stream[p]
           i == obj[p]
           v == Counter(p) + size[p]
<1>0. /\ memPC[p] = "streamadd" /\ s \in MemStreams /\ i \in DOMAIN counters[s]
      /\ UNCHANGED <<usage, cur, stream, size, obj, pend, evictTodo>>
      /\ Put(s, i, v) /\ Counter(p) = counters[s][i] /\ MemShape
  BY DEF StreamAdd, SetCounter, Put, MemInv, MemShape, AtCounter, call, evict, Counter
<1>1. counters[s][i] \in Int /\ v \in Int /\ size[p] \in Nat
  BY <1>0, StreamSum DEF MemShape
<1>2. v > StreamLimit => memPC' = [memPC EXCEPT ![p] = "streamundo"]
  BY DEF StreamAdd, MemGoto
<1>3. ~(v > StreamLimit) => memPC' = [memPC EXCEPT ![p] = "ready"]
  BY DEF StreamAdd, MemGoto
<1> HIDE DEF v
<1>4. /\ counters' \in [MemStreams -> Seq(Int)]
      /\ \A t \in MemStreams : Len(counters'[t]) = Len(counters[t])
      /\ \A t \in MemStreams : DOMAIN counters'[t] = DOMAIN counters[t]
  BY <1>0, <1>1, PutShape
<1>5. MemShape'
  BY <1>0, <1>2, <1>3, <1>4 DEF MemInv, MemShape, Labels, AtCounter
<1>6. Others(p)
  BY <1>0, <1>2, <1>3 DEF MemInv, MemShape, Others
<1>7. /\ InFlight(p)' = InFlight(p) + Counter(p) - v
      /\ Admitted(p)' = Admitted(p) + Counter(p) - v
  BY <1>0, <1>1, <1>2, <1>3 DEF MemInv, MemShape, InFlight, Admitted, Refused, v
<1>8. CASE v > StreamLimit
  <2>1. v - Counter(p) = Undoes(p, s, i)' - Undoes(p, s, i)
    BY <1>0, <1>1, <1>2, <1>8 DEF MemShape, Undoes, v
  <2> QED
    BY <1>0, <1>1, <1>5, <1>6, <1>7, <2>1, UndoKept
<1>9. CASE ~(v > StreamLimit)
  <2>1. memPC[p] # "streamundo" /\ memPC'[p] # "streamundo"
    BY <1>0, <1>3, <1>9 DEF MemShape
  <2>2. v <= StreamLimit
    BY <1>1, <1>9, MemoryAssumption
  <2> HIDE DEF s, i
  <2> QED
    BY <1>0, <1>1, <1>5, <1>6, <1>7, <2>1, <2>2, CellKept
<1> QED
  BY <1>8, <1>9

LEMMA StreamUndoKeeps ==
  ASSUME MemInv, NEW p \in MemProcs, StreamUndo(p), torn' = (torn \/ Overdrawn')
  PROVE  MemInv'
<1> DEFINE s == stream[p]
           i == obj[p]
           v == Counter(p) - size[p]
<1>0. /\ memPC[p] = "streamundo" /\ s \in MemStreams /\ i \in DOMAIN counters[s]
      /\ UNCHANGED <<usage, cur, stream, size, obj, pend, evictTodo>>
      /\ Put(s, i, v) /\ Counter(p) = counters[s][i] /\ MemShape
      /\ memPC' = [memPC EXCEPT ![p] = "globalundo"]
  BY DEF StreamUndo, SetCounter, Put, MemInv, MemShape, AtCounter, call, evict, Counter, MemGoto
<1>1. counters[s][i] \in Int /\ v \in Int /\ size[p] \in Nat
  BY <1>0, StreamSum DEF MemShape
<1> HIDE DEF v
<1>4. /\ counters' \in [MemStreams -> Seq(Int)]
      /\ \A t \in MemStreams : Len(counters'[t]) = Len(counters[t])
      /\ \A t \in MemStreams : DOMAIN counters'[t] = DOMAIN counters[t]
  BY <1>0, <1>1, PutShape
<1>5. MemShape' /\ Others(p)
  BY <1>0, <1>4 DEF MemInv, MemShape, Labels, AtCounter, Others
<1>7. /\ InFlight(p)' = InFlight(p) + Counter(p) - v
      /\ Admitted(p)' = Admitted(p) + Counter(p) - v
  BY <1>0, <1>1 DEF MemInv, MemShape, InFlight, Admitted, Refused, v
<1>8. v - Counter(p) = Undoes(p, s, i)' - Undoes(p, s, i)
  BY <1>0, <1>1 DEF MemShape, Undoes, v
<1> QED
  BY <1>0, <1>1, <1>5, <1>7, <1>8, UndoKept

\* the smaller of two numbers
LEMMA MinOfTwo ==
  ASSUME NEW a \in Int, NEW b \in Int
  PROVE  Min({a, b}) \in Int /\ Min({a, b}) <= a /\ Min({a, b}) <= b /\ Min({a, b}) \in {a, b}
<1>1. \E x \in {a, b} : \A y \in {a, b} : x <= y
  OBVIOUS
<1> QED
  BY <1>1 DEF Min

LEMMA ReleaseCASKeeps ==
  ASSUME MemInv, NEW p \in MemProcs, ReleaseCAS(p), torn' = (torn \/ Overdrawn')
  PROVE  MemInv'
<1> DEFINE s == stream[p]
           i == obj[p]
           n == Min({Counter(p), size[p]})
           v == Counter(p) - n
<1>0. /\ memPC[p] = "cas" /\ s \in MemStreams /\ i \in DOMAIN counters[s]
      /\ UNCHANGED <<usage, cur, stream, size, obj, evictTodo>>
      /\ Counter(p) = counters[s][i] /\ MemShape
  BY DEF ReleaseCAS, MemInv, MemShape, AtCounter, call, evict, Counter
<1>1. counters[s][i] \in Int /\ size[p] \in Nat
  BY <1>0, StreamSum DEF MemShape
<1>2. CASE Counter(p) <= 0
  <2>1. memPC' = [memPC EXCEPT ![p] = "ready"] /\ counters' = counters /\ pend' = pend
    BY <1>2 DEF ReleaseCAS, MemGoto
  <2>2. MemShape' /\ Others(p)
    BY <1>0, <2>1 DEF MemShape, Labels, AtCounter, Others
  <2>3. memPC[p] # "streamundo" /\ memPC'[p] # "streamundo"
    BY <1>0, <2>1 DEF MemShape
  <2>4. /\ usage' - InFlight(p)' = usage - InFlight(p)
        /\ Admitted(p)' <= Admitted(p) \/ usage' <= MaxMemory
    BY <1>0, <2>1 DEF MemShape, InFlight, Admitted, Refused
  <2> QED
    BY <2>1, <2>2, <2>3, <2>4, CountersKept
<1>3. CASE ~(Counter(p) <= 0)
  <2>0. n \in Nat /\ n <= Counter(p)
    <3>1. Counter(p) \in Int /\ size[p] \in Int /\ size[p] >= 0 /\ Counter(p) > 0
      BY <1>0, <1>1, <1>3
    <3>2. n \in Int /\ n <= Counter(p) /\ n \in {Counter(p), size[p]}
      BY <3>1, MinOfTwo
    <3> HIDE DEF n
    <3> QED
      BY <3>1, <3>2
  <2>1. /\ memPC' = [memPC EXCEPT ![p] = "sub"] /\ pend' = [pend EXCEPT ![p] = n]
        /\ Put(s, i, v)
    BY <1>3 DEF ReleaseCAS, MemGoto, SetCounter, Put
  <2>2. v \in Int /\ v <= counters[s][i] /\ counters[s][i] - v = n
    BY <1>0, <1>1, <2>0
  <2> HIDE DEF v, n
  <2>3. /\ counters' \in [MemStreams -> Seq(Int)]
        /\ \A t \in MemStreams : Len(counters'[t]) = Len(counters[t])
        /\ \A t \in MemStreams : DOMAIN counters'[t] = DOMAIN counters[t]
    BY <1>0, <2>1, <2>2, PutShape
  <2>4. MemShape' /\ Others(p)
    BY <1>0, <2>0, <2>1, <2>3 DEF MemShape, Labels, AtCounter, Others
  <2>5. memPC[p] # "streamundo" /\ memPC'[p] # "streamundo"
    BY <1>0, <2>1 DEF MemShape
  <2>6. /\ InFlight(p)' = InFlight(p) + counters[s][i] - v
        /\ Admitted(p)' = Admitted(p) + counters[s][i] - v
    BY <1>0, <1>1, <2>0, <2>1, <2>2 DEF MemShape, InFlight, Admitted, Refused
  <2> HIDE DEF s, i
  <2> QED
    BY <1>0, <2>1, <2>2, <2>4, <2>5, <2>6, CellKept
<1> QED
  BY <1>2, <1>3

LEMMA ResetSwapKeeps ==
  ASSUME MemInv, NEW p \in MemProcs, ResetSwap(p), torn' = (torn \/ Overdrawn')
  PROVE  MemInv'
<1> DEFINE s == stream[p]
           i == obj[p]
           v == 0
           c == counters[s][i]
<1>0. /\ memPC[p] = "resetswap" /\ s \in MemStreams /\ i \in DOMAIN counters[s]
      /\ UNCHANGED <<usage, cur, stream, size, obj, evictTodo>>
      /\ Counter(p) = c /\ MemShape /\ Put(s, i, v)
      /\ pend' = [pend EXCEPT ![p] = IF c > 0 THEN c ELSE 0]
      /\ memPC' = [memPC EXCEPT ![p] = IF c > 0 THEN "sub" ELSE "ready"]
  BY DEF ResetSwap, MemInv, MemShape, AtCounter, call, evict, Counter, MemGoto, SetCounter, Put
<1>1. c \in Int /\ v \in Int /\ v <= StreamLimit /\ v = 0
  BY <1>0, StreamSum, MemoryAssumption
<1> HIDE DEF v
<1>3. /\ counters' \in [MemStreams -> Seq(Int)]
      /\ \A t \in MemStreams : Len(counters'[t]) = Len(counters[t])
      /\ \A t \in MemStreams : DOMAIN counters'[t] = DOMAIN counters[t]
  BY <1>0, <1>1, PutShape
<1>4. ~torn => c \in Nat
  BY <1>0, NotNegative
<1> HIDE DEF c
<1>5. pend' \in [MemProcs -> Nat]
  BY <1>0, <1>1 DEF MemShape
<1>6. MemShape' /\ Others(p)
  BY <1>0, <1>3, <1>5 DEF MemShape, Labels, AtCounter, Others
<1>7. memPC[p] # "streamundo" /\ memPC'[p] # "streamundo"
  BY <1>0 DEF MemShape
<1>8. ~torn => InFlight(p)' = InFlight(p) + c - v /\ Admitted(p)' = Admitted(p) + c - v
  BY <1>0, <1>1, <1>4 DEF MemShape, InFlight, Admitted, Refused
<1> HIDE DEF s, i
<1> QED
  BY <1>0, <1>1, <1>6, <1>7, <1>8, CellKept DEF c

\* A step that touches nothing the invariant is about.
LEMMA NothingMoves ==
  ASSUME MemInv, UNCHANGED <<usage, counters, cur, memPC, stream, size, obj, pend, evictTodo>>,
         torn' = torn \/ torn' = (torn \/ Overdrawn')
  PROVE  MemInv'
<1>1. MemShape'
  <2>1. torn' \in BOOLEAN
    BY DEF MemInv, MemShape
  <2> QED
    BY <2>1 DEF MemInv, MemShape
<1>2. /\ Total' = Total /\ FlightSum' = FlightSum /\ AdmittedSum' = AdmittedSum
      /\ \A s, i : ToUndo(s, i)' = ToUndo(s, i)
  BY DEF Total, FlightSum, AdmittedSum, ToUndo, InFlight, Admitted
<1>3. StreamBudgetKept'
  BY <1>2 DEF MemInv, StreamBudgetKept
<1>4. ~torn' => ~torn
  OBVIOUS
<1>5. Covered'
  BY <1>2, <1>4 DEF MemInv, Covered
<1> QED
  BY <1>1, <1>2, <1>3, <1>4, <1>5 DEF MemInv

LEMMA MemBegins == MemInit => MemInv
<1> SUFFICES ASSUME MemInit PROVE MemInv
  OBVIOUS
<1>1. MemShape
  <2>1. /\ memPC \in [MemProcs -> Labels] /\ stream \in [MemProcs -> MemStreams \cup {NoStream}]
        /\ \A p \in MemProcs : memPC[p] = "ready"
    BY DEF MemInit, Labels
  <2>2. counters \in [MemStreams -> Seq(Int)] /\ \A s \in MemStreams : Len(counters[s]) = 0
    BY DEF MemInit
  <2>3. cur \in [MemStreams -> Nat] /\ \A s \in MemStreams : cur[s] = 0
    BY DEF MemInit
  <2>4. /\ size \in [MemProcs -> Nat] /\ pend \in [MemProcs -> Nat] /\ obj \in [MemProcs -> Nat]
        /\ usage \in Int
    BY DEF MemInit
  <2>5. evictTodo \in [MemProcs -> Seq(MemStreams)] /\ torn \in BOOLEAN
    <3>1. <<>> \in Seq(MemStreams)
      OBVIOUS
    <3>2. evictTodo = [p \in MemProcs |-> <<>>] /\ torn = FALSE
      BY DEF MemInit
    <3> QED
      BY <3>1, <3>2
  <2> QED
    BY <2>1, <2>2, <2>3, <2>4, <2>5 DEF MemShape, AtCounter
<1>2. Covered /\ StreamBudgetKept
  BY DEF MemInit, Covered, StreamBudgetKept
<1> DEFINE f == [p \in MemProcs |-> InFlight(p)]
           e == [p \in MemProcs |-> Admitted(p)]
           g == [s \in MemStreams |-> SumFunction(counters[s])]
<1>3. \A p \in MemProcs : f[p] = 0 /\ e[p] = 0
  BY DEF MemInit, InFlight, Admitted
<1>4. \A s \in MemStreams : g[s] = 0
  <2>1. \A s \in MemStreams : counters[s] = <<>> /\ DOMAIN counters[s] = {}
    BY DEF MemInit
  <2> QED
    BY <2>1, SumEmpty DEF SumFunction
<1>5. /\ FlightSum = SumFunctionOnSet(f, MemProcs) /\ AdmittedSum = SumFunctionOnSet(e, MemProcs)
      /\ Total = SumFunctionOnSet(g, MemStreams)
  BY DEF FlightSum, AdmittedSum, Total, SumFunction
<1> HIDE DEF f, e, g
<1>6. FlightSum = 0 /\ AdmittedSum = 0 /\ Total = 0
  BY <1>3, <1>4, <1>5, SumZero, MemoryAssumption
<1> QED
  BY <1>1, <1>2, <1>6, MemoryAssumption DEF MemInv, MemInit

LEMMA MemKept == MemInv /\ [MemNext]_memVars => MemInv'
<1> SUFFICES ASSUME MemInv, [MemNext]_memVars PROVE MemInv'
  OBVIOUS
<1>1. CASE UNCHANGED memVars
  BY <1>1, NothingMoves DEF memVars, shared, call, evict
<1>2. CASE MemNext
  <2>0. torn' = (torn \/ Overdrawn')
    BY <1>2 DEF MemNext
  <2>1. ASSUME NEW p \in MemProcs, RequestMemory(p) PROVE MemInv'
    <3>1. CASE AddFirst(p) \/ AddAfterGC(p) \/ AddAfterEviction(p)
      BY <2>0, <3>1, GlobalAddKeeps DEF AddFirst, AddAfterGC, AddAfterEviction, Refused
    <3>2. CASE UndoFirst(p) \/ UndoAfterGC(p) \/ UndoAfterEviction(p) \/ GlobalUndoAfterStream(p)
      BY <2>0, <3>2, GlobalUndoKeeps
         DEF UndoFirst, UndoAfterGC, UndoAfterEviction, GlobalUndoAfterStream, Refused
    <3> QED
      BY <2>0, <2>1, <3>1, <3>2, RequestBeginKeeps, PressureCheckKeeps, EvictNothingKeeps,
         SelectStreamsKeeps,
         EvictSwapKeeps, EvictSubKeeps, EvictDoneKeeps, GetOrCreateKeeps, StreamAddKeeps,
         StreamUndoKeeps DEF RequestMemory
  <2>2. ASSUME NEW p \in MemProcs, ReleaseMemory(p) PROVE MemInv'
    BY <2>0, <2>2, ReleaseBeginKeeps, ReleaseCASKeeps, ReleaseSubKeeps DEF ReleaseMemory
  <2>3. ASSUME NEW p \in MemProcs, ResetStreamUsage(p) PROVE MemInv'
    BY <2>0, <2>3, ResetBeginKeeps, ResetSwapKeeps DEF ResetStreamUsage
  <2>4. ASSUME NEW s \in MemStreams, SetStreamActive(s) PROVE MemInv'
    BY <2>0, <2>4, NothingMoves DEF SetStreamActive, call, evict
  <2>5. ASSUME SetEvictionCallback PROVE MemInv'
    BY <2>0, <2>5, NothingMoves DEF SetEvictionCallback, shared, call, evict
  <2> QED
    BY <1>2, <2>1, <2>2, <2>3, <2>4, <2>5 DEF MemNext
<1> QED
  BY <1>1, <1>2

\* For any number of goroutines and streams and for all limits and sizes, the global
\* usage of the memory controller is the sum of the counters and of what the calls
\* under way have added to one side only, every stream keeps perStreamLimit and all
\* of them together maxMemory, up to the requests about to be rolled back: at every
\* point of every interleaving of RequestMemory, ReleaseMemory, evictions and
\* ResetStreamUsage, until a counter is emptied under a request that has yet to roll
\* back (controller.go:68-176, 255-292).
THEOREM MemoryStaysExact == MemSpec => []MemoryExact
<1>1. MemInv => MemoryExact
  BY DEF MemInv, MemoryExact, UsageExact, BudgetKept, FlightSum, AdmittedSum
<1> QED
  BY <1>1, MemBegins, MemKept, PTL DEF MemSpec

-----------------------------------------------------------------------------
(***************************************************************************)
(* Streams.  A stream has one owner from the handshake to the last         *)
(* clean-up, the slots of the connection limiter are counted exactly, and  *)
(* what the registry says of a stream with one sender is true; for any     *)
(* number of connections, streams and API calls.                           *)
(***************************************************************************)
Stopping == {"stop", "stopclose", "stopwait"}

StreamLabels == HoldsSlot \cup {"idle", "refused", "duplicate", "delete", "done", "run", "listener",
           "handlers", "stopped", "tlisten", "tclose", "tsrem", "lock", "locked", "get",
           "listen", "update", "rollback"}

\* The shape of what the argument talks about.
ShapeOK ==
  /\ connections \in [Streams -> Conns \cup {None}]
  /\ handlers \in [Streams -> Conns \cup {None}]
  /\ closing \in [Conns -> {"open", "del", "srem", "closed"}]
  /\ ctxDone \subseteq Conns /\ todo \subseteq Conns
  /\ pc \in [Procs -> StreamLabels]
  /\ ret \in [Procs -> {"none", "unmap", "remove", "handlers"}]
  /\ target \in [Procs -> Conns \cup {None}]

\* Where Stop returns to: it is called by Remove, by a connection that sees the
\* manager's context end, and by Manager.Stop; and what it works on.
ReturnOK ==
  /\ \A p \in Conns : pc[p] \in Stopping => target[p] \in Conns /\ ret[p] \in {"unmap", "remove"}
  /\ \A p \in Conns : pc[p] \in Stopping /\ ret[p] = "remove" => pc[Mgr] # "run"
  /\ \A p \in Ops : pc[p] \in Stopping => target[p] \in Conns /\ ret[p] = "unmap"
  /\ pc[Mgr] \in Stopping => target[Mgr] \in Conns /\ ret[Mgr] = "handlers"
  /\ pc[Mgr] \in Stopping \cup {"run", "listener", "handlers", "stopped"}

\* handlersMu is held from the start of a removal to its end.
LockOK ==
  \A p \in Conns \cup Ops :
    pc[p] = "unmap" \/ (pc[p] \in Stopping /\ ret[p] = "unmap") => handlersMu = p

\* A handler in the map is that of a connection of its stream that has not
\* removed it yet.
MapOK ==
  \A s \in Streams : handlers[s] # None =>
    /\ StreamOf[handlers[s]] = s
    /\ pc[handlers[s]] \in {"wait", "unmap", "remove"} \cup Stopping

OwnOK == \A c \in Conns : pc[c] \in Stopping \cup {"unmap"} => target[c] = c

\* While the manager runs: who is past the end of its handler has been closed,
\* and a handler whose context is done is closed or about to be, by the API
\* call that holds handlersMu.
CloseOK ==
  pc[Mgr] = "run" =>
    /\ \A c \in Conns :
         pc[c] \in Stopping \cup {"failsrem", "unmap", "removed", "release", "delete", "done"} =>
           closing[c] = "closed"
    /\ \A c \in Conns : pc[c] = "remove" => c \in ctxDone
    /\ \A c \in ctxDone :
         \/ closing[c] = "closed"
         \/ \E o \in Ops : /\ handlersMu = o /\ target[o] = c
                           /\ pc[o] \in {"stopclose", "stopwait"}

OwnerInv == ShapeOK /\ ReturnOK /\ LockOK /\ ServedAlone /\ MapOK /\ OwnOK /\ CloseOK

USE LifecycleAssumption

LEMMA InitOK == Init => OwnerInv
BY DEF Init, OwnerInv, ShapeOK, ReturnOK, LockOK, ServedAlone, MapOK, OwnOK, CloseOK,
       Stopping, StreamLabels, HoldsSlot, Serving, Procs

\* The listener, before and at the hand-over to handleConnection.
LEMMA ListenerKeeps == ASSUME OwnerInv, NEW c \in Conns, Listener(c) PROVE OwnerInv'
<1> USE DEF OwnerInv, ShapeOK, ReturnOK, LockOK, ServedAlone, MapOK, OwnOK, CloseOK,
            Stopping, StreamLabels, HoldsSlot, Serving, Procs, Goto, limiter, conn, handler, redis, local
<1>1. CASE IncomingAcquires(c)
  BY <1>1 DEF IncomingAcquires, CanAcquire, Acquire, ListenerOpen
<1>2. CASE IncomingRejected(c)
  BY <1>2 DEF IncomingRejected, CanAcquire, ListenerOpen
<1>7. CASE IncomingAccepted(c)
  BY <1>7 DEF IncomingAccepted
<1>8. CASE IncomingActive(c)
  BY <1>8 DEF IncomingActive, Release
<1>3. CASE AcceptFails(c)
  BY <1>3 DEF AcceptFails, Release, AcceptLoopFree, ListenerOpen
<1>4. CASE AcceptStores(c)
  BY <1>4 DEF AcceptStores, AcceptLoopFree, ListenerOpen
<1>5. CASE AcceptDuplicate(c)
  BY <1>5 DEF AcceptDuplicate, AcceptLoopFree, ListenerOpen, Release, StartClose
<1>6. CASE DuplicateClosed(c)
  BY <1>6 DEF DuplicateClosed, Closed
<1> QED
  BY <1>1, <1>2, <1>3, <1>4, <1>5, <1>6, <1>7, <1>8 DEF Listener

\* The body of closeOnce.
LEMMA CloseKeeps == ASSUME OwnerInv, NEW c \in Conns, Close(c) PROVE OwnerInv'
<1> USE DEF OwnerInv, ShapeOK, ReturnOK, LockOK, ServedAlone, MapOK, OwnOK, CloseOK,
            Stopping, StreamLabels, HoldsSlot, Serving, Procs, Goto, limiter, conn, handler, redis, local
<1>1. CASE CloseDel(c)
  BY <1>1 DEF CloseDel, Del, Set
<1>2. CASE CloseSRem(c)
  BY <1>2 DEF CloseSRem, SRem
<1> QED
  BY <1>1, <1>2 DEF Close

\* StreamHandler.Stop, whoever calls it.
LEMMA StopKeeps == ASSUME OwnerInv, NEW p \in Procs, Stop(p) PROVE OwnerInv'
<1> USE DEF OwnerInv, ShapeOK, ReturnOK, LockOK, ServedAlone, MapOK, OwnOK, CloseOK,
            Stopping, StreamLabels, HoldsSlot, Serving, Procs, Goto, limiter, conn, handler, redis, local
<1>1. CASE StopMark(p)
  <2>1. CASE p \in Conns
    <3>1. target[p] = p /\ ret[p] \in {"unmap", "remove"} /\ p \notin Ops
      BY <1>1, <2>1 DEF StopMark
    <3>2. ShapeOK' /\ ReturnOK' /\ OwnOK'
      BY <1>1, <2>1, <3>1 DEF StopMark
    <3>3. LockOK' /\ ServedAlone' /\ MapOK'
      BY <1>1, <2>1, <3>1 DEF StopMark
    <3>4. CloseOK'
      BY <1>1, <2>1, <3>1 DEF StopMark
    <3> QED
      BY <3>2, <3>3, <3>4
  <2>2. CASE p \in Ops
    BY <1>1, <2>2 DEF StopMark
  <2>3. CASE p = Mgr
    BY <1>1, <2>3 DEF StopMark
  <2> QED
    BY <2>1, <2>2, <2>3
<1>2. CASE StopClose(p)
  <2>1. CASE p \in Conns
    BY <1>2, <2>1 DEF StopClose, StartClose
  <2>2. CASE p \in Ops
    BY <1>2, <2>2 DEF StopClose, StartClose
  <2>3. CASE p = Mgr
    BY <1>2, <2>3 DEF StopClose, StartClose
  <2> QED
    BY <2>1, <2>2, <2>3
<1>3. CASE StopReturn(p)
  <2>1. CASE p \in Conns
    <3>1. target[p] = p /\ ret[p] \in {"unmap", "remove"} /\ p \notin Ops
      BY <1>3, <2>1 DEF StopReturn, Closed
    <3>2. ShapeOK' /\ ReturnOK' /\ OwnOK'
      BY <1>3, <2>1, <3>1 DEF StopReturn, Closed
    <3>3. LockOK' /\ ServedAlone' /\ MapOK'
      BY <1>3, <2>1, <3>1 DEF StopReturn, Closed
    <3>4. CloseOK'
      BY <1>3, <2>1, <3>1 DEF StopReturn, Closed
    <3> QED
      BY <3>2, <3>3, <3>4
  <2>2. CASE p \in Ops
    BY <1>3, <2>2 DEF StopReturn, Closed
  <2>3. CASE p = Mgr
    BY <1>3, <2>3 DEF StopReturn, Closed
  <2> QED
    BY <2>1, <2>2, <2>3
<1> QED
  BY <1>1, <1>2, <1>3 DEF Stop

\* RemoveStreamHandler of a connection finds its own handler or none.
LEMMA OwnRemoveKeeps ==
  ASSUME OwnerInv, NEW c \in Conns, RemoveStreamHandler(c, StreamOf[c]) PROVE OwnerInv'
<1> USE DEF OwnerInv, ShapeOK, ReturnOK, LockOK, ServedAlone, MapOK, OwnOK, CloseOK,
            Stopping, StreamLabels, HoldsSlot, Serving, Procs, Goto, limiter, conn, handler, redis, local
<1>1. CASE RemoveBegin(c, StreamOf[c])
  BY <1>1 DEF RemoveBegin
<1>2. CASE RemoveEnd(c, StreamOf[c])
  BY <1>2 DEF RemoveEnd
<1> QED
  BY <1>1, <1>2 DEF RemoveStreamHandler

LEMMA ApiRemoveKeeps ==
  ASSUME OwnerInv, NEW o \in Ops, RemoveStreamHandler(o, OpStream[o]) PROVE OwnerInv'
<1> USE DEF OwnerInv, ShapeOK, ReturnOK, LockOK, ServedAlone, MapOK, OwnOK, CloseOK,
            Stopping, StreamLabels, HoldsSlot, Serving, Procs, Goto, limiter, conn, handler, redis, local
<1>1. CASE RemoveBegin(o, OpStream[o])
  BY <1>1 DEF RemoveBegin
<1>2. CASE RemoveEnd(o, OpStream[o])
  BY <1>2 DEF RemoveEnd
<1> QED
  BY <1>1, <1>2 DEF RemoveStreamHandler

\* handleConnection and HandleSRTConnection.
LEMMA ConnectionKeeps == ASSUME OwnerInv, NEW c \in Conns, HandleSRTConnection(c) PROVE OwnerInv'
<1> USE DEF OwnerInv, ShapeOK, ReturnOK, LockOK, ServedAlone, MapOK, OwnOK, CloseOK,
            Stopping, StreamLabels, HoldsSlot, Serving, Procs, Goto, limiter, conn, handler, redis, local
<1>1. CASE RegisterGet(c)
  BY <1>1 DEF RegisterGet
<1>2. CASE RegisterNew(c)
  BY <1>2 DEF RegisterNew, Set
<1>3. CASE RegisterSet(c)
  BY <1>3 DEF RegisterSet, Set
<1>4. CASE CreateStreamHandler(c)
  BY <1>4 DEF CreateStreamHandler
<1>5. CASE CreateFails(c)
  BY <1>5 DEF CreateFails, StartClose
<1>6. CASE FailedUnregister(c)
  BY <1>6 DEF FailedUnregister, Closed, Del, Set
<1>7. CASE FailedSRem(c)
  BY <1>7 DEF FailedSRem, SRem
<1>8. CASE HandlerDone(c)
  BY <1>8 DEF HandlerDone, ManagerCancelled
<1>9. CASE ManagerDone(c)
  BY <1>9 DEF ManagerDone, ManagerCancelled
<1>10. CASE Removed(c)
  BY <1>10 DEF Removed
<1>11. CASE ReleaseSlot(c)
  BY <1>11 DEF ReleaseSlot, Release
<1>12. CASE DeleteConnection(c)
  BY <1>12 DEF DeleteConnection
<1>13. CASE Stop(c)
  BY <1>13, StopKeeps DEF Procs
<1>14. CASE RemoveStreamHandler(c, StreamOf[c])
  BY <1>14, OwnRemoveKeeps DEF Procs
<1> QED
  BY <1>1, <1>2, <1>3, <1>4, <1>5, <1>6, <1>7, <1>8, <1>9, <1>10, <1>11, <1>12, <1>13, <1>14
     DEF HandleSRTConnection

\* TerminateStream.
LEMMA TerminateKeeps == ASSUME OwnerInv, NEW o \in Ops, TerminateStream(o) PROVE OwnerInv'
<1> USE DEF OwnerInv, ShapeOK, ReturnOK, LockOK, ServedAlone, MapOK, OwnOK, CloseOK,
            Stopping, StreamLabels, HoldsSlot, Serving, Procs, Goto, limiter, conn, handler, redis, local
<1>1. CASE TerminateGet(o)
  BY <1>1 DEF TerminateGet
<1>2. CASE TerminateConnection(o)
  BY <1>2 DEF TerminateConnection, StartClose
<1>3. CASE TerminateDel(o)
  BY <1>3 DEF TerminateDel, Closed, Del, Set
<1>4. CASE TerminateSRem(o)
  BY <1>4 DEF TerminateSRem, SRem
<1>5. CASE TerminateDeleteLock(o)
  BY <1>5 DEF TerminateDeleteLock
<1>6. CASE Stop(o)
  BY <1>6, StopKeeps DEF Procs
<1>7. CASE RemoveStreamHandler(o, OpStream[o])
  BY <1>7, ApiRemoveKeeps DEF Procs
<1> QED
  BY <1>1, <1>2, <1>3, <1>4, <1>5, <1>6, <1>7 DEF TerminateStream

\* PauseStream and ResumeStream.
LEMMA PauseResumeKeeps == ASSUME OwnerInv, NEW o \in Ops, PauseResume(o) PROVE OwnerInv'
<1> USE DEF OwnerInv, ShapeOK, ReturnOK, LockOK, ServedAlone, MapOK, OwnOK, CloseOK,
            Stopping, StreamLabels, HoldsSlot, Serving, Procs, Goto, limiter, conn, handler, redis, local
<1>1. CASE OpLock(o)
  BY <1>1 DEF OpLock
<1>2. CASE OpLocked(o)
  BY <1>2 DEF OpLocked
<1>3. CASE OpChecked(o)
  BY <1>3 DEF OpChecked
<1>4. CASE OpGet(o)
  BY <1>4 DEF OpGet
<1>5. CASE OpListener(o)
  BY <1>5 DEF OpListener, SetPaused
<1>6. CASE OpUpdate(o)
  BY <1>6 DEF OpUpdate, Set
<1>7. CASE OpRollback(o)
  BY <1>7 DEF OpRollback, SetPaused
<1> QED
  BY <1>1, <1>2, <1>3, <1>4, <1>5, <1>6, <1>7 DEF PauseResume

\* Manager.Stop.
LEMMA ShutdownKeeps == ASSUME OwnerInv, Shutdown PROVE OwnerInv'
<1> USE DEF OwnerInv, ShapeOK, ReturnOK, LockOK, ServedAlone, MapOK, OwnOK, CloseOK,
            Stopping, StreamLabels, HoldsSlot, Serving, Procs, Goto, limiter, conn, handler, redis, local
<1>1. CASE ManagerStop
  BY <1>1 DEF ManagerStop
<1>2. CASE ListenerStopped
  BY <1>2 DEF ListenerStopped
<1>3. CASE StopOneHandler
  BY <1>3 DEF StopOneHandler
<1>4. CASE ClearHandlers
  BY <1>4 DEF ClearHandlers
<1>5. CASE Stop(Mgr)
  BY <1>5, StopKeeps DEF Procs
<1> QED
  BY <1>1, <1>2, <1>3, <1>4, <1>5 DEF Shutdown

LEMMA StepKeepsOwner == OwnerInv /\ [Next]_vars => OwnerInv'
<1> SUFFICES ASSUME OwnerInv, [Next]_vars PROVE OwnerInv'
  OBVIOUS
<1>1. ASSUME NEW c \in Conns, Listener(c) PROVE OwnerInv'
  BY <1>1, ListenerKeeps
<1>2. ASSUME NEW c \in Conns, HandleSRTConnection(c) PROVE OwnerInv'
  BY <1>2, ConnectionKeeps
<1>3. ASSUME NEW c \in Conns, Close(c) PROVE OwnerInv'
  BY <1>3, CloseKeeps
<1>4. ASSUME NEW o \in Ops, TerminateStream(o) PROVE OwnerInv'
  BY <1>4, TerminateKeeps
<1>5. ASSUME NEW o \in Ops, PauseResume(o) PROVE OwnerInv'
  BY <1>5, PauseResumeKeeps
<1>6. CASE Shutdown
  BY <1>6, ShutdownKeeps
<1>7. ASSUME UNCHANGED <<connections, handlers, closing, ctxDone, handlersMu, pc, ret, target, todo>>
      PROVE  OwnerInv'
  BY <1>7 DEF OwnerInv, ShapeOK, ReturnOK, LockOK, ServedAlone, MapOK, OwnOK, CloseOK
<1>8. ASSUME NEW c \in Conns, StartHandler(c) \/ PeerLost(c) PROVE OwnerInv'
  BY <1>7, <1>8 DEF StartHandler, PeerLost, conn, handler, local
<1>9. ASSUME NEW s \in Streams, Expire(s) PROVE OwnerInv'
  BY <1>7, <1>9 DEF Expire, conn, handler, local
<1>10. CASE List
  BY <1>7, <1>10 DEF List, conn, handler, local
<1>11. CASE UNCHANGED vars
  BY <1>7, <1>11 DEF vars, conn, handler, local
<1> QED
  BY <1>1, <1>2, <1>3, <1>4, <1>5, <1>6, <1>8, <1>9, <1>10, <1>11 DEF Next

LEMMA OwnerInvariant == Spec => []OwnerInv
<1> QED
  BY InitOK, StepKeepsOwner, PTL DEF Spec

\* No two connections of one stream ID are served at the same time, a clean-up
\* only stops the handler of its own connection, and no connection is left open
\* behind one, for any number of senders, streams and API calls and with every
\* fault of the model (srt/listener.go:234-305, manager.go:589-737).
THEOREM StreamHasOneOwner == Spec => []OneOwner
<1>1. OwnerInv => OneOwner
  BY DEF OwnerInv, ShapeOK, ReturnOK, LockOK, ServedAlone, MapOK, OwnOK, CloseOK, OneOwner,
         RemovesOwnHandler, CleanupCloses, ManagerCancelled, Closed, Stopping, Serving, HoldsSlot
<1> QED
  BY <1>1, OwnerInvariant, PTL

-----------------------------------------------------------------------------
(* The connection limiter                                                  *)

Held == {c \in Conns : pc[c] \in HoldsSlot}
HeldOf(s) == {c \in Held : StreamOf[c] = s}

\* LimiterExact with its types, over the set of connections that hold a slot.
SlotsOK ==
  /\ slots \in [Streams -> Nat] /\ total \in Nat
  /\ \A s \in Streams : slots[s] = Cardinality(HeldOf(s))
  /\ total = Cardinality(Held)
  /\ MaxTotal > 0 => total <= MaxTotal

LEMMA HeldFinite == /\ IsFiniteSet(Held) /\ Cardinality(Held) \in Nat
                    /\ \A s \in Streams : IsFiniteSet(HeldOf(s)) /\ Cardinality(HeldOf(s)) \in Nat
BY FS_Subset, FS_CardinalityType DEF Held, HeldOf

\* The handshake takes a slot for a connection that holds none.
LEMMA AcquireKeeps ==
  ASSUME SlotsOK, NEW c \in Conns, c \notin Held, Held' = Held \cup {c},
         CanAcquire(StreamOf[c]), Acquire(StreamOf[c])
  PROVE  SlotsOK'
<1> DEFINE s == StreamOf[c]
<1>1. Cardinality(Held') = Cardinality(Held) + 1
  BY HeldFinite, FS_AddElement
<1>2. Cardinality(HeldOf(s)') = Cardinality(HeldOf(s)) + 1
  <2>1. HeldOf(s)' = HeldOf(s) \cup {c} /\ c \notin HeldOf(s)
    BY DEF HeldOf
  <2> QED
    BY <2>1, HeldFinite, FS_AddElement
<1>3. \A t \in Streams \ {s} : HeldOf(t)' = HeldOf(t)
  BY DEF HeldOf
<1>4. slots' \in [Streams -> Nat] /\ total' \in Nat
  BY DEF SlotsOK, Acquire
<1>5. \A t \in Streams : slots'[t] = Cardinality(HeldOf(t)')
  BY <1>2, <1>3 DEF SlotsOK, Acquire
<1> QED
  BY <1>1, <1>4, <1>5 DEF SlotsOK, Acquire, CanAcquire

\* Whoever gives back a slot has one, so the release counts.
LEMMA ReleaseKeeps ==
  ASSUME SlotsOK, NEW c \in Held, Held' = Held \ {c}, Release(StreamOf[c])
  PROVE  SlotsOK'
<1> DEFINE s == StreamOf[c]
<1>0. c \in Conns /\ s \in Streams
  BY DEF Held
<1>1. Cardinality(Held') = Cardinality(Held) - 1
  BY HeldFinite, FS_RemoveElement
<1>2. /\ Cardinality(HeldOf(s)') = Cardinality(HeldOf(s)) - 1
      /\ Cardinality(HeldOf(s)') \in Nat
  <2>1. HeldOf(s)' = HeldOf(s) \ {c} /\ c \in HeldOf(s)
    BY DEF HeldOf
  <2>2. IsFiniteSet(HeldOf(s)) /\ IsFiniteSet(HeldOf(s)')
    BY <1>0, <2>1, HeldFinite, FS_Subset
  <2> QED
    BY <2>1, <2>2, FS_RemoveElement, FS_CardinalityType
<1>3. \A t \in Streams \ {s} : HeldOf(t)' = HeldOf(t)
  BY DEF HeldOf
<1>4. Cardinality(HeldOf(s)) \in Nat /\ Cardinality(Held) \in Nat /\ Cardinality(Held') \in Nat
  <2>1. IsFiniteSet(Held')
    BY HeldFinite, FS_Subset
  <2> QED
    BY <1>0, <2>1, HeldFinite, FS_CardinalityType
<1>5. slots[s] > 0
  BY <1>0, <1>2, <1>4 DEF SlotsOK
<1>6. slots' \in [Streams -> Nat] /\ total' \in Nat /\ total' = total - 1
  BY <1>0, <1>1, <1>4, <1>5 DEF SlotsOK, Release
<1>7. \A t \in Streams : slots'[t] = Cardinality(HeldOf(t)')
  BY <1>0, <1>2, <1>3, <1>5 DEF SlotsOK, Release
<1> QED
  BY <1>1, <1>4, <1>6, <1>7 DEF SlotsOK

LEMMA OthersKeep ==
  ASSUME SlotsOK, Held' = Held, UNCHANGED limiter
  PROVE  SlotsOK'
BY DEF SlotsOK, HeldOf, limiter

LEMMA HandshakeTakes ==
  ASSUME OwnerInv, NEW c \in Conns, IncomingAcquires(c)
  PROVE  c \notin Held /\ Held' = Held \cup {c}
BY DEF OwnerInv, ShapeOK, IncomingAcquires, Goto, Held, HoldsSlot, Procs

LEMMA GivesBack ==
  ASSUME OwnerInv, NEW c \in Conns,
         IncomingActive(c) \/ AcceptFails(c) \/ AcceptDuplicate(c) \/ ReleaseSlot(c)
  PROVE  c \in Held /\ Held' = Held \ {c} /\ Release(StreamOf[c])
BY DEF OwnerInv, ShapeOK, IncomingActive, AcceptFails, AcceptDuplicate, ReleaseSlot, Goto,
       Held, HoldsSlot, Procs

\* Stop brings a connection back to where it still has its slot.
LEMMA StopHolds ==
  ASSUME OwnerInv, NEW p \in Procs, Stop(p)
  PROVE  Held' = Held /\ UNCHANGED limiter
BY DEF OwnerInv, ShapeOK, ReturnOK, Stopping, Stop, StopMark, StopClose, StopReturn, Goto,
       Held, HoldsSlot, Procs

LEMMA RemoveHolds ==
  ASSUME OwnerInv, NEW p \in Procs, NEW s \in Streams, RemoveStreamHandler(p, s)
  PROVE  Held' = Held /\ UNCHANGED limiter
BY DEF OwnerInv, ShapeOK, RemoveStreamHandler, RemoveBegin, RemoveEnd, Goto,
       Held, HoldsSlot, Procs

\* Every other step leaves the slots where they are.
LEMMA StepKeepsSlots == OwnerInv /\ SlotsOK /\ [Next]_vars => SlotsOK'
<1> SUFFICES ASSUME OwnerInv, SlotsOK, [Next]_vars PROVE SlotsOK'
  OBVIOUS
<1>1. ASSUME NEW c \in Conns, Listener(c) PROVE SlotsOK'
  <2>1. CASE IncomingAcquires(c)
    BY <2>1, HandshakeTakes, AcquireKeeps DEF IncomingAcquires
  <2>2. CASE IncomingActive(c) \/ AcceptFails(c) \/ AcceptDuplicate(c)
    BY <2>2, GivesBack, ReleaseKeeps
  <2>3. CASE IncomingRejected(c) \/ IncomingAccepted(c) \/ AcceptStores(c) \/ DuplicateClosed(c)
    <3>1. Held' = Held /\ UNCHANGED limiter
      BY <2>3 DEF OwnerInv, ShapeOK, IncomingRejected, IncomingAccepted, AcceptStores,
         DuplicateClosed, Goto,
                  Held, HoldsSlot, Procs
    <3> QED
      BY <3>1, OthersKeep
  <2> QED
    BY <1>1, <2>1, <2>2, <2>3 DEF Listener
<1>2. ASSUME NEW c \in Conns, HandleSRTConnection(c) PROVE SlotsOK'
  <2>1. CASE ReleaseSlot(c)
    BY <2>1, GivesBack, ReleaseKeeps
  <2>2. CASE Stop(c) \/ RemoveStreamHandler(c, StreamOf[c])
    BY <2>2, StopHolds, RemoveHolds, OthersKeep DEF Procs
  <2>3. CASE RegisterGet(c) \/ RegisterNew(c) \/ RegisterSet(c) \/ CreateStreamHandler(c)
             \/ CreateFails(c) \/ FailedUnregister(c) \/ FailedSRem(c)
    <3>1. Held' = Held /\ UNCHANGED limiter
      BY <2>3 DEF OwnerInv, ShapeOK, RegisterGet, RegisterNew, RegisterSet, CreateStreamHandler,
                  CreateFails, FailedUnregister, FailedSRem, Goto, Held, HoldsSlot, Procs
    <3> QED
      BY <3>1, OthersKeep
  <2>4. CASE HandlerDone(c) \/ ManagerDone(c) \/ Removed(c) \/ DeleteConnection(c)
    <3>1. Held' = Held /\ UNCHANGED limiter
      BY <2>4 DEF OwnerInv, ShapeOK, HandlerDone, ManagerDone, Removed, DeleteConnection, Goto,
                  Held, HoldsSlot, Procs
    <3> QED
      BY <3>1, OthersKeep
  <2> QED
    BY <1>2, <2>1, <2>2, <2>3, <2>4 DEF HandleSRTConnection
<1>3. ASSUME NEW o \in Ops, TerminateStream(o) PROVE SlotsOK'
  <2>1. CASE Stop(o) \/ RemoveStreamHandler(o, OpStream[o])
    BY <2>1, StopHolds, RemoveHolds, OthersKeep DEF Procs
  <2>2. CASE TerminateGet(o) \/ TerminateConnection(o) \/ TerminateDel(o) \/ TerminateSRem(o)
             \/ TerminateDeleteLock(o)
    <3>1. Held' = Held /\ UNCHANGED limiter
      BY <2>2 DEF OwnerInv, ShapeOK, TerminateGet, TerminateConnection, TerminateDel,
                  TerminateSRem, TerminateDeleteLock, Goto, Held, Procs
    <3> QED
      BY <3>1, OthersKeep
  <2> QED
    BY <1>3, <2>1, <2>2 DEF TerminateStream
<1>4. ASSUME NEW o \in Ops, PauseResume(o) PROVE SlotsOK'
  <2>1. Held' = Held /\ UNCHANGED limiter
    BY <1>4 DEF PauseResume, OwnerInv, ShapeOK, OpLock, OpLocked, OpChecked, OpGet, OpListener,
                OpUpdate, OpRollback, Goto, Held, Procs
  <2> QED
    BY <2>1, OthersKeep
<1>5. CASE Shutdown
  <2>1. CASE Stop(Mgr)
    BY <2>1, StopHolds, OthersKeep DEF Procs
  <2>2. CASE ManagerStop \/ ListenerStopped \/ StopOneHandler \/ ClearHandlers
    <3>1. Held' = Held /\ UNCHANGED limiter
      BY <2>2 DEF OwnerInv, ShapeOK, ManagerStop, ListenerStopped, StopOneHandler, ClearHandlers,
                  Goto, Held, Procs
    <3> QED
      BY <3>1, OthersKeep
  <2> QED
    BY <1>5, <2>1, <2>2 DEF Shutdown
<1>6. ASSUME UNCHANGED <<pc, limiter>> PROVE SlotsOK'
  BY <1>6, OthersKeep DEF Held
<1>7. ASSUME NEW c \in Conns, StartHandler(c) \/ Close(c) \/ PeerLost(c) PROVE SlotsOK'
  BY <1>6, <1>7 DEF StartHandler, Close, CloseDel, CloseSRem, PeerLost
<1>8. ASSUME NEW s \in Streams, Expire(s) \/ List PROVE SlotsOK'
  BY <1>6, <1>8 DEF Expire, List
<1>9. CASE List
  BY <1>6, <1>9 DEF List
<1>10. CASE UNCHANGED vars
  BY <1>6, <1>10 DEF vars
<1> QED
  BY <1>1, <1>2, <1>3, <1>4, <1>5, <1>7, <1>8, <1>9, <1>10 DEF Next

\* No path through the listener and the clean-up leaks a slot or frees one
\* twice, and the limit on all connections is kept, for any number of senders
\* and streams and with every fault of the model (srt/listener.go:190-305).
THEOREM SlotsAreExact == Spec => []LimiterExact
<1>1. Init => SlotsOK
  <2> SUFFICES ASSUME Init PROVE SlotsOK
    OBVIOUS
  <2>1. Held = {} /\ \A s \in Streams : HeldOf(s) = {}
    BY DEF Init, Held, HeldOf, HoldsSlot, Procs
  <2>2. Cardinality(Held) = 0 /\ \A s \in Streams : Cardinality(HeldOf(s)) = 0
    BY <2>1, FS_EmptySet
  <2> QED
    BY <2>2 DEF SlotsOK, Init
<1>2. SlotsOK => LimiterExact
  <2>1. \A s \in Streams : HeldOf(s) = {c \in Conns : StreamOf[c] = s /\ pc[c] \in HoldsSlot}
    BY DEF HeldOf, Held
  <2> QED
    BY <2>1 DEF SlotsOK, LimiterExact, Held
<1> QED
  BY <1>1, <1>2, OwnerInvariant, StepKeepsSlots, PTL DEF Spec

-----------------------------------------------------------------------------
(* The registry                                                            *)

Unregistered == {"idle", "refused", "checking", "accepted", "register", "regnew"}
Terminating  == Stopping \cup {"tlisten", "tclose", "tsrem", "remove", "unmap", "removed"}
AfterDelete  == Terminating \ {"tlisten", "tclose"}
Leaving      == Stopping \cup {"failsrem", "unmap", "removed", "release", "delete", "done"}
OnRecord     == {"listen", "update", "rollback"}

Records == [owner : Conns \cup {None}, status : {"active", "paused"}]

OnStream(s) == {o \in Ops : OpStream[o] = s}

RegistryShape ==
  /\ record \in [Streams -> {None} \cup Records]
  /\ paused \subseteq Conns
  /\ snap \in [Ops -> {None} \cup Records]
  /\ lockGen \in [Streams -> Nat] /\ gen \in [Ops -> Nat]

\* Where a connection can be; the listener's map names those it serves.
ServesOK ==
  /\ \A c \in Conns : pc[c] \in Serving \cup {"idle", "checking", "accepted", "refused", "duplicate", "done"}
  /\ \A s \in Streams : connections[s] # None =>
       StreamOf[connections[s]] = s /\ pc[connections[s]] \in Serving

\* Where an API call can be; TerminateStream keeps Manager.Stop out and stops a
\* handler of its own stream.
CallOK(o) ==
  IF KindOf[o] = "terminate"
  THEN /\ pc[o] \in Terminating \cup {"idle", "done"}
       /\ pc[o] \in Terminating => pc[Mgr] = "run"
       /\ pc[o] \in Stopping => StreamOf[target[o]] = OpStream[o]
  ELSE /\ pc[o] \in InOp \cup {"idle", "lock", "done"}
       /\ pc[o] \in OnRecord => snap[o] \in Records

CallsOK == \A o \in Ops : CallOK(o)

\* Two calls under way on one stream hold different mutexes.
MutexOK ==
  /\ \A o \in Ops : gen[o] <= lockGen[OpStream[o]]
  /\ \A o, q \in Ops : pc[o] \in InOp /\ pc[q] \in InOp /\ OpStream[o] = OpStream[q]
                         /\ gen[o] = gen[q] => o = q

\* Before the only sender of a stream has registered there is nothing to find.
NotYet(c) ==
  pc[c] \in Unregistered =>
    /\ record[StreamOf[c]] = None /\ lockGen[StreamOf[c]] = 0 /\ c \notin paused
    /\ pc[Mgr] = "run" => c \notin ctxDone
    /\ \A o \in OnStream(StreamOf[c]) : pc[o] \notin Terminating \cup OnRecord

\* Afterwards a key that is gone stays away; it is gone when TerminateStream has
\* deleted it, and when the connection ends.
GoneOK(c) ==
  /\ pc[c] \notin {"regset", "duplicate"}
  /\ \A o \in OnStream(StreamOf[c]) : pc[o] \in AfterDelete => record[StreamOf[c]] = None
  /\ lockGen[StreamOf[c]] # 0 => record[StreamOf[c]] = None
  /\ pc[Mgr] = "run" /\ (c \in ctxDone \/ pc[c] \in Leaving) => record[StreamOf[c]] = None

\* While the key exists the calls that work on it know the record as it is; the
\* status differs from the flag only between the two halves of a call.
StatusOK(c) ==
  LET s == StreamOf[c]
      halfway == {o \in OnStream(s) : pc[o] \in {"update", "rollback"}}
  IN  record[s] # None /\ connections[s] = c =>
        /\ \A o \in OnStream(s) : pc[o] \in OnRecord =>
             snap[o] = record[s] /\ record[s].status = From(o)
        /\ \A o \in halfway : (To(o) = "paused" <=> c \in paused)
        /\ halfway = {} => (record[s].status = "paused" <=> c \in paused)

SenderOK == \A c \in Conns : FirstOfItsStream(c) => NotYet(c) /\ GoneOK(c) /\ StatusOK(c)

RegistryInv == RegistryShape /\ ServesOK /\ CallsOK /\ MutexOK /\ SenderOK

LEMMA RegistryInit == ASSUME "crashed" \notin Faults PROVE Init => RegistryInv
BY DEF Init, RegistryInv, RegistryShape, ServesOK, CallsOK, CallOK, MutexOK, SenderOK, NotYet,
       GoneOK, StatusOK, Stopping, Unregistered, Terminating, AfterDelete, Leaving, OnRecord,
       Records, OnStream, InOp, Procs

\* The listener's map stays right when no connection moves.
LEMMA ServesFrame ==
  ASSUME OwnerInv, ServesOK, UNCHANGED connections, \A c \in Conns : pc'[c] = pc[c]
  PROVE  ServesOK'
BY DEF OwnerInv, ShapeOK, ServesOK

\* StopMark by a connection
LEMMA StopMarkConnTrue ==
  ASSUME OwnerInv, RegistryInv, NEW c \in Conns, StopMark(c)
  PROVE  RegistryInv'
<1> USE DEF OwnerInv, ShapeOK, RegistryInv, Procs, Goto, limiter, conn, handler, redis, local,
            StopMark
<1>1. target[c] = c /\ ret[c] \in {"unmap", "remove"} /\ pc[c] = "stop"
  BY DEF OwnOK, ReturnOK, Stopping
<1>2. /\ pc'[c] \in {"stopclose", "unmap", "remove"}
      /\ \A p \in Procs \ {c} : pc'[p] = pc[p]
  BY <1>1
<1>4. RegistryShape' /\ MutexOK'
  BY <1>1, <1>2 DEF RegistryShape, MutexOK, CallsOK, CallOK, ReturnOK, Stopping, Terminating, InOp,
       OnRecord, Records, From, To
<1>5. ServesOK'
  BY <1>1, <1>2 DEF ServesOK, ReturnOK, ServedAlone, Stopping, Serving, HoldsSlot
<1>6. CallsOK'
  BY <1>1, <1>2 DEF RegistryShape, CallsOK, CallOK, ReturnOK, MapOK, Stopping, Terminating, InOp,
       OnRecord, Records
<1>7. ASSUME NEW d \in Conns, FirstOfItsStream(d)' PROVE NotYet(d)'
  BY <1>7, <1>1, <1>2
     DEF SenderOK, FirstOfItsStream, OnStream, Stopping, InOp, OnRecord, CallsOK, CallOK,
       Terminating, NotYet, Unregistered, ReturnOK, ServesOK, Serving, HoldsSlot
<1>8. ASSUME NEW d \in Conns, FirstOfItsStream(d)' PROVE GoneOK(d)'
  BY <1>8, <1>1, <1>2
     DEF SenderOK, FirstOfItsStream, OnStream, Stopping, InOp, OnRecord, CallsOK, CallOK,
       Terminating, NotYet, GoneOK, Unregistered, AfterDelete, Leaving, ReturnOK, CloseOK, ServesOK,
       Serving, HoldsSlot
<1>9. ASSUME NEW d \in Conns, FirstOfItsStream(d)' PROVE StatusOK(d)'
  BY <1>9, <1>1, <1>2
     DEF SenderOK, FirstOfItsStream, OnStream, Stopping, InOp, OnRecord, CallsOK, CallOK,
       Terminating, NotYet, GoneOK, StatusOK, MutexOK, RegistryShape, Records, From, To,
       ServesOK, ReturnOK
<1> QED
  BY <1>4, <1>5, <1>6, <1>7, <1>8, <1>9 DEF SenderOK

\* StopMark by TerminateStream
LEMMA StopMarkOpTrue ==
  ASSUME OwnerInv, RegistryInv, NEW o \in Ops, KindOf[o] = "terminate", StopMark(o)
  PROVE  RegistryInv'
<1> USE DEF OwnerInv, ShapeOK, RegistryInv, Procs, Goto, limiter, conn, handler, redis, local,
            StopMark
<1>1. ret[o] = "unmap" /\ target[o] \in Conns /\ pc[Mgr] = "run" /\ pc[o] = "stop"
  BY DEF CallsOK, CallOK, ReturnOK, Stopping, Terminating
<1>2. /\ pc'[o] \in {"stopclose", "unmap"}
      /\ \A p \in Procs \ {o} : pc'[p] = pc[p]
  BY <1>1
<1>4. RegistryShape' /\ MutexOK'
  BY <1>1, <1>2 DEF RegistryShape, MutexOK, CallsOK, CallOK, ReturnOK, Stopping, Terminating, InOp,
       OnRecord, Records, From, To
<1>5. ServesOK'
  BY <1>1, <1>2 DEF ServesOK, ReturnOK, ServedAlone, Stopping, Serving, HoldsSlot
<1>6. CallsOK'
  BY <1>1, <1>2 DEF RegistryShape, CallsOK, CallOK, ReturnOK, MapOK, Stopping, Terminating, InOp,
       OnRecord, Records
<1>7. ASSUME NEW d \in Conns, FirstOfItsStream(d)' PROVE NotYet(d)'
  BY <1>7, <1>1, <1>2
     DEF SenderOK, FirstOfItsStream, OnStream, Stopping, InOp, OnRecord, CallsOK, CallOK,
       Terminating, NotYet, Unregistered, ReturnOK, ServesOK, Serving, HoldsSlot
<1>8. ASSUME NEW d \in Conns, FirstOfItsStream(d)' PROVE GoneOK(d)'
  BY <1>8, <1>1, <1>2
     DEF SenderOK, FirstOfItsStream, OnStream, Stopping, InOp, OnRecord, CallsOK, CallOK,
       Terminating, NotYet, GoneOK, Unregistered, AfterDelete, Leaving, ReturnOK, CloseOK, ServesOK,
       Serving, HoldsSlot
<1>9. ASSUME NEW d \in Conns, FirstOfItsStream(d)' PROVE StatusOK(d)'
  BY <1>9, <1>1, <1>2
     DEF SenderOK, FirstOfItsStream, OnStream, Stopping, InOp, OnRecord, CallsOK, CallOK,
       Terminating, NotYet, GoneOK, StatusOK, MutexOK, RegistryShape, Records, From, To,
       ServesOK, ReturnOK
<1> QED
  BY <1>4, <1>5, <1>6, <1>7, <1>8, <1>9 DEF SenderOK

\* StopMark by Manager.Stop
LEMMA StopMarkMgrTrue ==
  ASSUME OwnerInv, RegistryInv, StopMark(Mgr)
  PROVE  RegistryInv'
<1> USE DEF OwnerInv, ShapeOK, RegistryInv, Procs, Goto, limiter, conn, handler, redis, local,
            StopMark
<1>1. ret[Mgr] = "handlers" /\ target[Mgr] \in Conns /\ pc[Mgr] = "stop"
  BY DEF ReturnOK, Stopping
<1>2. /\ pc'[Mgr] \in {"stopclose", "handlers"}
      /\ \A p \in Procs \ {Mgr} : pc'[p] = pc[p]
  BY <1>1
<1>4. RegistryShape' /\ MutexOK'
  BY <1>1, <1>2 DEF RegistryShape, MutexOK, CallsOK, CallOK, ReturnOK, Stopping, Terminating, InOp,
       OnRecord, Records, From, To
<1>5. ServesOK'
  BY <1>1, <1>2 DEF ServesOK, ReturnOK, ServedAlone, Stopping, Serving, HoldsSlot
<1>6. CallsOK'
  BY <1>1, <1>2 DEF RegistryShape, CallsOK, CallOK, ReturnOK, MapOK, Stopping, Terminating, InOp,
       OnRecord, Records
<1>7. ASSUME NEW d \in Conns, FirstOfItsStream(d)' PROVE NotYet(d)'
  BY <1>7, <1>1, <1>2
     DEF SenderOK, FirstOfItsStream, OnStream, Stopping, InOp, OnRecord, CallsOK, CallOK,
       Terminating, NotYet, Unregistered, ReturnOK, ServesOK, Serving, HoldsSlot
<1>8. ASSUME NEW d \in Conns, FirstOfItsStream(d)' PROVE GoneOK(d)'
  BY <1>8, <1>1, <1>2
     DEF SenderOK, FirstOfItsStream, OnStream, Stopping, InOp, OnRecord, CallsOK, CallOK,
       Terminating, NotYet, GoneOK, Unregistered, AfterDelete, Leaving, ReturnOK, CloseOK, ServesOK,
       Serving, HoldsSlot
<1>9. ASSUME NEW d \in Conns, FirstOfItsStream(d)' PROVE StatusOK(d)'
  BY <1>9, <1>1, <1>2
     DEF SenderOK, FirstOfItsStream, OnStream, Stopping, InOp, OnRecord, CallsOK, CallOK,
       Terminating, NotYet, GoneOK, StatusOK, MutexOK, RegistryShape, Records, From, To,
       ServesOK, ReturnOK
<1> QED
  BY <1>4, <1>5, <1>6, <1>7, <1>8, <1>9 DEF SenderOK

\* The removal by a connection begins
LEMMA RemoveBeginConnTrue ==
  ASSUME OwnerInv, RegistryInv, NEW c \in Conns, RemoveBegin(c, StreamOf[c])
  PROVE  RegistryInv'
<1> USE DEF OwnerInv, ShapeOK, RegistryInv, Procs, Goto, limiter, conn, handler, redis, local,
            RemoveBegin
<1>1. /\ pc[c] = "remove" /\ pc'[c] \in {"removed", "stop"}
      /\ \A p \in Procs \ {c} : pc'[p] = pc[p] /\ target'[p] = target[p]
  OBVIOUS
<1>4. RegistryShape' /\ MutexOK'
  BY <1>1 DEF RegistryShape, MutexOK, CallsOK, CallOK, ReturnOK, Stopping, Terminating, InOp,
       OnRecord, Records, From, To
<1>5. ServesOK'
  BY <1>1 DEF ServesOK, ReturnOK, ServedAlone, Stopping, Serving, HoldsSlot
<1>6. CallsOK'
  BY <1>1 DEF RegistryShape, CallsOK, CallOK, ReturnOK, MapOK, Stopping, Terminating, InOp,
       OnRecord, Records
<1>7. ASSUME NEW d \in Conns, FirstOfItsStream(d)' PROVE NotYet(d)'
  BY <1>7, <1>1
     DEF SenderOK, FirstOfItsStream, OnStream, Stopping, InOp, OnRecord, CallsOK, CallOK,
       Terminating, NotYet, Unregistered, ReturnOK, ServesOK, Serving, HoldsSlot
<1>8. ASSUME NEW d \in Conns, FirstOfItsStream(d)' PROVE GoneOK(d)'
  BY <1>8, <1>1
     DEF SenderOK, FirstOfItsStream, OnStream, Stopping, InOp, OnRecord, CallsOK, CallOK,
       Terminating, NotYet, GoneOK, Unregistered, AfterDelete, Leaving, ReturnOK, CloseOK, ServesOK,
       Serving, HoldsSlot
<1>9. ASSUME NEW d \in Conns, FirstOfItsStream(d)' PROVE StatusOK(d)'
  BY <1>9, <1>1
     DEF SenderOK, FirstOfItsStream, OnStream, Stopping, InOp, OnRecord, CallsOK, CallOK,
       Terminating, NotYet, GoneOK, StatusOK, MutexOK, RegistryShape, Records, From, To,
       ServesOK, ReturnOK
<1> QED
  BY <1>4, <1>5, <1>6, <1>7, <1>8, <1>9 DEF SenderOK

\* The removal by TerminateStream begins
LEMMA RemoveBeginOpTrue ==
  ASSUME OwnerInv, RegistryInv, NEW o \in Ops, KindOf[o] = "terminate", RemoveBegin(o, OpStream[o])
  PROVE  RegistryInv'
<1> USE DEF OwnerInv, ShapeOK, RegistryInv, Procs, Goto, limiter, conn, handler, redis, local,
            RemoveBegin
<1>1. /\ pc[o] = "remove" /\ pc[Mgr] = "run"
      /\ pc'[o] = "removed" \/ (pc'[o] = "stop" /\ StreamOf[target'[o]] = OpStream[o])
      /\ \A p \in Procs \ {o} : pc'[p] = pc[p] /\ target'[p] = target[p]
  BY DEF MapOK, CallsOK, CallOK, Terminating
<1>4. RegistryShape' /\ MutexOK'
  BY <1>1 DEF RegistryShape, MutexOK, CallsOK, CallOK, ReturnOK, Stopping, Terminating, InOp,
       OnRecord, Records, From, To
<1>5. ServesOK'
  BY <1>1 DEF ServesOK, ReturnOK, ServedAlone, Stopping, Serving, HoldsSlot
<1>6. CallsOK'
  BY <1>1 DEF RegistryShape, CallsOK, CallOK, ReturnOK, MapOK, Stopping, Terminating, InOp,
       OnRecord, Records
<1>7. ASSUME NEW d \in Conns, FirstOfItsStream(d)' PROVE NotYet(d)'
  BY <1>7, <1>1
     DEF SenderOK, FirstOfItsStream, OnStream, Stopping, InOp, OnRecord, CallsOK, CallOK,
       Terminating, NotYet, Unregistered, ReturnOK, ServesOK, Serving, HoldsSlot
<1>8. ASSUME NEW d \in Conns, FirstOfItsStream(d)' PROVE GoneOK(d)'
  BY <1>8, <1>1
     DEF SenderOK, FirstOfItsStream, OnStream, Stopping, InOp, OnRecord, CallsOK, CallOK,
       Terminating, NotYet, GoneOK, Unregistered, AfterDelete, Leaving, ReturnOK, CloseOK, ServesOK,
       Serving, HoldsSlot
<1>9. ASSUME NEW d \in Conns, FirstOfItsStream(d)' PROVE StatusOK(d)'
  BY <1>9, <1>1
     DEF SenderOK, FirstOfItsStream, OnStream, Stopping, InOp, OnRecord, CallsOK, CallOK,
       Terminating, NotYet, GoneOK, StatusOK, MutexOK, RegistryShape, Records, From, To,
       ServesOK, ReturnOK
<1> QED
  BY <1>4, <1>5, <1>6, <1>7, <1>8, <1>9 DEF SenderOK

\* TerminateStream closes the connection
LEMMA TerminateConnectionTrue ==
  ASSUME OwnerInv, RegistryInv, NEW o \in Ops, KindOf[o] = "terminate", TerminateConnection(o)
  PROVE  RegistryInv'
<1> USE DEF OwnerInv, ShapeOK, RegistryInv, Procs, Goto, limiter, conn, handler, redis, local,
            TerminateConnection
<1>1. /\ pc[o] = "tlisten" /\ pc[Mgr] = "run" /\ pc'[o] \in {"tclose", "done"}
      /\ \A p \in Procs \ {o} : pc'[p] = pc[p] /\ target'[p] = target[p]
  BY DEF CallsOK, CallOK, Terminating
<1>4. RegistryShape' /\ MutexOK'
  BY <1>1 DEF RegistryShape, MutexOK, CallsOK, CallOK, ReturnOK, Stopping, Terminating, InOp,
       OnRecord, Records, From, To
<1>5. ServesOK'
  BY <1>1 DEF ServesOK, ReturnOK, ServedAlone, Stopping, Serving, HoldsSlot
<1>6. CallsOK'
  BY <1>1 DEF RegistryShape, CallsOK, CallOK, ReturnOK, MapOK, Stopping, Terminating, InOp,
       OnRecord, Records
<1>7. ASSUME NEW d \in Conns, FirstOfItsStream(d)' PROVE NotYet(d)'
  BY <1>7, <1>1
     DEF SenderOK, FirstOfItsStream, OnStream, Stopping, InOp, OnRecord, CallsOK, CallOK,
       Terminating, NotYet, Unregistered, ReturnOK, ServesOK, Serving, HoldsSlot
<1>8. ASSUME NEW d \in Conns, FirstOfItsStream(d)' PROVE GoneOK(d)'
  BY <1>8, <1>1
     DEF SenderOK, FirstOfItsStream, OnStream, Stopping, InOp, OnRecord, CallsOK, CallOK,
       Terminating, NotYet, GoneOK, Unregistered, AfterDelete, Leaving, ReturnOK, CloseOK, ServesOK,
       Serving, HoldsSlot
<1>9. ASSUME NEW d \in Conns, FirstOfItsStream(d)' PROVE StatusOK(d)'
  BY <1>9, <1>1
     DEF SenderOK, FirstOfItsStream, OnStream, Stopping, InOp, OnRecord, CallsOK, CallOK,
       Terminating, NotYet, GoneOK, StatusOK, MutexOK, RegistryShape, Records, From, To,
       ServesOK, ReturnOK
<1> QED
  BY <1>4, <1>5, <1>6, <1>7, <1>8, <1>9 DEF SenderOK

\* Pause and Resume read the record
LEMMA OpGetTrue ==
  ASSUME OwnerInv, RegistryInv, NEW o \in Ops, KindOf[o] # "terminate", OpGet(o)
  PROVE  RegistryInv'
<1> USE DEF OwnerInv, ShapeOK, RegistryInv, Procs, Goto, limiter, conn, handler, redis, local,
            OpGet, Found, RegistryOpen
<1>1. pc'[o] \in {"listen", "done"} /\ \A p \in Procs \ {o} : pc'[p] = pc[p]
  OBVIOUS
<1>2. o \notin Conns /\ \A c \in Conns : pc'[c] = pc[c]
  BY <1>1
<1>4. RegistryShape' /\ MutexOK'
  BY <1>1, <1>2 DEF RegistryShape, MutexOK, CallsOK, CallOK, ReturnOK, Stopping, Terminating, InOp,
       OnRecord, Records, From, To
<1>5. ServesOK'
  BY <1>2, ServesFrame
<1>6. CallsOK'
  BY <1>1, <1>2 DEF RegistryShape, CallsOK, CallOK, ReturnOK, MapOK, Stopping, Terminating, InOp,
       OnRecord, Records
<1>7. ASSUME NEW d \in Conns, FirstOfItsStream(d)' PROVE NotYet(d)'
  BY <1>7, <1>1, <1>2
     DEF SenderOK, FirstOfItsStream, OnStream, Stopping, InOp, OnRecord, CallsOK, CallOK,
       Terminating, NotYet, Unregistered, ReturnOK, ServesOK, Serving, HoldsSlot
<1>8. ASSUME NEW d \in Conns, FirstOfItsStream(d)' PROVE GoneOK(d)'
  BY <1>8, <1>1, <1>2
     DEF SenderOK, FirstOfItsStream, OnStream, Stopping, InOp, OnRecord, CallsOK, CallOK,
       Terminating, NotYet, GoneOK, Unregistered, AfterDelete, Leaving, ReturnOK, CloseOK, ServesOK,
       Serving, HoldsSlot
<1>9. ASSUME NEW d \in Conns, FirstOfItsStream(d)' PROVE StatusOK(d)'
  BY <1>9, <1>1, <1>2
     DEF SenderOK, FirstOfItsStream, OnStream, Stopping, InOp, OnRecord, CallsOK, CallOK,
       Terminating, NotYet, GoneOK, StatusOK, MutexOK, RegistryShape, Records, From, To,
       ServesOK, ReturnOK
<1> QED
  BY <1>4, <1>5, <1>6, <1>7, <1>8, <1>9 DEF SenderOK

\* set the flag
LEMMA OpListenerTrue ==
  ASSUME OwnerInv, RegistryInv, NEW o \in Ops, KindOf[o] # "terminate", OpListener(o)
  PROVE  RegistryInv'
<1> USE DEF OwnerInv, ShapeOK, RegistryInv, Procs, Goto, limiter, conn, handler, redis, local,
            OpListener, SetPaused, CanReadLock
<1>1. pc'[o] \in {"update", "done"} /\ \A p \in Procs \ {o} : pc'[p] = pc[p]
  OBVIOUS
<1>2. o \notin Conns /\ \A c \in Conns : pc'[c] = pc[c]
  BY <1>1
<1>4. RegistryShape' /\ MutexOK'
  BY <1>1, <1>2 DEF RegistryShape, MutexOK, CallsOK, CallOK, ReturnOK, Stopping, Terminating, InOp,
       OnRecord, Records, From, To
<1>5. ServesOK'
  BY <1>2, ServesFrame
<1>6. CallsOK'
  BY <1>1, <1>2 DEF RegistryShape, CallsOK, CallOK, ReturnOK, MapOK, Stopping, Terminating, InOp,
       OnRecord, Records
<1>7. ASSUME NEW d \in Conns, FirstOfItsStream(d)' PROVE NotYet(d)'
  BY <1>7, <1>1, <1>2
     DEF SenderOK, FirstOfItsStream, OnStream, Stopping, InOp, OnRecord, CallsOK, CallOK,
       Terminating, NotYet, Unregistered, ReturnOK, ServesOK, Serving, HoldsSlot
<1>8. ASSUME NEW d \in Conns, FirstOfItsStream(d)' PROVE GoneOK(d)'
  BY <1>8, <1>1, <1>2
     DEF SenderOK, FirstOfItsStream, OnStream, Stopping, InOp, OnRecord, CallsOK, CallOK,
       Terminating, NotYet, GoneOK, Unregistered, AfterDelete, Leaving, ReturnOK, CloseOK, ServesOK,
       Serving, HoldsSlot
<1>9. ASSUME NEW d \in Conns, FirstOfItsStream(d)' PROVE StatusOK(d)'
  BY <1>9, <1>1, <1>2
     DEF SenderOK, FirstOfItsStream, OnStream, Stopping, InOp, OnRecord, CallsOK, CallOK,
       Terminating, NotYet, GoneOK, StatusOK, MutexOK, RegistryShape, Records, From, To,
       ServesOK, ReturnOK
<1> QED
  BY <1>4, <1>5, <1>6, <1>7, <1>8, <1>9 DEF SenderOK

\* and write the status: the record stays a record, with the new status, or the
\* key is gone and the call rolls back.
LEMMA OpUpdateTrue ==
  ASSUME OwnerInv, RegistryInv, NEW o \in Ops, KindOf[o] # "terminate", OpUpdate(o)
  PROVE  RegistryInv'
<1> DEFINE s == OpStream[o]
<1>1. /\ pc[o] = "update" /\ pc'[o] \in {"rollback", "done"}
      /\ \A p \in Procs \ {o} : pc'[p] = pc[p]
      /\ UNCHANGED <<connections, paused, ctxDone, lockGen, target, snap, gen>>
  BY DEF OpUpdate, OwnerInv, ShapeOK, Procs, Goto, limiter, conn, handler, redis, local
<1>2. o \notin Conns /\ \A c \in Conns : pc'[c] = pc[c]
  BY <1>1 DEF Procs
<1>3. snap[o] \in Records /\ pc[o] \in InOp
  BY <1>1 DEF RegistryInv, CallsOK, CallOK, OnRecord, InOp
<1>4. CASE ~Found(s)
  <2>1. record' = record /\ pc'[o] = "rollback"
    BY <1>4 DEF OpUpdate, Goto, OwnerInv, ShapeOK, Procs
  <2>2. record[s] = None \/ pc[Mgr] = "stopped"
    BY <1>4 DEF Found, RegistryOpen
  <2> USE DEF RegistryInv, OwnerInv, ShapeOK, Procs
  <2>3. RegistryShape' /\ MutexOK'
    BY <1>1, <1>2, <1>3, <2>1 DEF RegistryShape, MutexOK, InOp
  <2>4. ServesOK' /\ CallsOK'
    BY <1>1, <1>2, <1>3, <2>1, ServesFrame
       DEF CallsOK, CallOK, InOp, OnRecord, Stopping, Terminating
  <2>5. ASSUME NEW d \in Conns, FirstOfItsStream(d)'
        PROVE  FirstOfItsStream(d) /\ NotYet(d)' /\ GoneOK(d)' /\ StatusOK(d)'
    BY <1>1, <1>2, <2>1, <2>5 DEF FirstOfItsStream, SenderOK, NotYet, GoneOK, StatusOK, OnRecord,
       OnStream, Terminating, AfterDelete, Stopping
  <2> QED
    BY <2>3, <2>4, <2>5 DEF SenderOK
<1>5. CASE Found(s)
  <2>1. PICK r \in Records : r.status = To(o) /\ record' = [record EXCEPT ![s] = r]
    <3>1. [snap[o] EXCEPT !.status = To(o)] \in Records /\ [snap[o] EXCEPT !.status = To(o)].status = To(o)
      BY <1>3 DEF Records, To
    <3> QED
      BY <1>5, <3>1 DEF OpUpdate, Set, Found
  <2>2. pc'[o] = "done" /\ record[s] # None
    BY <1>5 DEF OpUpdate, Goto, Found, OwnerInv, ShapeOK, Procs
  <2> USE DEF RegistryInv, OwnerInv, ShapeOK, Procs
  <2>3. RegistryShape' /\ MutexOK'
    BY <1>1, <1>2, <1>3, <2>1, <2>2 DEF RegistryShape, MutexOK, InOp
  <2>4. ServesOK' /\ CallsOK'
    BY <1>1, <1>2, <1>3, <2>1, <2>2, ServesFrame
       DEF CallsOK, CallOK, InOp, OnRecord, Stopping, Terminating
  <2>5. ASSUME NEW d \in Conns, FirstOfItsStream(d)'
        PROVE  FirstOfItsStream(d) /\ NotYet(d)' /\ GoneOK(d)'
    BY <1>1, <1>2, <2>1, <2>2, <2>5 DEF FirstOfItsStream, SenderOK, NotYet, GoneOK, OnRecord,
       OnStream, Terminating, AfterDelete, Stopping, RegistryShape
  <2>6. ASSUME NEW d \in Conns, FirstOfItsStream(d)' PROVE StatusOK(d)'
    BY <1>1, <1>2, <1>3, <2>1, <2>2, <2>5, <2>6 DEF SenderOK, StatusOK, GoneOK, MutexOK, OnRecord,
       OnStream, InOp, From, To, RegistryShape, CallsOK, CallOK
  <2> QED
    BY <2>3, <2>4, <2>5, <2>6 DEF SenderOK
<1> QED
  BY <1>4, <1>5

\* The listener: the stream is not registered yet.
LEMMA ListenerTrue ==
  ASSUME OwnerInv, RegistryInv, NEW c \in Conns, Listener(c)
  PROVE  RegistryInv'
<1> USE DEF OwnerInv, ShapeOK, ReturnOK, LockOK, ServedAlone, MapOK, OwnOK, CloseOK,
            RegistryInv, RegistryShape, ServesOK, CallsOK, CallOK, MutexOK, SenderOK,
            FirstOfItsStream, NotYet, GoneOK, StatusOK, Stopping, StreamLabels, HoldsSlot,
            Serving, Unregistered, Terminating, AfterDelete, Leaving, OnRecord, Records,
            OnStream, InOp, Procs, From, To, Found, RegistryOpen, Goto, limiter, conn,
            handler, redis, local
<1>1. CASE IncomingAcquires(c)
  BY <1>1 DEF IncomingAcquires, CanAcquire, Acquire, ListenerOpen
<1>2. CASE IncomingRejected(c)
  BY <1>2 DEF IncomingRejected, CanAcquire, ListenerOpen
<1>7. CASE IncomingAccepted(c)
  BY <1>7 DEF IncomingAccepted
<1>8. CASE IncomingActive(c)
  BY <1>8 DEF IncomingActive, Release
<1>3. CASE AcceptFails(c)
  BY <1>3 DEF AcceptFails, Release, AcceptLoopFree, ListenerOpen
<1>4. CASE AcceptStores(c)
  BY <1>4 DEF AcceptStores, AcceptLoopFree, ListenerOpen
<1>5. CASE AcceptDuplicate(c)
  BY <1>5 DEF AcceptDuplicate, AcceptLoopFree, ListenerOpen, Release, StartClose
<1>6. CASE DuplicateClosed(c)
  BY <1>6 DEF DuplicateClosed, Closed
<1> QED
  BY <1>1, <1>2, <1>3, <1>4, <1>5, <1>6, <1>7, <1>8 DEF Listener

\* The body of closeOnce deletes the key.
LEMMA CloseTrue ==
  ASSUME OwnerInv, RegistryInv, NEW c \in Conns, Close(c)
  PROVE  RegistryInv'
<1> USE DEF OwnerInv, ShapeOK, ReturnOK, LockOK, ServedAlone, MapOK, OwnOK, CloseOK,
            RegistryInv, RegistryShape, ServesOK, CallsOK, CallOK, MutexOK, SenderOK,
            FirstOfItsStream, NotYet, GoneOK, StatusOK, Stopping, StreamLabels, HoldsSlot,
            Serving, Unregistered, Terminating, AfterDelete, Leaving, OnRecord, Records,
            OnStream, InOp, Procs, From, To, Found, RegistryOpen, Goto, limiter, conn,
            handler, redis, local
<1>1. CASE CloseDel(c)
  BY <1>1 DEF CloseDel, Del, Set
<1>2. CASE CloseSRem(c)
  BY <1>2 DEF CloseSRem, SRem
<1> QED
  BY <1>1, <1>2 DEF Close

\* StreamHandler.Stop, called by a connection,
LEMMA StopConnTrue ==
  ASSUME OwnerInv, RegistryInv, NEW c \in Conns, Stop(c)
  PROVE  RegistryInv'
<1> USE DEF OwnerInv, ShapeOK, ReturnOK, LockOK, ServedAlone, MapOK, OwnOK, CloseOK,
            RegistryInv, RegistryShape, ServesOK, CallsOK, CallOK, MutexOK, SenderOK,
            FirstOfItsStream, NotYet, GoneOK, StatusOK, Stopping, StreamLabels, HoldsSlot,
            Serving, Unregistered, Terminating, AfterDelete, Leaving, OnRecord, Records,
            OnStream, InOp, Procs, From, To, Found, RegistryOpen, Goto, limiter, conn,
            handler, redis, local
<1>1. CASE StopMark(c)
  BY <1>1, StopMarkConnTrue
<1>2. CASE StopClose(c)
  BY <1>2 DEF StopClose, StartClose
<1>3. CASE StopReturn(c)
  BY <1>3 DEF StopReturn, Closed
<1> QED
  BY <1>1, <1>2, <1>3 DEF Stop

\* by TerminateStream
LEMMA StopOpTrue ==
  ASSUME OwnerInv, RegistryInv, NEW o \in Ops, KindOf[o] = "terminate", Stop(o)
  PROVE  RegistryInv'
<1> USE DEF OwnerInv, ShapeOK, ReturnOK, LockOK, ServedAlone, MapOK, OwnOK, CloseOK,
            RegistryInv, RegistryShape, ServesOK, CallsOK, CallOK, MutexOK, SenderOK,
            FirstOfItsStream, NotYet, GoneOK, StatusOK, Stopping, StreamLabels, HoldsSlot,
            Serving, Unregistered, Terminating, AfterDelete, Leaving, OnRecord, Records,
            OnStream, InOp, Procs, From, To, Found, RegistryOpen, Goto, limiter, conn,
            handler, redis, local
<1>1. CASE StopMark(o)
  BY <1>1, StopMarkOpTrue
<1>2. CASE StopClose(o)
  BY <1>2 DEF StopClose, StartClose
<1>3. CASE StopReturn(o)
  BY <1>3 DEF StopReturn, Closed
<1> QED
  BY <1>1, <1>2, <1>3 DEF Stop

\* and by Manager.Stop.
LEMMA StopMgrTrue ==
  ASSUME OwnerInv, RegistryInv, Stop(Mgr)
  PROVE  RegistryInv'
<1> USE DEF OwnerInv, ShapeOK, ReturnOK, LockOK, ServedAlone, MapOK, OwnOK, CloseOK,
            RegistryInv, RegistryShape, ServesOK, CallsOK, CallOK, MutexOK, SenderOK,
            FirstOfItsStream, NotYet, GoneOK, StatusOK, Stopping, StreamLabels, HoldsSlot,
            Serving, Unregistered, Terminating, AfterDelete, Leaving, OnRecord, Records,
            OnStream, InOp, Procs, From, To, Found, RegistryOpen, Goto, limiter, conn,
            handler, redis, local
<1>1. CASE StopMark(Mgr)
  BY <1>1, StopMarkMgrTrue
<1>2. CASE StopClose(Mgr)
  BY <1>2 DEF StopClose, StartClose
<1>3. CASE StopReturn(Mgr)
  BY <1>3 DEF StopReturn, Closed
<1> QED
  BY <1>1, <1>2, <1>3 DEF Stop

\* RemoveStreamHandler, called by a connection
LEMMA RemoveConnTrue ==
  ASSUME OwnerInv, RegistryInv, NEW c \in Conns, RemoveStreamHandler(c, StreamOf[c])
  PROVE  RegistryInv'
<1> USE DEF OwnerInv, ShapeOK, ReturnOK, LockOK, ServedAlone, MapOK, OwnOK, CloseOK,
            RegistryInv, RegistryShape, ServesOK, CallsOK, CallOK, MutexOK, SenderOK,
            FirstOfItsStream, NotYet, GoneOK, StatusOK, Stopping, StreamLabels, HoldsSlot,
            Serving, Unregistered, Terminating, AfterDelete, Leaving, OnRecord, Records,
            OnStream, InOp, Procs, From, To, Found, RegistryOpen, Goto, limiter, conn,
            handler, redis, local
<1>1. CASE RemoveBegin(c, StreamOf[c])
  BY <1>1, RemoveBeginConnTrue
<1>2. CASE RemoveEnd(c, StreamOf[c])
  BY <1>2 DEF RemoveEnd
<1> QED
  BY <1>1, <1>2 DEF RemoveStreamHandler

\* and by TerminateStream.
LEMMA RemoveOpTrue ==
  ASSUME OwnerInv, RegistryInv, NEW o \in Ops, KindOf[o] = "terminate",
         RemoveStreamHandler(o, OpStream[o])
  PROVE  RegistryInv'
<1> USE DEF OwnerInv, ShapeOK, ReturnOK, LockOK, ServedAlone, MapOK, OwnOK, CloseOK,
            RegistryInv, RegistryShape, ServesOK, CallsOK, CallOK, MutexOK, SenderOK,
            FirstOfItsStream, NotYet, GoneOK, StatusOK, Stopping, StreamLabels, HoldsSlot,
            Serving, Unregistered, Terminating, AfterDelete, Leaving, OnRecord, Records,
            OnStream, InOp, Procs, From, To, Found, RegistryOpen, Goto, limiter, conn,
            handler, redis, local
<1>1. CASE RemoveBegin(o, OpStream[o])
  BY <1>1, RemoveBeginOpTrue
<1>2. CASE RemoveEnd(o, OpStream[o])
  BY <1>2 DEF RemoveEnd
<1> QED
  BY <1>1, <1>2 DEF RemoveStreamHandler

\* handleConnection and HandleSRTConnection.
LEMMA ConnectionTrue ==
  ASSUME OwnerInv, RegistryInv, NEW c \in Conns, HandleSRTConnection(c)
  PROVE  RegistryInv'
<1> USE DEF OwnerInv, ShapeOK, ReturnOK, LockOK, ServedAlone, MapOK, OwnOK, CloseOK,
            RegistryInv, RegistryShape, ServesOK, CallsOK, CallOK, MutexOK, SenderOK,
            FirstOfItsStream, NotYet, GoneOK, StatusOK, Stopping, StreamLabels, HoldsSlot,
            Serving, Unregistered, Terminating, AfterDelete, Leaving, OnRecord, Records,
            OnStream, InOp, Procs, From, To, Found, RegistryOpen, Goto, limiter, conn,
            handler, redis, local
<1>1. CASE RegisterGet(c)
  BY <1>1 DEF RegisterGet
<1>2. CASE RegisterNew(c)
  BY <1>2 DEF RegisterNew, Set
<1>3. CASE RegisterSet(c)
  BY <1>3 DEF RegisterSet, Set
<1>4. CASE CreateStreamHandler(c)
  BY <1>4 DEF CreateStreamHandler
<1>5. CASE CreateFails(c)
  BY <1>5 DEF CreateFails, StartClose
<1>6. CASE FailedUnregister(c)
  BY <1>6 DEF FailedUnregister, Closed, Del, Set
<1>7. CASE FailedSRem(c)
  BY <1>7 DEF FailedSRem, SRem
<1>8. CASE HandlerDone(c)
  BY <1>8 DEF HandlerDone, ManagerCancelled
<1>9. CASE ManagerDone(c)
  BY <1>9 DEF ManagerDone, ManagerCancelled
<1>10. CASE Removed(c)
  BY <1>10 DEF Removed
<1>11. CASE ReleaseSlot(c)
  BY <1>11 DEF ReleaseSlot, Release
<1>12. CASE DeleteConnection(c)
  BY <1>12 DEF DeleteConnection
<1>13. CASE Stop(c)
  BY <1>13, StopConnTrue
<1>14. CASE RemoveStreamHandler(c, StreamOf[c])
  BY <1>14, RemoveConnTrue
<1> QED
  BY <1>1, <1>2, <1>3, <1>4, <1>5, <1>6, <1>7, <1>8, <1>9, <1>10, <1>11, <1>12, <1>13,
     <1>14 DEF HandleSRTConnection

\* TerminateStream.
LEMMA TerminateTrue ==
  ASSUME OwnerInv, RegistryInv, NEW o \in Ops, KindOf[o] = "terminate", TerminateStream(o)
  PROVE  RegistryInv'
<1> USE DEF OwnerInv, ShapeOK, ReturnOK, LockOK, ServedAlone, MapOK, OwnOK, CloseOK,
            RegistryInv, RegistryShape, ServesOK, CallsOK, CallOK, MutexOK, SenderOK,
            FirstOfItsStream, NotYet, GoneOK, StatusOK, Stopping, StreamLabels, HoldsSlot,
            Serving, Unregistered, Terminating, AfterDelete, Leaving, OnRecord, Records,
            OnStream, InOp, Procs, From, To, Found, RegistryOpen, Goto, limiter, conn,
            handler, redis, local
<1>1. CASE TerminateGet(o)
  BY <1>1 DEF TerminateGet, CanReadLock, ManagerStarted
<1>2. CASE TerminateConnection(o)
  BY <1>2, TerminateConnectionTrue
<1>3. CASE TerminateDel(o)
  BY <1>3 DEF TerminateDel, Closed, Del, Set
<1>4. CASE TerminateSRem(o)
  BY <1>4 DEF TerminateSRem, SRem
<1>5. CASE TerminateDeleteLock(o)
  BY <1>5 DEF TerminateDeleteLock
<1>6. CASE Stop(o)
  BY <1>6, StopOpTrue
<1>7. CASE RemoveStreamHandler(o, OpStream[o])
  BY <1>7, RemoveOpTrue
<1> QED
  BY <1>1, <1>2, <1>3, <1>4, <1>5, <1>6, <1>7 DEF TerminateStream

\* PauseStream and ResumeStream.
LEMMA PauseResumeTrue ==
  ASSUME OwnerInv, RegistryInv, NEW o \in Ops, KindOf[o] # "terminate", PauseResume(o)
  PROVE  RegistryInv'
<1> USE DEF OwnerInv, ShapeOK, ReturnOK, LockOK, ServedAlone, MapOK, OwnOK, CloseOK,
            RegistryInv, RegistryShape, ServesOK, CallsOK, CallOK, MutexOK, SenderOK,
            FirstOfItsStream, NotYet, GoneOK, StatusOK, Stopping, StreamLabels, HoldsSlot,
            Serving, Unregistered, Terminating, AfterDelete, Leaving, OnRecord, Records,
            OnStream, InOp, Procs, From, To, Found, RegistryOpen, Goto, limiter, conn,
            handler, redis, local
<1>1. CASE OpLock(o)
  BY <1>1 DEF OpLock
<1>2. CASE OpLocked(o)
  BY <1>2 DEF OpLocked
<1>3. CASE OpChecked(o)
  BY <1>3 DEF OpChecked, CanReadLock, ManagerStarted
<1>4. CASE OpGet(o)
  BY <1>4, OpGetTrue
<1>5. CASE OpListener(o)
  BY <1>5, OpListenerTrue
<1>6. CASE OpUpdate(o)
  BY <1>6, OpUpdateTrue
<1>7. CASE OpRollback(o)
  BY <1>7 DEF OpRollback, SetPaused, CanReadLock, ManagerStarted
<1> QED
  BY <1>1, <1>2, <1>3, <1>4, <1>5, <1>6, <1>7 DEF PauseResume

\* Manager.Stop.
LEMMA ShutdownTrue ==
  ASSUME OwnerInv, RegistryInv, Shutdown
  PROVE  RegistryInv'
<1> USE DEF OwnerInv, ShapeOK, ReturnOK, LockOK, ServedAlone, MapOK, OwnOK, CloseOK,
            RegistryInv, RegistryShape, ServesOK, CallsOK, CallOK, MutexOK, SenderOK,
            FirstOfItsStream, NotYet, GoneOK, StatusOK, Stopping, StreamLabels, HoldsSlot,
            Serving, Unregistered, Terminating, AfterDelete, Leaving, OnRecord, Records,
            OnStream, InOp, Procs, From, To, Found, RegistryOpen, Goto, limiter, conn,
            handler, redis, local
<1>1. CASE ManagerStop
  BY <1>1 DEF ManagerStop
<1>2. CASE ListenerStopped
  BY <1>2 DEF ListenerStopped
<1>3. CASE StopOneHandler
  BY <1>3 DEF StopOneHandler
<1>4. CASE ClearHandlers
  BY <1>4 DEF ClearHandlers
<1>5. CASE Stop(Mgr)
  BY <1>5, StopMgrTrue
<1> QED
  BY <1>1, <1>2, <1>3, <1>4, <1>5 DEF Shutdown

\* Redis drops a key.
LEMMA ExpiryTrue ==
  ASSUME OwnerInv, RegistryInv, NEW s \in Streams, Expire(s)
  PROVE  RegistryInv'
BY DEF Expire, OwnerInv, ShapeOK, ReturnOK, LockOK, ServedAlone, MapOK, OwnOK, CloseOK,
            RegistryInv, RegistryShape, ServesOK, CallsOK, CallOK, MutexOK, SenderOK,
            FirstOfItsStream, NotYet, GoneOK, StatusOK, Stopping, StreamLabels, HoldsSlot,
            Serving, Unregistered, Terminating, AfterDelete, Leaving, OnRecord, Records,
            OnStream, InOp, Procs, From, To, Found, RegistryOpen, Goto, limiter, conn,
            handler, redis, local

\* Whatever leaves alone what the invariant speaks of keeps it.
LEMMA UntouchedTrue ==
  ASSUME RegistryInv, UNCHANGED <<connections, paused, ctxDone, record, lockGen, pc, target, snap, gen>>
  PROVE  RegistryInv'
BY DEF RegistryInv, RegistryShape, ServesOK, CallsOK, CallOK, MutexOK, SenderOK, NotYet, GoneOK,
       StatusOK, FirstOfItsStream, OnStream

LEMMA StepKeepsRegistry == OwnerInv /\ RegistryInv /\ [Next]_vars => RegistryInv'
<1> SUFFICES ASSUME OwnerInv, RegistryInv, [Next]_vars PROVE RegistryInv'
  OBVIOUS
<1>1. ASSUME NEW c \in Conns, Listener(c) PROVE RegistryInv'
  BY <1>1, ListenerTrue
<1>2. ASSUME NEW c \in Conns, HandleSRTConnection(c) PROVE RegistryInv'
  BY <1>2, ConnectionTrue
<1>3. ASSUME NEW c \in Conns, Close(c) PROVE RegistryInv'
  BY <1>3, CloseTrue
<1>4. ASSUME NEW o \in Ops, TerminateStream(o) PROVE RegistryInv'
  BY <1>4, TerminateTrue DEF TerminateStream
<1>5. ASSUME NEW o \in Ops, PauseResume(o) PROVE RegistryInv'
  BY <1>5, PauseResumeTrue DEF PauseResume
<1>6. CASE Shutdown
  BY <1>6, ShutdownTrue
<1>7. ASSUME NEW s \in Streams, Expire(s) PROVE RegistryInv'
  BY <1>7, ExpiryTrue
<1>8. ASSUME NEW c \in Conns, StartHandler(c) \/ PeerLost(c) PROVE RegistryInv'
  BY <1>8, UntouchedTrue DEF StartHandler, PeerLost, conn, handler, redis, local
<1>9. CASE List
  BY <1>9, UntouchedTrue DEF List, conn, handler, redis, local
<1>10. CASE UNCHANGED vars
  BY <1>10, UntouchedTrue DEF vars, conn, handler, redis, local
<1> QED
  BY <1>1, <1>2, <1>3, <1>4, <1>5, <1>6, <1>7, <1>8, <1>9, <1>10 DEF Next

\* What the registry says of the only sender of a stream is true: its status is
\* that of the connection whenever no call is under way, and while the manager
\* runs no key outlives its connection; for any number of streams and API calls
\* and with every fault but the leftovers of a crashed process, which come from
\* another life of the manager (registry/redis_registry.go, manager.go:370-737).
THEOREM RegistryIsTrue == ASSUME "crashed" \notin Faults PROVE Spec => []RegistryAgrees
<1>1. OwnerInv /\ RegistryInv => PauseAgrees
  BY DEF OwnerInv, ShapeOK, RegistryInv, SenderOK, StatusOK, ServesOK, PauseAgrees, Quiet, OnStream
<1>2. OwnerInv /\ RegistryInv => NoGhostRecords
  <2> SUFFICES ASSUME OwnerInv, RegistryInv, pc[Mgr] = "run",
                      NEW s \in Streams, record[s] # None, OneSender(s)
               PROVE  connections[s] # None /\ pc[connections[s]] \in Serving
    BY DEF NoGhostRecords, ManagerCancelled
  <2>1. PICK c \in Conns : StreamOf[c] = s /\ FirstOfItsStream(c)
    BY DEF OneSender
  <2>2. pc[c] \notin Unregistered \cup Leaving \cup {"regset", "duplicate"}
    BY <2>1 DEF RegistryInv, SenderOK, NotYet, GoneOK
  <2>3. pc[c] \in {"create", "failed", "wait", "remove"}
    BY <2>2 DEF RegistryInv, ServesOK, Serving, HoldsSlot, Unregistered, Leaving, Stopping
  <2>4. connections[s] = c /\ pc[c] \in Serving
    BY <2>1, <2>3 DEF OwnerInv, ServedAlone, Serving, HoldsSlot
  <2> QED
    BY <2>4
<1>3. Init => RegistryInv
  BY RegistryInit
<1>4. OwnerInv /\ RegistryInv => RegistryAgrees
  BY <1>1, <1>2 DEF RegistryAgrees
<1> QED
  BY <1>3, <1>4, OwnerInvariant, StepKeepsRegistry, PTL DEF Spec
=============================================================================
