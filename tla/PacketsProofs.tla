--------------------------- MODULE PacketsProofs ----------------------------
(***************************************************************************)
(* Proofs about what is kept of the packets received: the jitter buffer,   *)
(* the versions of a stream's parameter sets, the MPEG-TS demultiplexer    *)
(* and the alignment in front of it, the encoder sessions' cache and the   *)
(* parameter-set contexts.  Each part opens with its argument.             *)
(***************************************************************************)
EXTENDS RTPReceive, ParameterVersions, TSParser, EncoderSessions, ParameterSets, CommonLemmas

-----------------------------------------------------------------------------
(***************************************************************************)
(* The duplicate filter of the jitter buffer is exact, for every number    *)
(* space, buffer size, target delay and behaviour of the network.          *)
(***************************************************************************)

\* What the filter's exactness rests on: the buffer holds packets.
HeapOK == heap \in SUBSET Packets

FilterInv == HeapOK /\ SeenExact

LEMMA PacketsFinite ==
    \A h \in SUBSET Packets : IsFiniteSet(h) /\ Cardinality(h) \in Nat
<1>1. IsFiniteSet(Packets)
  BY ReceiveAssumption, FS_Interval DEF Packets
<1> QED
  BY <1>1, FS_Subset, FS_CardinalityType

\* A packet that is not a duplicate, into a buffer that has room or makes it.
LEMMA InsertKeeps ==
    ASSUME FilterInv, NEW n \in Packets, Seq16(n) \notin seqSeen, Insert(n)
    PROVE  FilterInv'
<1> USE DEF FilterInv, HeapOK, SeenExact
<1>0. /\ n \notin heap
      /\ \A m \in heap : Seq16(m) # Seq16(n)
  OBVIOUS
<1>1. CASE Cardinality(heap) >= MaxSize
  <2>1. PICK victim \in heap :
          /\ heap' = (heap \ {victim}) \cup {n}
          /\ seqSeen' = (seqSeen \cup {Seq16(n)}) \ {Seq16(victim)}
    BY <1>1 DEF Insert
  <2>2. HeapOK'
    BY <2>1
  <2>3. seqSeen' = {Seq16(m) : m \in heap'}
    <3>1. \A s : s \in seqSeen' => s \in {Seq16(m) : m \in heap'}
      BY <2>1
    <3>2. \A m \in heap' : Seq16(m) \in seqSeen'
      BY <2>1, <1>0
    <3> QED
      BY <3>1, <3>2
  <2>4. \A m, k \in heap' : Seq16(m) = Seq16(k) => m = k
    BY <2>1, <1>0
  <2>5. Cardinality(heap') <= MaxSize
    <3>1. IsFiniteSet(heap) /\ IsFiniteSet(heap \ {victim})
      BY PacketsFinite
    <3>2. Cardinality(heap \ {victim}) = Cardinality(heap) - 1
      BY <3>1, FS_RemoveElement
    <3>3. Cardinality(heap') = Cardinality(heap \ {victim}) + 1
      BY <2>1, <3>1, <1>0, FS_AddElement
    <3>4. Cardinality(heap) \in Nat /\ MaxSize \in Nat
      BY PacketsFinite, ReceiveAssumption
    <3> QED
      BY <3>2, <3>3, <3>4
  <2> HIDE DEF HeapOK
  <2> QED
    BY <2>2, <2>3, <2>4, <2>5
<1>2. CASE ~(Cardinality(heap) >= MaxSize)
  <2>1. heap' = heap \cup {n} /\ seqSeen' = seqSeen \cup {Seq16(n)}
    BY <1>2 DEF Insert
  <2>2. HeapOK'
    BY <2>1
  <2>3. seqSeen' = {Seq16(m) : m \in heap'}
    BY <2>1
  <2>4. \A m, k \in heap' : Seq16(m) = Seq16(k) => m = k
    BY <2>1, <1>0
  <2>5. Cardinality(heap') <= MaxSize
    <3>1. Cardinality(heap') = Cardinality(heap) + 1
      BY <2>1, <1>0, PacketsFinite, FS_AddElement
    <3>2. Cardinality(heap) \in Nat /\ MaxSize \in Nat
      BY PacketsFinite, ReceiveAssumption
    <3> QED
      BY <3>1, <3>2, <1>2
  <2> HIDE DEF HeapOK
  <2> QED
    BY <2>2, <2>3, <2>4, <2>5
<1> QED
  BY <1>1, <1>2

\* However a packet leaves the buffer, its number leaves the filter.
LEMMA PopKeeps ==
    ASSUME FilterInv, NEW n \in Packets, PopDue(n)
    PROVE  FilterInv'
<1> USE DEF FilterInv, HeapOK, SeenExact
<1>1. n \in heap /\ heap' = heap \ {n} /\ seqSeen' = seqSeen \ {Seq16(n)}
  BY DEF PopDue, IsRoot
<1>2. HeapOK'
  BY <1>1
<1>3. seqSeen' = {Seq16(m) : m \in heap'}
  <2>1. \A s : s \in seqSeen' => s \in {Seq16(m) : m \in heap'}
    BY <1>1
  <2>2. \A m \in heap' : Seq16(m) \in seqSeen'
    BY <1>1
  <2> QED
    BY <2>1, <2>2
<1>4. \A m, k \in heap' : Seq16(m) = Seq16(k) => m = k
  BY <1>1
<1>5. Cardinality(heap') <= MaxSize
  <2>1. Cardinality(heap') = Cardinality(heap) - 1
    BY <1>1, PacketsFinite, FS_RemoveElement
  <2>2. Cardinality(heap) \in Nat /\ MaxSize \in Nat
    BY PacketsFinite, ReceiveAssumption
  <2> QED
    BY <2>1, <2>2
<1> HIDE DEF HeapOK
<1> QED
  BY <1>2, <1>3, <1>4, <1>5

LEMMA BufferUnchanged ==
    ASSUME FilterInv, UNCHANGED <<heap, seqSeen>>
    PROVE  FilterInv'
BY DEF FilterInv, HeapOK, SeenExact

\* The duplicate filter (jitter_buffer.go:111-121, 181-186) knows exactly the
\* packets in the buffer, and the buffer keeps its size.
THEOREM FilterExact == Spec => []SeenExact
<1>1. Init => FilterInv
  <2> SUFFICES ASSUME Init PROVE FilterInv
    OBVIOUS
  <2>1. heap = {} /\ seqSeen = {}
    BY DEF Init
  <2>2. Cardinality(heap) = 0
    BY <2>1, FS_EmptySet
  <2> QED
    BY <2>1, <2>2, ReceiveAssumption DEF FilterInv, HeapOK, SeenExact
<1>2. FilterInv /\ [Next]_vars => FilterInv'
  <2> SUFFICES ASSUME FilterInv, [Next]_vars PROVE FilterInv'
    OBVIOUS
  <2>1. CASE \E n \in Packets : Arrive(n)
    <3> PICK n \in Packets : Arrive(n)
      BY <2>1
    <3>1. CASE UNCHANGED <<heap, seqSeen>>
      BY <3>1, BufferUnchanged
    <3>2. CASE ~UNCHANGED <<heap, seqSeen>>
      <4>1. Seq16(n) \notin seqSeen /\ Insert(n)
        BY <3>2 DEF Arrive, Add, buffer
      <4> QED
        BY <4>1, InsertKeeps
    <3> QED
      BY <3>1, <3>2
  <2>2. CASE \E n \in Packets : PopDue(n)
    BY <2>2, PopKeeps
  <2>3. CASE StartPoll
    BY <2>3, BufferUnchanged DEF StartPoll, buffer
  <2>4. CASE EndPoll
    BY <2>4, BufferUnchanged DEF EndPoll, buffer
  <2>5. CASE Tick
    BY <2>5, BufferUnchanged DEF Tick, buffer
  <2>6. CASE UNCHANGED vars
    BY <2>6, BufferUnchanged DEF vars, buffer
  <2> QED
    BY <2>1, <2>2, <2>3, <2>4, <2>5, <2>6 DEF Next
<1>3. FilterInv => SeenExact
  BY DEF FilterInv
<1> QED
  BY <1>1, <1>2, <1>3, PTL DEF Spec

-----------------------------------------------------------------------------
(***************************************************************************)
(* Versions, rollbacks and migrations, for any contents, limits and        *)
(* interleaving.  The numbers stored are an interval that ends at the      *)
(* newest; while a rollback holds vm.mu, no version is stored but its      *)
(* backup, and that one holds what the context holds until a set is added. *)
(* The active migration is neither done nor cancelled, so that no          *)
(* migration is cancelled twice or after its end.                          *)
(***************************************************************************)

\* A stored version is a record, whatever its content.
WellMade(v) == versions[v] = [content |-> versions[v].content, valid |-> versions[v].valid]

\* The backup of the rollback under way holds what the context holds.
BackedUp(r) == r.backup # 0 =>
  /\ r.backup \in DOMAIN versions
  /\ ~r.touched => versions[r.backup].content = holds

RollShape == [to : Nat, backup : Nat, touched : BOOLEAN]

StoredOK ==
  /\ current \in Nat /\ backups \in Nat /\ VersionsKept
  /\ \A v \in DOMAIN versions : WellMade(v)
  /\ rolling \in Seq(RollShape) /\ \A n \in DOMAIN rolling : BackedUp(rolling[n])
  /\ \A n \in DOMAIN replaced : replaced[n].backup \in 1..current
  /\ BackupExact

Stages == {"start", "validate", "migrate", "half", "done"}
Migrations ==
  [from : Nat, to : Nat, strategy : Strategies, at : Stages, cancelled : BOOLEAN,
   state : {"pending", "validating", "inProgress", "completed", "failed"}]

MigShape ==
  /\ mig \in Seq(Migrations) /\ active \in 0..Len(mig)
  /\ succeeded \in Nat /\ failed \in Nat
  /\ recorded \in Seq(Nat) /\ \A n \in DOMAIN recorded : recorded[n] \in DOMAIN mig

ActiveOK == active # 0 => mig[active].at # "done" /\ ~mig[active].cancelled

VerInv == StoredOK /\ MigShape /\ ActiveOK /\ MigrationsCounted

MigOK == MigShape /\ ActiveOK /\ MigrationsCounted

-----------------------------------------------------------------------------
\* A set of naturals has a least element, the one Min picks.
LEMMA MinExists ==
  ASSUME NEW T \in SUBSET Nat, T # {}
  PROVE  Min(T) \in T /\ \A y \in T : Min(T) <= y
<1>1. \E x \in T : \A y \in T : ~(<<y, x>> \in OpToRel(<, Nat))
  BY NatLessThanWellFounded, WFMin
<1>2. \E x \in T : \A y \in T : x <= y
  <2>1. ASSUME NEW x \in Nat, NEW y \in Nat, y < x PROVE <<y, x>> \in OpToRel(<, Nat)
    BY <2>1 DEF OpToRel
  <2>2. PICK x \in T : \A y \in T : ~(<<y, x>> \in OpToRel(<, Nat))
    BY <1>1
  <2>3. ASSUME NEW y \in T PROVE x <= y
    <3>1. x \in Nat /\ y \in Nat
      OBVIOUS
    <3>2. ~(y < x)
      BY <2>1, <2>2, <3>1
    <3> QED
      BY <3>1, <3>2
  <2> QED
    BY <2>3
<1> QED
  BY <1>2 DEF Min

\* Of the versions, a cleanup keeps the newest, at most maxVersions of them.
LEMMA CleanupKeeps ==
  ASSUME NEW top \in Nat, NEW lo \in Nat, lo <= top, NEW vs, DOMAIN vs = lo..top
  PROVE  \E hi \in lo..top :
           /\ DOMAIN CleanupOldVersions(vs, top) = hi..top /\ top + 1 - hi <= KeptVersions
           /\ \A v \in hi..top : CleanupOldVersions(vs, top)[v] = vs[v]
<1> DEFINE S == {n \in Min(DOMAIN vs)..top :
                   n = top \/ Cardinality({v \in DOMAIN vs : v >= n}) <= KeptVersions}
           hi == Min(S)
<1>k. KeptVersions \in Nat /\ KeptVersions >= 1
  BY VersionsAssumption
<1>1. Min(DOMAIN vs) = lo
  <2>1. lo..top \in SUBSET Nat /\ lo \in lo..top
    OBVIOUS
  <2>2. Min(lo..top) \in lo..top /\ Min(lo..top) <= lo
    BY <2>1, MinExists
  <2> QED BY <2>2
<1>2. S \in SUBSET Nat /\ top \in S
  BY <1>1
<1>3. hi \in S
  BY <1>2, MinExists
<1>4. CleanupOldVersions(vs, top) = [v \in {w \in DOMAIN vs : w >= hi} |-> vs[v]]
  BY DEF CleanupOldVersions
<1>5. hi \in lo..top /\ (hi = top \/ Cardinality({v \in DOMAIN vs : v >= hi}) <= KeptVersions)
  BY <1>1, <1>3
<1> HIDE DEF hi, S
<1>6. {v \in DOMAIN vs : v >= hi} = hi..top
  BY <1>5
<1>7. top + 1 - hi <= KeptVersions
  <2>1. CASE hi = top
    BY <1>k, <2>1
  <2>2. CASE hi # top
    <3>1. Cardinality(hi..top) <= KeptVersions
      BY <1>5, <1>6, <2>2
    <3>2. Cardinality(hi..top) = top - hi + 1
      BY <1>5, FS_Interval
    <3> QED BY <1>5, <3>1, <3>2
  <2> QED BY <2>1, <2>2
<1>8. DOMAIN CleanupOldVersions(vs, top) = hi..top
      /\ \A v \in hi..top : CleanupOldVersions(vs, top)[v] = vs[v]
  BY <1>4, <1>6
<1> QED
  BY <1>5, <1>7, <1>8

\* The next version joins the interval of those stored.
LEMMA NextVersion ==
  ASSUME StoredOK, NEW c
  PROVE  LET vs == WithVersion(current + 1, c)
         IN  \E lo \in 1..(current + 1) :
               /\ DOMAIN versions = lo..current /\ current + 1 - lo <= KeptVersions + backups
               /\ DOMAIN vs = lo..(current + 1)
               /\ vs[current + 1] = [content |-> c, valid |-> TRUE]
               /\ \A v \in DOMAIN versions : vs[v] = versions[v]
<1>1. current \in Nat
  BY DEF StoredOK
<1>2. PICK lo \in 1..(current + 1) : DOMAIN versions = lo..current /\ current + 1 - lo <= KeptVersions + backups
  BY DEF StoredOK, VersionsKept
<1> DEFINE vs == WithVersion(current + 1, c)
<1>3. vs = [w \in DOMAIN versions \cup {current + 1} |->
              IF w = current + 1 THEN [content |-> c, valid |-> TRUE] ELSE versions[w]]
  BY DEF WithVersion
<1> HIDE DEF vs
<1>4. DOMAIN versions \cup {current + 1} = lo..(current + 1) /\ current + 1 \notin DOMAIN versions
  BY <1>1, <1>2
<1>5. /\ DOMAIN vs = lo..(current + 1) /\ vs[current + 1] = [content |-> c, valid |-> TRUE]
      /\ \A v \in DOMAIN versions : vs[v] = versions[v]
  BY <1>3, <1>4
<1> QED
  BY <1>2, <1>5 DEF vs

LEMMA StoreKeeps ==
  ASSUME StoredOK, NEW c, Store(c), UNCHANGED <<rolling, replaced>>
  PROVE  StoredOK'
<1> DEFINE vs == WithVersion(current + 1, c)
<1>1. /\ current \in Nat /\ rolling = <<>> /\ current' = current + 1 /\ backups' = 0
      /\ versions' = CleanupOldVersions(vs, current + 1)
  BY DEF StoredOK, Store
<1>2. PICK lo \in 1..(current + 1) :
        /\ DOMAIN versions = lo..current /\ DOMAIN vs = lo..(current + 1)
        /\ vs[current + 1] = [content |-> c, valid |-> TRUE]
        /\ \A v \in DOMAIN versions : vs[v] = versions[v]
  BY NextVersion
<1> HIDE DEF vs
<1>3. PICK hi \in lo..(current + 1) :
        /\ DOMAIN versions' = hi..(current + 1) /\ (current + 1) + 1 - hi <= KeptVersions
        /\ \A v \in hi..(current + 1) : versions'[v] = vs[v]
  BY <1>1, <1>2, CleanupKeeps
<1>4. VersionsKept'
  <2>1. /\ hi \in 1..(current' + 1) /\ DOMAIN versions' = hi..current' /\ hi <= current'
        /\ current' + 1 - hi <= KeptVersions + backups'
    BY <1>1, <1>2, <1>3, VersionsAssumption
  <2> QED BY <2>1 DEF VersionsKept
<1>5. \A v \in DOMAIN versions' : v = current + 1 \/ (v \in DOMAIN versions /\ versions'[v] = versions[v])
  BY <1>1, <1>2, <1>3
<1>6. \A v \in DOMAIN versions' : WellMade(v)'
  <2> TAKE v \in DOMAIN versions'
  <2>1. CASE v = current + 1
    <3>1. versions'[v] = [content |-> c, valid |-> TRUE]
      BY <1>2, <1>3, <2>1
    <3> QED BY <3>1 DEF WellMade
  <2>2. CASE v \in DOMAIN versions /\ versions'[v] = versions[v]
    BY <2>2 DEF StoredOK, WellMade
  <2> QED BY <1>5, <2>1, <2>2
<1>7. ASSUME NEW n \in DOMAIN replaced
      PROVE  /\ replaced[n].backup \in 1..current'
             /\ ~replaced[n].touched /\ replaced[n].backup \in DOMAIN versions'
                  => versions'[replaced[n].backup].content = replaced[n].content
  <2>1. replaced[n].backup \in 1..current
    BY DEF StoredOK
  <2>2. replaced[n].backup \in DOMAIN versions' =>
          replaced[n].backup \in DOMAIN versions /\ versions'[replaced[n].backup] = versions[replaced[n].backup]
    BY <1>1, <1>5, <2>1
  <2> QED BY <1>1, <2>1, <2>2 DEF StoredOK, BackupExact
<1>8. BackupExact'
  BY <1>7 DEF BackupExact
<1>9. (\A n \in DOMAIN rolling : BackedUp(rolling[n]))' /\ rolling' \in Seq(RollShape)
  BY <1>1
<1> QED
  BY <1>1, <1>4, <1>6, <1>7, <1>8, <1>9 DEF StoredOK

LEMMA WriteKeeps ==
  ASSUME StoredOK, NEW c, Write(c), UNCHANGED <<current, versions, backups, replaced>>
  PROVE  StoredOK'
<1>1. rolling \in Seq(RollShape)
      /\ rolling' = [n \in DOMAIN rolling |-> [rolling[n] EXCEPT !.touched = (rolling[n].backup # 0)]]
  BY DEF StoredOK, Write
<1>2. ASSUME NEW n \in DOMAIN rolling
      PROVE  rolling'[n] \in RollShape /\ BackedUp(rolling[n])'
  <2>1. rolling[n] \in RollShape /\ BackedUp(rolling[n])
    BY <1>1 DEF StoredOK
  <2>2. rolling'[n] = [rolling[n] EXCEPT !.touched = (rolling[n].backup # 0)]
    BY <1>1
  <2>3. /\ rolling'[n] \in RollShape /\ rolling'[n].backup = rolling[n].backup
        /\ rolling'[n].touched = (rolling[n].backup # 0)
    BY <2>1, <2>2 DEF RollShape
  <2> QED BY <2>1, <2>3 DEF BackedUp
<1>3. rolling' \in Seq(RollShape) /\ DOMAIN rolling' = DOMAIN rolling
  <2>1. DOMAIN rolling = 1..Len(rolling) /\ Len(rolling) \in Nat
    BY <1>1
  <2>2. DOMAIN rolling' = 1..Len(rolling)
    BY <1>1, <2>1
  <2>3. rolling' \in [1..Len(rolling) -> RollShape]
    BY <1>1, <1>2, <2>1
  <2> QED BY <2>1, <2>2, <2>3
<1>4. \A v \in DOMAIN versions' : WellMade(v)'
  BY DEF StoredOK, WellMade
<1>5. VersionsKept' /\ BackupExact'
  BY DEF StoredOK, VersionsKept, BackupExact
<1> QED
  BY <1>2, <1>3, <1>4, <1>5 DEF StoredOK

LEMMA BackupKeeps ==
  ASSUME StoredOK, CreateBackupVersion
  PROVE  StoredOK'
<1> DEFINE vs == WithVersion(current + 1, holds)
           r == rolling[1]
           q == [r EXCEPT !.backup = current + 1]
<1>1. /\ current \in Nat /\ backups \in Nat /\ rolling # <<>> /\ current' = current + 1
      /\ versions' = vs /\ rolling' = <<q>> /\ backups' = backups + 1 /\ holds' = holds
      /\ replaced' = replaced /\ rolling \in Seq(RollShape)
  BY DEF StoredOK, CreateBackupVersion
<1>2. PICK lo \in 1..(current + 1) :
        /\ DOMAIN versions = lo..current /\ DOMAIN vs = lo..(current + 1)
        /\ current + 1 - lo <= KeptVersions + backups
        /\ vs[current + 1] = [content |-> holds, valid |-> TRUE]
        /\ \A v \in DOMAIN versions : vs[v] = versions[v]
  BY NextVersion
<1> HIDE DEF vs
<1>3. VersionsKept'
  <2>1. /\ lo \in 1..(current' + 1) /\ DOMAIN versions' = lo..current' /\ lo <= current'
        /\ current' + 1 - lo <= KeptVersions + backups'
    BY <1>1, <1>2, VersionsAssumption
  <2> QED BY <2>1 DEF VersionsKept
<1>4. \A v \in DOMAIN versions' : v = current + 1 \/ (v \in DOMAIN versions /\ versions'[v] = versions[v])
  BY <1>1, <1>2
<1>5. \A v \in DOMAIN versions' : WellMade(v)'
  <2> TAKE v \in DOMAIN versions'
  <2>1. CASE v = current + 1
    <3>1. versions'[v] = [content |-> holds, valid |-> TRUE]
      BY <1>1, <1>2, <2>1
    <3> QED BY <3>1 DEF WellMade
  <2>2. CASE v \in DOMAIN versions /\ versions'[v] = versions[v]
    BY <2>2 DEF StoredOK, WellMade
  <2> QED BY <1>4, <2>1, <2>2
<1>6. q \in RollShape /\ q.backup = current + 1
  <2>1. 1 \in DOMAIN rolling
    BY <1>1
  <2>2. r \in RollShape
    BY <1>1, <2>1
  <2> HIDE DEF r
  <2>3. current + 1 \in Nat
    BY <1>1
  <2>4. \A x \in RollShape, c \in Nat :
          [x EXCEPT !.backup = c] \in RollShape /\ [x EXCEPT !.backup = c].backup = c
    BY DEF RollShape
  <2> QED BY <2>2, <2>3, <2>4
<1> HIDE DEF q
<1>7. current + 1 \in DOMAIN versions' /\ versions'[current + 1].content = holds
  BY <1>1, <1>2
<1>8. rolling' \in Seq(RollShape) /\ \A n \in DOMAIN rolling' : rolling'[n] = q
  BY <1>1, <1>6
<1>9. (\A n \in DOMAIN rolling : BackedUp(rolling[n]))'
  BY <1>1, <1>6, <1>7, <1>8 DEF BackedUp
<1>10. ASSUME NEW n \in DOMAIN replaced
       PROVE  /\ replaced[n].backup \in 1..current'
              /\ ~replaced[n].touched /\ replaced[n].backup \in DOMAIN versions'
                   => versions'[replaced[n].backup].content = replaced[n].content
  <2>1. replaced[n].backup \in 1..current
    BY DEF StoredOK
  <2>2. replaced[n].backup \in DOMAIN versions' =>
          replaced[n].backup \in DOMAIN versions /\ versions'[replaced[n].backup] = versions[replaced[n].backup]
    BY <1>1, <1>4, <2>1
  <2> QED BY <1>1, <2>1, <2>2 DEF StoredOK, BackupExact
<1>11. BackupExact'
  BY <1>1, <1>10 DEF BackupExact
<1> QED
  BY <1>1, <1>3, <1>5, <1>8, <1>9, <1>10, <1>11 DEF StoredOK

LEMMA RestoreKeeps ==
  ASSUME StoredOK, Restore
  PROVE  StoredOK'
<1> DEFINE r == rolling[1]
           b == r.backup
           q == [backup |-> b, content |-> holds, touched |-> r.touched]
<1>1. /\ current \in Nat /\ rolling # <<>> /\ b # 0 /\ rolling' = <<>> /\ replaced' = <<q>>
      /\ versions' = [versions EXCEPT ![b].valid = FALSE] /\ UNCHANGED <<current, backups>>
      /\ rolling \in Seq(RollShape)
  BY DEF StoredOK, Restore
<1>2. 1 \in DOMAIN rolling
  BY <1>1
<1>3. b \in DOMAIN versions /\ (~r.touched => versions[b].content = holds)
  BY <1>1, <1>2 DEF StoredOK, BackedUp
<1>4. q.backup = b /\ q.content = holds /\ q.touched = r.touched
  OBVIOUS
<1> HIDE DEF q
<1>5. \A n \in DOMAIN replaced' : replaced'[n] = q
  BY <1>1
<1>6. /\ DOMAIN versions' = DOMAIN versions
      /\ \A v \in DOMAIN versions : v # b => versions'[v] = versions[v]
      /\ versions'[b] = [versions[b] EXCEPT !.valid = FALSE]
  BY <1>1, <1>3
<1>7. versions'[b] = [content |-> versions[b].content, valid |-> FALSE]
  <2>1. versions[b] = [content |-> versions[b].content, valid |-> versions[b].valid]
    BY <1>3 DEF StoredOK, WellMade
  <2> QED BY <1>6, <2>1
<1>8. versions'[b].content = versions[b].content
  BY <1>7
<1>9. \A v \in DOMAIN versions' : WellMade(v)'
  <2> TAKE v \in DOMAIN versions'
  <2>1. CASE v = b
    BY <1>7, <2>1 DEF WellMade
  <2>2. CASE v # b
    BY <1>6, <2>2 DEF StoredOK, WellMade
  <2> QED BY <2>1, <2>2
<1>10. VersionsKept'
  BY <1>1, <1>6 DEF StoredOK, VersionsKept
<1>11. BackupExact'
  BY <1>3, <1>4, <1>5, <1>8 DEF BackupExact
<1>12. \A n \in DOMAIN replaced' : replaced'[n].backup \in 1..current'
  <2>1. b \in 1..current
    BY <1>1, <1>3 DEF StoredOK, VersionsKept
  <2> QED BY <1>1, <1>4, <1>5, <2>1
<1>13. rolling' \in Seq(RollShape) /\ DOMAIN rolling' = {}
  BY <1>1
<1> HIDE DEF b, r
<1> QED
  BY <1>1, <1>9, <1>10, <1>11, <1>12, <1>13 DEF StoredOK

LEMMA StoredUnchanged ==
  ASSUME StoredOK, UNCHANGED <<holds, current, versions, rolling, backups, replaced>>
  PROVE  StoredOK'
BY DEF StoredOK, VersionsKept, WellMade, BackedUp, BackupExact

LEMMA RollbackKeeps ==
  ASSUME StoredOK, NEW v \in Numbers, Rollback(v)
  PROVE  StoredOK'
<1> DEFINE q == [to |-> v, backup |-> 0, touched |-> FALSE]
<1>1. rolling' = <<q>> /\ UNCHANGED <<holds, current, versions, backups, replaced>>
  BY DEF Rollback
<1>2. q \in RollShape /\ q.backup = 0
  BY DEF RollShape, Numbers
<1> HIDE DEF q
<1>3. rolling' \in Seq(RollShape) /\ \A n \in DOMAIN rolling' : rolling'[n] = q
  BY <1>1, <1>2
<1>4. (\A n \in DOMAIN rolling : BackedUp(rolling[n]))'
  BY <1>2, <1>3 DEF BackedUp
<1> QED
  BY <1>1, <1>3, <1>4 DEF StoredOK, VersionsKept, WellMade, BackupExact

-----------------------------------------------------------------------------
LEMMA Updated ==
  ASSUME mig \in Seq(Migrations), NEW m \in DOMAIN mig, NEW r \in Migrations,
         mig' = [mig EXCEPT ![m] = r]
  PROVE  /\ mig' \in Seq(Migrations) /\ DOMAIN mig' = DOMAIN mig /\ Len(mig') = Len(mig)
         /\ mig'[m] = r /\ \A k \in DOMAIN mig : k # m => mig'[k] = mig[k]
<1>1. DOMAIN mig = 1..Len(mig) /\ Len(mig) \in Nat /\ mig \in [1..Len(mig) -> Migrations]
  OBVIOUS
<1>2. mig' \in [1..Len(mig) -> Migrations]
  BY <1>1
<1>3. mig' \in Seq(Migrations) /\ Len(mig') = Len(mig)
  BY <1>1, <1>2
<1> QED
  BY <1>1, <1>2, <1>3

\* The records kept are the same, whether the older ones are dropped before the
\* next one comes or after.
LEMMA NewestNext ==
  ASSUME NEW q \in Seq(Nat), NEW m \in Nat
  PROVE  Newest(Append(Newest(q), m)) = Newest(Append(q, m))
<1> DEFINE l == Len(q)
           p == Newest(q)
           a == Append(p, m)
           b == Append(q, m)
<1>1. l \in Nat /\ MaxHistory \in Nat /\ MaxHistory >= 1
  BY VersionsAssumption
<1>2. CASE ~(l > MaxHistory)
  BY <1>2 DEF Newest
<1>3. CASE l > MaxHistory
  <2>h. PICK h \in Nat : h = MaxHistory
    BY <1>1
  <2>1. /\ p = SubSeq(q, l - h + 1, l) /\ p \in Seq(Nat) /\ Len(p) = h
        /\ \A i \in 1..h : p[i] = q[l - h + i]
    <3>1. p = SubSeq(q, l - h + 1, l)
      BY <1>3, <2>h DEF Newest
    <3>2. l - h + 1 \in 1..(l + 1) /\ l \in ((l - h + 1) - 1)..l /\ l - (l - h + 1) + 1 = h
      BY <1>1, <1>3, <2>h
    <3>3. /\ p \in Seq(Nat) /\ Len(p) = l - (l - h + 1) + 1
          /\ \A i \in 1..(l - (l - h + 1) + 1) : p[i] = q[(l - h + 1) + i - 1]
      BY <3>1, <3>2, SubSeqIs
    <3>4. \A i \in 1..h : (l - h + 1) + i - 1 = l - h + i
      BY <1>1
    <3> QED BY <3>1, <3>2, <3>3, <3>4
  <2> HIDE DEF p
  <2>2. /\ a \in Seq(Nat) /\ Len(a) = h + 1 /\ a[h + 1] = m /\ \A i \in 1..h : a[i] = p[i]
    BY <2>1, AppendProperties
  <2>3. /\ b \in Seq(Nat) /\ Len(b) = l + 1 /\ b[l + 1] = m /\ \A i \in 1..l : b[i] = q[i]
    BY <1>1, AppendProperties
  <2> HIDE DEF a, b
  <2> DEFINE x == SubSeq(a, 2, h + 1)
             y == SubSeq(b, l - h + 2, l + 1)
  <2>4. Newest(a) = x
    <3>1. Len(a) > MaxHistory /\ Len(a) - MaxHistory + 1 = 2
      BY <2>2, <2>h
    <3> QED BY <2>2, <3>1 DEF Newest
  <2>5. Newest(b) = y
    <3>1. Len(b) > MaxHistory /\ Len(b) - MaxHistory + 1 = l - h + 2
      BY <1>1, <1>3, <2>3, <2>h
    <3> QED BY <2>3, <3>1 DEF Newest
  <2>6. x \in Seq(Nat) /\ Len(x) = h /\ \A i \in 1..h : x[i] = a[i + 1]
    <3>1. 2 \in 1..(Len(a) + 1) /\ h + 1 \in (2 - 1)..Len(a) /\ (h + 1) - 2 + 1 = h
      BY <1>1, <2>2, <2>h
    <3>2. /\ x \in Seq(Nat) /\ Len(x) = (h + 1) - 2 + 1
          /\ \A i \in 1..((h + 1) - 2 + 1) : x[i] = a[2 + i - 1]
      BY <2>2, <3>1, SubSeqIs
    <3>3. \A i \in 1..h : 2 + i - 1 = i + 1
      OBVIOUS
    <3> QED BY <3>1, <3>2, <3>3
  <2>7. y \in Seq(Nat) /\ Len(y) = h /\ \A i \in 1..h : y[i] = b[l - h + i + 1]
    <3>1. /\ l - h + 2 \in 1..(Len(b) + 1) /\ l + 1 \in ((l - h + 2) - 1)..Len(b)
          /\ (l + 1) - (l - h + 2) + 1 = h
      BY <1>1, <1>3, <2>3, <2>h
    <3>2. /\ y \in Seq(Nat) /\ Len(y) = (l + 1) - (l - h + 2) + 1
          /\ \A i \in 1..((l + 1) - (l - h + 2) + 1) : y[i] = b[(l - h + 2) + i - 1]
      BY <2>3, <3>1, SubSeqIs
    <3>3. \A i \in 1..h : (l - h + 2) + i - 1 = l - h + i + 1
      BY <1>1
    <3> QED BY <3>1, <3>2, <3>3
  <2> HIDE DEF x, y
  <2>8. ASSUME NEW i \in 1..h PROVE x[i] = y[i]
    <3>1. CASE i = h
      <4>1. l - h + i + 1 = l + 1
        BY <1>1, <3>1
      <4> QED BY <2>2, <2>3, <2>6, <2>7, <3>1, <4>1
    <3>2. CASE i # h
      <4>1. /\ i + 1 \in 1..h /\ l - h + i + 1 \in 1..l /\ l - h + (i + 1) = l - h + i + 1
        BY <1>1, <1>3, <2>h, <3>2
      <4>2. x[i] = p[i + 1]
        BY <2>2, <2>6, <4>1
      <4>3. p[i + 1] = q[l - h + i + 1]
        BY <2>1, <4>1
      <4>4. y[i] = q[l - h + i + 1]
        BY <2>3, <2>7, <4>1
      <4> QED BY <4>2, <4>3, <4>4
    <3> QED BY <3>1, <3>2
  <2>9. x = y
    BY <2>6, <2>7, <2>8
  <2> QED BY <2>4, <2>5, <2>9 DEF a, b, p
<1> HIDE DEF l
<1> QED BY <1>2, <1>3

\* how often a migration was recorded
Times(m) == {n \in DOMAIN recorded : recorded[n] = m}
Due(k) == (IF mig[k].at = "done" THEN 1 ELSE 0) + (IF mig[k].cancelled THEN 1 ELSE 0)

\* One record more.
LEMMA RecordsOne ==
  ASSUME MigShape, history = Newest(recorded), NEW m \in DOMAIN mig, AddToHistory(m)
  PROVE  /\ recorded' \in Seq(Nat) /\ history' = Newest(recorded')
         /\ \A n \in DOMAIN recorded' : recorded'[n] \in DOMAIN mig
         /\ Cardinality(Times(m)') = Cardinality(Times(m)) + 1
         /\ \A k : k # m => Times(k)' = Times(k)
<1>1. /\ recorded \in Seq(Nat) /\ recorded' = Append(recorded, m) /\ m \in Nat
      /\ history' = Newest(Append(history, m)) /\ Len(recorded) \in Nat
  BY DEF MigShape, AddToHistory
<1>2. /\ recorded' \in Seq(Nat) /\ Len(recorded) + 1 \notin DOMAIN recorded
      /\ DOMAIN recorded' = DOMAIN recorded \cup {Len(recorded) + 1}
      /\ recorded'[Len(recorded) + 1] = m /\ \A n \in DOMAIN recorded : recorded'[n] = recorded[n]
  BY <1>1
<1>3. history' = Newest(recorded')
  BY <1>1, NewestNext
<1>4. Times(m)' = Times(m) \cup {Len(recorded) + 1} /\ Len(recorded) + 1 \notin Times(m)
  BY <1>2 DEF Times
<1>5. \A k : k # m => Times(k)' = Times(k)
  BY <1>2 DEF Times
<1>6. IsFiniteSet(Times(m))
  <2>1. Times(m) \in SUBSET (1..Len(recorded))
    BY <1>1 DEF Times
  <2>2. PICK l \in Nat : l = Len(recorded)
    BY <1>1
  <2>3. IsFiniteSet(1..l)
    BY FS_Interval
  <2> QED BY <2>1, <2>2, <2>3, FS_Subset
<1>7. Cardinality(Times(m)') = Cardinality(Times(m)) + 1
  BY <1>4, <1>6, FS_AddElement
<1>8. \A n \in DOMAIN recorded' : recorded'[n] \in DOMAIN mig
  BY <1>2 DEF MigShape
<1> QED
  BY <1>2, <1>3, <1>5, <1>7, <1>8

LEMMA MigFinite ==
  ASSUME MigShape, NEW S, S \subseteq DOMAIN mig
  PROVE  IsFiniteSet(S) /\ Cardinality(S) \in Nat
<1>1. DOMAIN mig = 1..Len(mig) /\ Len(mig) \in Nat
  BY DEF MigShape
<1>2. PICK l \in Nat : l = Len(mig)
  BY <1>1
<1>3. IsFiniteSet(1..l)
  BY FS_Interval
<1>4. IsFiniteSet(S)
  BY <1>1, <1>2, <1>3, FS_Subset
<1> QED
  BY <1>4, FS_CardinalityType

\* One migration goes on: nothing is recorded.
LEMMA GoesOn ==
  ASSUME MigOK, NEW m \in DOMAIN mig, NEW state \in {"validating", "inProgress"} \cup {mig[m].state},
         NEW at \in Stages \ {"done"}, mig[m].at # "done", GoTo(m, state, at),
         UNCHANGED <<active, succeeded, failed, history, recorded>>
  PROVE  MigOK'
<1>1. /\ mig \in Seq(Migrations) /\ DOMAIN mig' = DOMAIN mig /\ Len(mig') = Len(mig)
      /\ mig' \in Seq(Migrations)
      /\ \A k \in DOMAIN mig : k # m => mig'[k] = mig[k]
      /\ mig'[m].at = at /\ mig'[m].state = state /\ mig'[m].cancelled = mig[m].cancelled
  <2> DEFINE r == [mig[m] EXCEPT !.state = state, !.at = at]
  <2>1. mig \in Seq(Migrations) /\ mig[m] \in Migrations
    BY DEF MigOK, MigShape
  <2>2. mig' = [mig EXCEPT ![m] = r]
    BY DEF GoTo
  <2>3. r \in Migrations /\ r.at = at /\ r.state = state /\ r.cancelled = mig[m].cancelled
    BY <2>1 DEF Migrations
  <2> HIDE DEF r
  <2> QED
    BY <2>1, <2>2, <2>3, Updated
<1>2. MigShape'
  BY <1>1 DEF MigOK, MigShape
<1>3. ActiveOK'
  <2>1. active' = active /\ (active # 0 => active \in DOMAIN mig)
    BY DEF MigOK, MigShape
  <2>2. CASE active = m
    BY <1>1, <2>1, <2>2 DEF MigOK, ActiveOK
  <2>3. CASE active # m
    BY <1>1, <2>1, <2>3 DEF MigOK, ActiveOK
  <2> QED BY <2>2, <2>3
<1>4. \A st : Over(st)' = Over(st)
  BY <1>1 DEF Over, MigrationState
<1>5. Cancelled' = Cancelled
  BY <1>1 DEF Cancelled
<1>6. \A k \in DOMAIN mig : Due(k)' = Due(k)
  BY <1>1 DEF Due
<1>7. MigrationsCounted'
  BY <1>1, <1>4, <1>5, <1>6 DEF MigOK, MigrationsCounted, Due
<1> QED
  BY <1>2, <1>3, <1>7 DEF MigOK

\* One migration ends: it is counted and recorded.
LEMMA Ends ==
  ASSUME MigOK, NEW m \in DOMAIN mig, NEW state \in {"completed", "failed"}, mig[m].at # "done",
         Finish(m, state)
  PROVE  MigOK'
<1>1. /\ mig \in Seq(Migrations) /\ DOMAIN mig' = DOMAIN mig /\ Len(mig') = Len(mig)
      /\ mig' \in Seq(Migrations)
      /\ \A k \in DOMAIN mig : k # m => mig'[k] = mig[k]
      /\ mig'[m].at = "done" /\ mig'[m].state = state /\ mig'[m].cancelled = mig[m].cancelled
  <2> DEFINE r == [mig[m] EXCEPT !.state = state, !.at = "done"]
  <2>1. mig \in Seq(Migrations) /\ mig[m] \in Migrations
    BY DEF MigOK, MigShape
  <2>2. mig' = [mig EXCEPT ![m] = r]
    BY DEF Finish, GoTo
  <2>3. r \in Migrations /\ r.at = "done" /\ r.state = state /\ r.cancelled = mig[m].cancelled
    BY <2>1 DEF Migrations, Stages
  <2> HIDE DEF r
  <2> QED
    BY <2>1, <2>2, <2>3, Updated
<1>2. /\ succeeded' = IF state = "completed" THEN succeeded + 1 ELSE succeeded
      /\ failed' = IF state = "failed" THEN failed + 1 ELSE failed
      /\ active' = IF active = m THEN 0 ELSE active
      /\ succeeded \in Nat /\ failed \in Nat /\ active \in 0..Len(mig)
  BY DEF Finish, MigOK, MigShape
<1>3. /\ recorded' \in Seq(Nat) /\ history' = Newest(recorded')
      /\ \A n \in DOMAIN recorded' : recorded'[n] \in DOMAIN mig
      /\ Cardinality(Times(m)') = Cardinality(Times(m)) + 1
      /\ \A k : k # m => Times(k)' = Times(k)
  BY RecordsOne DEF MigOK, MigrationsCounted, Finish
<1>4. MigShape'
  BY <1>1, <1>2, <1>3 DEF MigShape
<1>5. ActiveOK'
  BY <1>1, <1>2 DEF MigOK, ActiveOK
<1>6. Over(state)' = Over(state) \cup {m} /\ m \notin Over(state)
      /\ \A st : st # state => Over(st)' = Over(st)
  BY <1>1 DEF Over, MigrationState
<1>7. Cancelled' = Cancelled
  BY <1>1 DEF Cancelled
<1>8. IsFiniteSet(Over(state)) /\ Cardinality(Over(state)) \in Nat /\ Cardinality(Cancelled) \in Nat
      /\ Cardinality(Over("failed")) \in Nat
  <2>1. \A st : Over(st) \subseteq DOMAIN mig /\ Cancelled \subseteq DOMAIN mig
    BY DEF Over, Cancelled
  <2> QED BY <2>1, MigFinite DEF MigOK
<1>9. Cardinality(Over(state)') = Cardinality(Over(state)) + 1
  BY <1>6, <1>8, FS_AddElement
<1>10. succeeded = Cardinality(Over("completed")) /\ failed = Cardinality(Over("failed")) + Cardinality(Cancelled)
  BY DEF MigOK, MigrationsCounted
<1>11. /\ succeeded' = Cardinality(Over("completed")')
       /\ failed' = Cardinality(Over("failed")') + Cardinality(Cancelled')
  <2>0. "completed" # "failed"
    OBVIOUS
  <2>1. CASE state = "completed"
    <3>1. Over("failed")' = Over("failed") /\ Cardinality(Over("completed")') = Cardinality(Over("completed")) + 1
      BY <1>6, <1>9, <2>0, <2>1
    <3> QED BY <1>2, <1>7, <1>10, <2>1, <3>1
  <2>2. CASE state = "failed"
    <3>1. Over("completed")' = Over("completed") /\ Cardinality(Over("failed")') = Cardinality(Over("failed")) + 1
      BY <1>6, <1>9, <2>0, <2>2
    <3>2. PICK x \in Nat, y \in Nat, z \in Nat : x = Cardinality(Over("failed")) /\ y = Cardinality(Cancelled) /\ z = failed
      BY <1>2, <1>8
    <3>3. failed' = z + 1 /\ z = x + y /\ Cardinality(Over("failed")') = x + 1 /\ Cardinality(Cancelled') = y
      BY <1>2, <1>7, <1>10, <2>2, <3>1, <3>2
    <3>4. z + 1 = (x + 1) + y
      BY <3>3
    <3>5. succeeded' = Cardinality(Over("completed")')
      BY <1>2, <1>10, <2>0, <2>2, <3>1
    <3> QED BY <3>3, <3>4, <3>5
  <2> QED BY <2>1, <2>2
<1>12. ASSUME NEW k \in DOMAIN mig PROVE Cardinality(Times(k)') = Due(k)'
  <2>1. Cardinality(Times(k)) = Due(k)
    BY DEF MigOK, MigrationsCounted, Times, Due
  <2>2. CASE k = m
    <3>1. Due(k)' = Due(k) + 1
      BY <1>1, <2>2 DEF Due
    <3> QED BY <1>3, <2>1, <2>2, <3>1
  <2>3. CASE k # m
    <3>1. Due(k)' = Due(k)
      BY <1>1, <2>3 DEF Due
    <3> QED BY <1>3, <2>1, <2>3, <3>1
  <2> QED BY <2>2, <2>3
<1>13. MigrationsCounted'
  BY <1>1, <1>3, <1>11, <1>12 DEF MigrationsCounted, Times, Due
<1> QED
  BY <1>4, <1>5, <1>13 DEF MigOK

LEMMA MigrationKeeps ==
  ASSUME MigOK, NEW m \in DOMAIN mig, MigrationStep(m)
  PROVE  MigOK'
<1>1. CASE BeginValidation(m)
  BY <1>1, GoesOn DEF BeginValidation, Stages
<1>2. CASE RunValidationSteps(m)
  BY <1>2, GoesOn, Ends DEF RunValidationSteps, Stages
<1>3. CASE Execute(m)
  <2>1. CASE GoTo(m, MigrationState(m), "half") /\ UNCHANGED <<active, succeeded, failed, history, recorded>>
    BY <1>3, <2>1, GoesOn DEF Execute, Stages, MigrationState
  <2> QED
    BY <1>3, <2>1, Ends DEF Execute
<1> QED
  BY <1>1, <1>2, <1>3 DEF MigrationStep

LEMMA StartKeeps ==
  ASSUME MigOK, NEW v \in Numbers, NEW w \in Numbers, NEW s \in Strategies, StartMigration(v, w, s)
  PROVE  MigOK'
<1> DEFINE new == [from |-> v, to |-> w, strategy |-> s,
                   state |-> "pending", at |-> "start", cancelled |-> FALSE]
<1>1. /\ mig \in Seq(Migrations) /\ new \in Migrations /\ mig' = Append(mig, new) /\ active' = Len(mig) + 1
      /\ UNCHANGED <<succeeded, failed, history, recorded>> /\ Len(mig) \in Nat
  BY VersionsAssumption DEF MigOK, MigShape, Migrations, StartMigration, Stages, Numbers
<1>2. /\ mig' \in Seq(Migrations) /\ Len(mig') = Len(mig) + 1
      /\ DOMAIN mig' = DOMAIN mig \cup {Len(mig) + 1} /\ Len(mig) + 1 \notin DOMAIN mig
      /\ mig'[Len(mig) + 1] = new /\ \A k \in DOMAIN mig : mig'[k] = mig[k]
  BY <1>1
<1>3. new.at = "start" /\ new.cancelled = FALSE
  OBVIOUS
<1> HIDE DEF new
<1>4. MigShape' /\ ActiveOK'
  BY <1>1, <1>2, <1>3 DEF MigOK, MigShape, ActiveOK
<1>5. (\A st : Over(st)' = Over(st)) /\ Cancelled' = Cancelled
  BY <1>2, <1>3 DEF Over, MigrationState, Cancelled
<1>6. ASSUME NEW k \in DOMAIN mig' PROVE Cardinality(Times(k)') = Due(k)'
  <2>1. Times(k)' = Times(k)
    BY <1>1 DEF Times
  <2>2. CASE k \in DOMAIN mig
    BY <1>2, <2>1, <2>2 DEF MigOK, MigrationsCounted, Times, Due
  <2>3. CASE k = Len(mig) + 1
    <3>1. Times(k) = {}
      BY <1>2, <2>3 DEF MigOK, MigShape, Times
    <3>2. Due(k)' = 0
      BY <1>2, <1>3, <2>3 DEF Due
    <3> QED BY <2>1, <3>1, <3>2, FS_EmptySet
  <2> QED BY <1>2, <2>2, <2>3
<1>7. MigrationsCounted'
  BY <1>1, <1>5, <1>6 DEF MigOK, MigrationsCounted, Times, Due
<1> QED
  BY <1>4, <1>7 DEF MigOK

LEMMA CancelKeeps ==
  ASSUME MigOK, CancelMigration
  PROVE  MigOK'
<1>0. active \in DOMAIN mig
  BY DEF MigOK, MigShape, CancelMigration
<1>a. PICK a \in DOMAIN mig : a = active
  BY <1>0
<1>1. mig \in Seq(Migrations) /\ mig[a].at # "done" /\ ~mig[a].cancelled
  BY <1>a DEF MigOK, MigShape, ActiveOK, CancelMigration
<1>2. /\ DOMAIN mig' = DOMAIN mig /\ Len(mig') = Len(mig) /\ mig' \in Seq(Migrations)
      /\ \A k \in DOMAIN mig : k # a => mig'[k] = mig[k]
      /\ mig'[a].cancelled = TRUE /\ mig'[a].at = mig[a].at
  <2> DEFINE r == [mig[a] EXCEPT !.state = "failed", !.cancelled = TRUE]
  <2>1. mig[a] \in Migrations
    BY <1>1
  <2>2. mig' = [mig EXCEPT ![a] = r]
    BY <1>a DEF CancelMigration
  <2>3. r \in Migrations /\ r.cancelled = TRUE /\ r.at = mig[a].at
    BY <2>1 DEF Migrations
  <2> HIDE DEF r
  <2> QED
    BY <1>1, <2>2, <2>3, Updated
<1>3. failed' = failed + 1 /\ succeeded' = succeeded /\ active' = 0 /\ failed \in Nat /\ succeeded \in Nat
  BY DEF CancelMigration, MigOK, MigShape
<1>4. /\ recorded' \in Seq(Nat) /\ history' = Newest(recorded')
      /\ \A n \in DOMAIN recorded' : recorded'[n] \in DOMAIN mig
      /\ Cardinality(Times(a)') = Cardinality(Times(a)) + 1
      /\ \A k : k # a => Times(k)' = Times(k)
  BY <1>a, RecordsOne DEF MigOK, MigrationsCounted, CancelMigration
<1>5. MigShape' /\ ActiveOK'
  BY <1>2, <1>3, <1>4 DEF MigShape, ActiveOK
<1>6. \A st : Over(st)' = Over(st)
  BY <1>1, <1>2 DEF Over, MigrationState
<1>7. Cancelled' = Cancelled \cup {a} /\ a \notin Cancelled
  BY <1>1, <1>2 DEF Cancelled
<1>8. IsFiniteSet(Cancelled) /\ Cardinality(Cancelled) \in Nat /\ Cardinality(Over("failed")) \in Nat
  <2>1. \A st : Over(st) \subseteq DOMAIN mig /\ Cancelled \subseteq DOMAIN mig
    BY DEF Over, Cancelled
  <2> QED BY <2>1, MigFinite DEF MigOK
<1>9. Cardinality(Cancelled') = Cardinality(Cancelled) + 1
  BY <1>7, <1>8, FS_AddElement
<1>10. /\ succeeded' = Cardinality(Over("completed")')
       /\ failed' = Cardinality(Over("failed")') + Cardinality(Cancelled')
  BY <1>3, <1>6, <1>8, <1>9 DEF MigOK, MigrationsCounted
<1>12. ASSUME NEW k \in DOMAIN mig PROVE Cardinality(Times(k)') = Due(k)'
  <2>1. Cardinality(Times(k)) = Due(k)
    BY DEF MigOK, MigrationsCounted, Times, Due
  <2>2. CASE k = a
    <3>1. Due(k)' = Due(k) + 1
      BY <1>1, <1>2, <2>2 DEF Due
    <3> QED BY <1>4, <2>1, <2>2, <3>1
  <2>3. CASE k # a
    <3>1. Due(k)' = Due(k)
      BY <1>2, <2>3 DEF Due
    <3> QED BY <1>4, <2>1, <2>3, <3>1
  <2> QED BY <2>2, <2>3
<1>13. MigrationsCounted'
  BY <1>2, <1>4, <1>10, <1>12 DEF MigrationsCounted, Times, Due
<1> QED
  BY <1>5, <1>13 DEF MigOK

LEMMA VerUnchanged ==
  ASSUME MigOK, UNCHANGED migVars
  PROVE  MigOK'
BY DEF MigOK, MigShape, ActiveOK, MigrationsCounted, Over, Cancelled, MigrationState, migVars

LEMMA VerStep == VerInv /\ [VerNext]_verVars => VerInv'
<1> SUFFICES ASSUME VerInv, [VerNext]_verVars PROVE VerInv'
  OBVIOUS
<1>0. StoredOK /\ MigOK
  BY DEF VerInv, MigOK
<1>q. StoredOK' /\ MigOK' => VerInv'
  BY DEF VerInv, MigOK
<1>1. CASE \E c \in Contents : AddSet(c) \/ VersionedAddSPS(c)
  BY <1>0, <1>1, <1>q, WriteKeeps, VerUnchanged DEF AddSet, VersionedAddSPS
<1>2. CASE CreateVersionFromSnapshot
  BY <1>0, <1>2, <1>q, StoreKeeps, VerUnchanged DEF CreateVersionFromSnapshot
<1>3. CASE CopySets
  BY <1>0, <1>3, <1>q, StoredUnchanged, VerUnchanged DEF CopySets
<1>4. CASE \E n \in DOMAIN snapshots : CreateVersion(n)
  BY <1>0, <1>4, <1>q, StoreKeeps, VerUnchanged DEF CreateVersion
<1>5. CASE \E v \in Numbers : Rollback(v)
  <2>1. PICK v \in Numbers : Rollback(v)
    BY <1>5
  <2>2. UNCHANGED migVars
    BY <2>1 DEF Rollback
  <2> QED BY <1>0, <1>q, <2>1, <2>2, RollbackKeeps, VerUnchanged
<1>6. CASE CreateBackupVersion
  <2>1. UNCHANGED migVars
    BY <1>6 DEF CreateBackupVersion
  <2> QED BY <1>0, <1>6, <1>q, <2>1, BackupKeeps, VerUnchanged
<1>7. CASE Restore
  <2>1. UNCHANGED migVars
    BY <1>7 DEF Restore
  <2> QED BY <1>0, <1>7, <1>q, <2>1, RestoreKeeps, VerUnchanged
<1>8. CASE \E v, w \in Numbers, s \in Strategies : StartMigration(v, w, s)
  BY <1>0, <1>8, <1>q, StartKeeps, StoredUnchanged DEF StartMigration, setVars
<1>9. CASE \E m \in DOMAIN mig : MigrationStep(m)
  BY <1>0, <1>9, <1>q, MigrationKeeps, StoredUnchanged DEF MigrationStep, setVars
<1>10. CASE CancelMigration
  BY <1>0, <1>10, <1>q, CancelKeeps, StoredUnchanged DEF CancelMigration, setVars
<1>11. CASE UNCHANGED verVars
  BY <1>0, <1>11, <1>q, VerUnchanged, StoredUnchanged DEF verVars, setVars
<1> QED
  BY <1>1, <1>2, <1>3, <1>4, <1>5, <1>6, <1>7, <1>8, <1>9, <1>10, <1>11 DEF VerNext

LEMMA VerInitially == VerInit => VerInv
<1> SUFFICES ASSUME VerInit PROVE VerInv
  OBVIOUS
<1>1. DOMAIN versions = {} /\ current = 0 /\ backups = 0 /\ rolling = <<>> /\ replaced = <<>>
  BY DEF VerInit
<1>2. VersionsKept
  <2>1. 1 \in 1..(current + 1) /\ DOMAIN versions = 1..current /\ current + 1 - 1 <= KeptVersions + backups
    BY <1>1, VersionsAssumption
  <2> QED BY <1>1, <2>1 DEF VersionsKept
<1>3. StoredOK
  BY <1>1, <1>2 DEF StoredOK, BackupExact
<1>4. mig = <<>> /\ active = 0 /\ succeeded = 0 /\ failed = 0 /\ history = <<>> /\ recorded = <<>>
  BY DEF VerInit
<1>5. MigShape /\ ActiveOK
  BY <1>4 DEF MigShape, ActiveOK
<1>6. (\A st : Over(st) = {}) /\ Cancelled = {} /\ Cardinality({}) = 0
  BY <1>4, FS_EmptySet DEF Over, Cancelled
<1>7. Newest(<<>>) = <<>>
  <2>1. Len(<<>>) = 0 /\ ~(0 > MaxHistory)
    BY VersionsAssumption
  <2> QED BY <2>1 DEF Newest
<1>8. MigrationsCounted
  <2>1. succeeded = Cardinality(Over("completed")) /\ failed = Cardinality(Over("failed")) + Cardinality(Cancelled)
    <3>1. Over("completed") = {} /\ Over("failed") = {}
      BY <1>6
    <3>2. Cardinality(Over("completed")) = 0 /\ Cardinality(Over("failed")) = 0 /\ Cardinality(Cancelled) = 0
      BY <1>6, <3>1, FS_EmptySet
    <3> QED BY <1>4, <3>2
  <2>2. DOMAIN mig = {}
    BY <1>4
  <2>3. history = Newest(recorded)
    BY <1>4, <1>7
  <2> QED BY <2>1, <2>2, <2>3 DEF MigrationsCounted
<1> QED
  BY <1>3, <1>5, <1>8 DEF VerInv

\* Versions, rollbacks and migrations stay exact for every content, every number
\* of versions and records kept and every interleaving of sets added, the sections
\* of CreateVersion and Rollback, migrations and cancels
\* (parameter_set_versioning.go, parameter_set_migration.go).
THEOREM VersionsStayExact == VerSpec => []VersionsExact
<1>1. VerInv => VersionsExact
  BY DEF VerInv, StoredOK, VersionsExact
<1> QED
  BY <1>1, VerInitially, VerStep, PTL DEF VerSpec

-----------------------------------------------------------------------------
(***************************************************************************)
(* The demultiplexer, for any packets on the wire.  What is assembled for  *)
(* a PID is shorter than what the validator has counted of the PES packet  *)
(* under way; no stream is known before a program map was parsed, and then *)
(* both are from that map; and the counter last seen is behind the packets *)
(* sent by those that were missed, modulo the counter space, which is why  *)
(* every gap shows as an error but one of a multiple of the space, or one  *)
(* less.                                                                   *)
(***************************************************************************)

PesState == [inProgress : BOOLEAN, got : Nat, want : Nat]
Loads == [n : Nat, whole : SUBSET ParamSets, opens : {Nothing} \cup ParamSets]

\* What is assembled is shorter than what the validator has counted.
Assembling(p) ==
  /\ pes[p].inProgress =>
       pes[p].got >= 1 /\ (pes[p].got > 1 => pes[p].got <= MaxPESSize)
  /\ pesBuffer[p] # <<>> =>
       /\ p \in pesStarted /\ pes[p].inProgress
       /\ Len(pesBuffer[p]) < pes[p].got /\ pes[p].got <= MaxPESSize

AssemblyInv ==
  /\ pesBuffer \in [Elementary -> Seq(Loads)]
  /\ pes \in [Elementary -> PesState]
  /\ \A p \in Elementary : Assembling(p)

\* No stream is known before a map was parsed; then both are from that map.
ProgramInv == (~pmtParsed => videoPID = NoStream /\ audioPID = NoStream) /\ OneProgram

\* The counter of a PID is that of the last packet received on it.
CounterInv ==
  /\ counter \in [Elementary -> Int] /\ sentOn \in [Elementary -> Nat]
  /\ missed \in [Elementary -> Nat]
  /\ contErrors \in Nat /\ gaps \in Nat /\ lossy \in BOOLEAN
  /\ \A p \in Elementary :
       /\ counter[p] # -1 => counter[p] = (sentOn[p] - 1 - missed[p]) % CounterSpace
       /\ missed[p] > 0 => lossy
  /\ LossNoticed

LEMMA TSInitially == TSInit => AssemblyInv /\ ProgramInv /\ CounterInv
<1> SUFFICES ASSUME TSInit PROVE AssemblyInv /\ ProgramInv /\ CounterInv
  OBVIOUS
<1>1. ProgramInv
  BY DEF TSInit, ProgramInv, OneProgram
<1>2. CounterInv
  <2>1. /\ counter \in [Elementary -> Int] /\ sentOn \in [Elementary -> Nat]
        /\ missed \in [Elementary -> Nat]
        /\ \A p \in Elementary : counter[p] = -1 /\ missed[p] = 0
    BY DEF TSInit
  <2>2. contErrors = 0 /\ gaps = 0 /\ lossy = FALSE
    BY DEF TSInit
  <2> QED
    <3>1. lossy \in BOOLEAN
      BY <2>2
    <3>2. LossNoticed /\ contErrors \in Nat /\ gaps \in Nat
      BY <2>2 DEF LossNoticed
    <3> QED
      BY <2>1, <3>1, <3>2 DEF CounterInv
<1>3. AssemblyInv
  <2>1. pes \in [Elementary -> PesState] /\ \A p \in Elementary : ~pes[p].inProgress
    BY DEF TSInit, PesState
  <2>2. pesBuffer \in [Elementary -> Seq(Loads)] /\ \A p \in Elementary : pesBuffer[p] = <<>>
    BY DEF TSInit
  <2> QED
    BY <2>1, <2>2 DEF AssemblyInv, Assembling
<1> QED
  BY <1>1, <1>2, <1>3

LEMMA ProgramStep == ProgramInv /\ [TSNext]_tsVars => ProgramInv'
<1> SUFFICES ASSUME ProgramInv, [TSNext]_tsVars PROVE ProgramInv'
  OBVIOUS
<1>1. ASSUME NEW s \in Sections, ParseSection(s) PROVE ProgramInv'
  BY <1>1 DEF ParseSection, ParsePMTWithExtractor, FirstOf, NoStream, ProgramInv, OneProgram
<1>2. ASSUME UNCHANGED <<pmtParsed, videoPID, audioPID>> PROVE ProgramInv'
  BY <1>2 DEF ProgramInv, OneProgram
<1>3. CASE ParsePAT
  BY <1>2, <1>3 DEF ParsePAT
<1>4. ASSUME NEW p, NEW st, NEW len, NEW w, NEW x, ReceiveTS(p, st, len, w, x) PROVE ProgramInv'
  BY <1>2, <1>4 DEF ReceiveTS, tables
<1>5. ASSUME NEW p, NEW st, NEW x, LoseTS(p, st, x) \/ AdaptationOnly(p) PROVE ProgramInv'
  BY <1>2, <1>5 DEF LoseTS, AdaptationOnly, tables
<1>6. ASSUME NEW S, CheckPESTimeouts(S) PROVE ProgramInv'
  BY <1>2, <1>6 DEF CheckPESTimeouts, tables
<1>7. CASE UNCHANGED tsVars
  BY <1>2, <1>7 DEF tsVars, tables
<1> QED
  BY <1>1, <1>3, <1>4, <1>5, <1>6, <1>7 DEF TSNext

LEMMA AssemblyStep == AssemblyInv /\ CounterInv /\ [TSNext]_tsVars => AssemblyInv'
<1> SUFFICES ASSUME AssemblyInv, CounterInv, [TSNext]_tsVars PROVE AssemblyInv'
  OBVIOUS
<1>0. MaxPESSize \in Nat /\ PESLengths \subseteq Nat
  BY ParserAssumption
<1>1. ASSUME UNCHANGED assembly PROVE AssemblyInv'
  BY <1>1 DEF AssemblyInv, Assembling, assembly
<1>2. CASE ParsePAT \/ \E s \in Sections : ParseSection(s)
  BY <1>1, <1>2 DEF ParsePAT, ParseSection
<1>3. ASSUME NEW p \in Elementary, NEW len \in PESLengths, NEW x \in {Nothing} \cup ParamSets,
             NEW w \in SUBSET (ParamSets \ {x}), ReceiveTS(p, TRUE, len, w, x)
      PROVE  AssemblyInv'
  <2>1. /\ pes' = IF pes[p].inProgress \/ len > MaxPESSize THEN pes
                  ELSE [pes EXCEPT ![p] = [inProgress |-> TRUE, got |-> 1, want |-> len]]
        /\ pesStarted' = pesStarted \cup {p} /\ pesBuffer' = pesBuffer
    BY <1>3 DEF ReceiveTS, PayloadStart, ValidatePESStart
  <2>2. CASE pes' = pes
    BY <2>1, <2>2 DEF AssemblyInv, Assembling
  <2>3. CASE /\ ~pes[p].inProgress
             /\ pes' = [pes EXCEPT ![p] = [inProgress |-> TRUE, got |-> 1, want |-> len]]
    <3>1. [inProgress |-> TRUE, got |-> 1, want |-> len] \in PesState
      BY <1>0 DEF PesState
    <3>2. pesBuffer[p] = <<>> /\ pes'[p].got = 1
      BY <2>3 DEF AssemblyInv, Assembling
    <3>3. pes' \in [Elementary -> PesState] /\ \A q \in Elementary \ {p} : pes'[q] = pes[q]
      BY <2>3, <3>1 DEF AssemblyInv
    <3>4. \A q \in Elementary : Assembling(q)'
      BY <2>1, <3>2, <3>3 DEF AssemblyInv, Assembling
    <3> QED
      BY <2>1, <3>3, <3>4 DEF AssemblyInv
  <2> QED
    BY <2>1, <2>2, <2>3
<1>4. ASSUME NEW p \in Elementary, NEW x \in {Nothing} \cup ParamSets,
             NEW w \in SUBSET (ParamSets \ {x}), ReceiveTS(p, FALSE, 0, w, x)
      PROVE  AssemblyInv'
  <2> DEFINE load == [n |-> sentOn[p], whole |-> w, opens |-> x]
             v == ValidatePESContinuation(p)
             buf == Append(pesBuffer[p], load)
  <2>1. AssemblePESPacket(p, load)
    BY <1>4 DEF ReceiveTS
  <2>2. load \in Loads
    BY DEF CounterInv, Loads
  <2>3. CASE UNCHANGED assembly
    BY <1>1, <2>3
  <2>4. CASE /\ pes' = [pes EXCEPT ![p] = v.state]
             /\ IF v.ok /\ v.state.inProgress
                THEN /\ pesBuffer' = [pesBuffer EXCEPT ![p] = buf]
                     /\ pesStarted' = pesStarted
                ELSE /\ pesBuffer' = [pesBuffer EXCEPT ![p] = <<>>]
                     /\ pesStarted' = pesStarted \ {p}
             /\ p \in pesStarted
    <3>1. pes[p] \in PesState /\ pes[p].got \in Nat /\ pes[p].want \in Nat /\ pes[p].inProgress \in BOOLEAN
      BY DEF AssemblyInv, PesState
    <3>2. /\ v.state \in PesState
          /\ v.state.inProgress =>
               pes[p].inProgress /\ v.state.got = pes[p].got + 1 /\ v.state.got <= MaxPESSize
      <4>1. CASE ~pes[p].inProgress
        BY <3>1, <4>1 DEF ValidatePESContinuation
      <4>2. CASE pes[p].inProgress
        <5> DEFINE over == pes[p].got + 1 > MaxPESSize
                   full == pes[p].want > 0 /\ pes[p].got + 1 >= pes[p].want
        <5>1. v.state = [pes[p] EXCEPT !.got = pes[p].got + 1, !.inProgress = ~over /\ ~full]
          BY <4>2 DEF ValidatePESContinuation
        <5>2. (~over /\ ~full) \in BOOLEAN /\ pes[p].got + 1 \in Nat
          BY <3>1
        <5>3. ~over => pes[p].got + 1 <= MaxPESSize
          BY <3>1, <1>0
        <5> HIDE DEF over, full, v
        <5> QED
          BY <3>1, <4>2, <5>1, <5>2, <5>3 DEF PesState
      <4> QED BY <4>1, <4>2
    <3> HIDE DEF v, load
    <3>3. pesBuffer[p] \in Seq(Loads) /\ buf \in Seq(Loads) /\ Len(buf) = Len(pesBuffer[p]) + 1
          /\ Len(pesBuffer[p]) \in Nat
      BY <2>2 DEF AssemblyInv
    <3>4. v.state.inProgress => Len(buf) < v.state.got /\ v.state.got >= 1
      <4>1. CASE pesBuffer[p] = <<>>
        BY <4>1, <3>1, <3>2, <3>3 DEF AssemblyInv, Assembling
      <4>2. CASE pesBuffer[p] # <<>>
        BY <4>2, <3>1, <3>2, <3>3 DEF AssemblyInv, Assembling
      <4> QED BY <4>1, <4>2
    <3> HIDE DEF buf
    <3>5. pes' \in [Elementary -> PesState] /\ pes'[p] = v.state /\ \A q \in Elementary \ {p} : pes'[q] = pes[q]
      BY <2>4, <3>2 DEF AssemblyInv
    <3>6. CASE v.ok /\ v.state.inProgress
      <4>1. pesBuffer' \in [Elementary -> Seq(Loads)] /\ pesBuffer'[p] = buf /\ pesStarted' = pesStarted
            /\ \A q \in Elementary \ {p} : pesBuffer'[q] = pesBuffer[q]
        BY <2>4, <3>3, <3>6 DEF AssemblyInv
      <4>2. \A q \in Elementary : Assembling(q)'
        BY <2>4, <3>2, <3>4, <3>5, <3>6, <4>1 DEF AssemblyInv, Assembling
      <4> QED
        BY <3>5, <4>1, <4>2 DEF AssemblyInv
    <3>7. CASE ~(v.ok /\ v.state.inProgress)
      <4>1. pesBuffer' \in [Elementary -> Seq(Loads)] /\ pesBuffer'[p] = <<>> /\ pesStarted' = pesStarted \ {p}
            /\ \A q \in Elementary \ {p} : pesBuffer'[q] = pesBuffer[q]
        <5>1. <<>> \in Seq(Loads)
          OBVIOUS
        <5>2. pesBuffer' = [pesBuffer EXCEPT ![p] = <<>>] /\ pesStarted' = pesStarted \ {p}
          BY <2>4, <3>7, Zenon
        <5> QED
          BY <5>1, <5>2 DEF AssemblyInv
      <4>2. \A q \in Elementary : Assembling(q)'
        BY <3>2, <3>4, <3>5, <4>1 DEF AssemblyInv, Assembling
      <4> QED
        BY <3>5, <4>1, <4>2 DEF AssemblyInv
    <3> QED BY <3>6, <3>7
  <2> QED
    BY <2>1, <2>3, <2>4 DEF AssemblePESPacket
<1>5. ASSUME NEW p \in Elementary, NEW x, NEW st, LoseTS(p, st, x) \/ AdaptationOnly(p)
      PROVE  AssemblyInv'
  BY <1>1, <1>5 DEF LoseTS, AdaptationOnly
<1>6. ASSUME NEW S \in SUBSET Elementary, CheckPESTimeouts(S) PROVE AssemblyInv'
  <2>1. /\ pes' = [p \in Elementary |->
                     IF p \in S THEN [pes[p] EXCEPT !.inProgress = FALSE] ELSE pes[p]]
        /\ pesBuffer' = [p \in Elementary |-> IF p \in S THEN <<>> ELSE pesBuffer[p]]
        /\ pesStarted' = pesStarted \ S
    BY <1>6 DEF CheckPESTimeouts
  <2>2. \A p \in Elementary : pes[p] \in PesState /\ [pes[p] EXCEPT !.inProgress = FALSE] \in PesState
                             /\ [pes[p] EXCEPT !.inProgress = FALSE].inProgress = FALSE
    BY DEF AssemblyInv, PesState
  <2>3. pes' \in [Elementary -> PesState]
    BY <2>1, <2>2
  <2>4. pesBuffer' \in [Elementary -> Seq(Loads)]
    BY <2>1 DEF AssemblyInv
  <2>5. \A p \in Elementary :
          IF p \in S THEN ~pes'[p].inProgress /\ pesBuffer'[p] = <<>>
          ELSE pes'[p] = pes[p] /\ pesBuffer'[p] = pesBuffer[p] /\ (p \in pesStarted' <=> p \in pesStarted)
    BY <2>1, <2>2
  <2>6. \A p \in Elementary : Assembling(p)'
    BY <2>5 DEF AssemblyInv, Assembling
  <2> QED
    BY <2>3, <2>4, <2>6 DEF AssemblyInv
<1>7. CASE UNCHANGED tsVars
  BY <1>1, <1>7 DEF tsVars
<1> QED
  BY <1>2, <1>3, <1>4, <1>5, <1>6, <1>7 DEF TSNext

\* The remainders of two numbers are equal when their difference leaves none.
LEMMA CounterLags ==
  ASSUME NEW n \in Nat \ {0, 1}, NEW s \in Int, NEW m \in Nat
  PROVE  /\ s % n = (((s - 1 - m) % n) + 1) % n => m % n = 0
         /\ s % n = (s - 1 - m) % n => m % n = n - 1
         /\ m = 0 => s % n = (((s - 1 - m) % n) + 1) % n
<1> DEFINE l == (s - 1 - m) % n
<1>1. n \in Nat \ {0} /\ s \in Int /\ m \in Int /\ s - 1 - m \in Int /\ 1 \in Int /\ s - m \in Int
  OBVIOUS
<1>2. (l + 1) % n = ((s - 1 - m) + 1) % n
  BY <1>1, ModAdd
<1>3. (s - 1 - m) + 1 = s - m
  OBVIOUS
<1>4. ASSUME NEW c \in Int, s % n = (s - c) % n PROVE c % n = 0
  <2>1. -(s - c) \in Int /\ s - c \in Int /\ (s - c) + (-(s - c)) = 0 /\ s + (-(s - c)) = c
    OBVIOUS
  <2>2. ((s % n) + (-(s - c))) % n = (s + (-(s - c))) % n
    BY <1>1, <2>1, ModAdd
  <2>3. (((s - c) % n) + (-(s - c))) % n = ((s - c) + (-(s - c))) % n
    BY <1>1, <2>1, ModAdd
  <2>4. 0 % n = 0
    <3>1. (n * 0 + 0) % n = 0
      BY <1>1, ModOf
    <3>2. n * 0 + 0 = 0
      OBVIOUS
    <3> QED BY <3>1, <3>2
  <2> QED
    BY <1>4, <2>1, <2>2, <2>3, <2>4
<1>5. s % n = (l + 1) % n => m % n = 0
  BY <1>1, <1>2, <1>3, <1>4
<1>6. m = 0 => s % n = (l + 1) % n
  BY <1>1, <1>2, <1>3
<1>7. s % n = l => m % n = n - 1
  <2> SUFFICES ASSUME s % n = l PROVE m % n = n - 1
    OBVIOUS
  <2>1. s - 1 - m = s - (m + 1) /\ m + 1 \in Int
    OBVIOUS
  <2>2. (m + 1) % n = 0
    BY <1>4, <2>1
  <2>3. (m + 1) % n \in {(m % n) + 1, (m % n) + 1 - n}
    <3>1. 1 \in 0..n
      OBVIOUS
    <3> QED BY <1>1, <3>1, ModNear
  <2>4. m % n \in Nat
    BY <1>1, ModRange
  <2> QED
    BY <2>2, <2>3, <2>4
<1> QED
  BY <1>5, <1>6, <1>7

LEMMA CounterStep == CounterInv /\ [TSNext]_tsVars => CounterInv'
<1> SUFFICES ASSUME CounterInv, [TSNext]_tsVars PROVE CounterInv'
  OBVIOUS
<1>0. CounterSpace \in Nat \ {0, 1}
  BY ParserAssumption
<1>1. ASSUME UNCHANGED wire PROVE CounterInv'
  BY <1>1 DEF CounterInv, LossNoticed, wire
<1>2. CASE ParsePAT \/ (\E s \in Sections : ParseSection(s)) \/ (\E S \in SUBSET Elementary : CheckPESTimeouts(S))
  BY <1>1, <1>2 DEF ParsePAT, ParseSection, CheckPESTimeouts
<1>3. ASSUME NEW p \in Elementary, NEW st, NEW len, NEW w, NEW x, ReceiveTS(p, st, len, w, x)
      PROVE  CounterInv'
  <2> DEFINE c == sentOn[p] % CounterSpace
             good == counter[p] = -1 \/ c = (counter[p] + 1) % CounterSpace \/ c = counter[p]
             g == Gap(p)
  <2>1. /\ contErrors' = IF good THEN contErrors ELSE contErrors + 1
        /\ counter' = [counter EXCEPT ![p] = c]
        /\ sentOn' = [sentOn EXCEPT ![p] = @ + 1]
        /\ gaps' = gaps + g /\ missed' = [missed EXCEPT ![p] = 0] /\ lossy' = lossy
    BY <1>3 DEF ReceiveTS, ValidateContinuity, SendTS
  <2>2. sentOn[p] \in Nat /\ missed[p] \in Nat /\ counter[p] \in Int /\ g \in {0, 1} /\ c \in Int
        /\ (counter[p] # -1 => counter[p] = (sentOn[p] - 1 - missed[p]) % CounterSpace)
        /\ (missed[p] > 0 => lossy) /\ gaps \in Nat /\ contErrors \in Nat
        /\ gaps <= contErrors /\ (contErrors > 0 => lossy)
    BY <1>0 DEF CounterInv, Gap, LossNoticed
  <2>3. g = 1 => ~good
    <3>1. g = 1 => counter[p] # -1 /\ missed[p] % CounterSpace \notin {0, CounterSpace - 1}
      BY DEF Gap
    <3>2. /\ c = (((sentOn[p] - 1 - missed[p]) % CounterSpace) + 1) % CounterSpace
               => missed[p] % CounterSpace = 0
          /\ c = (sentOn[p] - 1 - missed[p]) % CounterSpace
               => missed[p] % CounterSpace = CounterSpace - 1
      <4>1. sentOn[p] \in Int /\ missed[p] \in Nat
        BY <2>2
      <4> QED BY <1>0, <4>1, CounterLags
    <3> HIDE DEF g, c
    <3> QED
      BY <2>2, <3>1, <3>2, Zenon
  <2>4. ~good => missed[p] # 0
    <3>1. missed[p] = 0 => c = (((sentOn[p] - 1 - missed[p]) % CounterSpace) + 1) % CounterSpace
      <4>1. sentOn[p] \in Int /\ missed[p] \in Nat
        BY <2>2
      <4> QED BY <1>0, <4>1, CounterLags
    <3> HIDE DEF c
    <3> QED BY <2>2, <3>1, Zenon
  <2> HIDE DEF good, g
  <2>5. contErrors' \in Nat /\ gaps' \in Nat /\ gaps' <= contErrors' /\ (contErrors' > 0 => lossy')
    BY <2>1, <2>2, <2>3, <2>4
  <2>6. /\ counter' \in [Elementary -> Int] /\ sentOn' \in [Elementary -> Nat]
        /\ missed' \in [Elementary -> Nat] /\ lossy' \in BOOLEAN
        /\ counter'[p] = c /\ sentOn'[p] = sentOn[p] + 1 /\ missed'[p] = 0
        /\ \A q \in Elementary \ {p} : counter'[q] = counter[q] /\ sentOn'[q] = sentOn[q] /\ missed'[q] = missed[q]
    BY <2>1, <2>2 DEF CounterInv
  <2>7. counter'[p] = (sentOn'[p] - 1 - missed'[p]) % CounterSpace
    <3>1. (sentOn[p] + 1) - 1 - 0 = sentOn[p]
      BY <2>2
    <3> QED BY <2>6, <3>1
  <2>8. ASSUME NEW q \in Elementary
        PROVE  /\ counter'[q] # -1 => counter'[q] = (sentOn'[q] - 1 - missed'[q]) % CounterSpace
               /\ missed'[q] > 0 => lossy'
    <3>1. CASE q = p
      BY <2>6, <2>7, <3>1
    <3>2. CASE q # p
      BY <2>6, <2>1, <3>2 DEF CounterInv
    <3> QED BY <3>1, <3>2
  <2> QED
    BY <2>5, <2>6, <2>8 DEF CounterInv, LossNoticed
<1>4. ASSUME NEW p \in Elementary, NEW st, NEW x, LoseTS(p, st, x) PROVE CounterInv'
  <2>1. /\ sentOn' = [sentOn EXCEPT ![p] = @ + 1] /\ missed' = [missed EXCEPT ![p] = @ + 1]
        /\ lossy' = TRUE /\ UNCHANGED <<counter, contErrors, gaps>>
    BY <1>4 DEF LoseTS, SendTS
  <2>2. \A q \in Elementary : sentOn'[q] - 1 - missed'[q] = sentOn[q] - 1 - missed[q]
                             /\ sentOn'[q] \in Nat /\ missed'[q] \in Nat
    BY <2>1 DEF CounterInv
  <2>3. sentOn' \in [Elementary -> Nat] /\ missed' \in [Elementary -> Nat]
    BY <2>1 DEF CounterInv
  <2>4. \A q \in Elementary : counter'[q] # -1 => counter'[q] = (sentOn'[q] - 1 - missed'[q]) % CounterSpace
    BY <2>1, <2>2 DEF CounterInv
  <2> QED
    BY <2>1, <2>3, <2>4 DEF CounterInv, LossNoticed
<1>5. ASSUME NEW p \in Elementary, AdaptationOnly(p) PROVE CounterInv'
  <2>1. /\ counter[p] # -1 /\ UNCHANGED <<counter, sentOn, missed, gaps, lossy>>
        /\ contErrors' = IF (sentOn[p] - 1) % CounterSpace = counter[p]
                         THEN contErrors ELSE contErrors + 1
    BY <1>5 DEF AdaptationOnly
  <2>2. contErrors' # contErrors => missed[p] > 0
    <3>1. sentOn[p] \in Nat /\ missed[p] \in Nat /\ counter[p] = (sentOn[p] - 1 - missed[p]) % CounterSpace
      BY <2>1 DEF CounterInv
    <3>2. missed[p] = 0 => sentOn[p] - 1 - missed[p] = sentOn[p] - 1
      BY <3>1
    <3> QED BY <2>1, <3>1, <3>2
  <2> QED
    BY <2>1, <2>2 DEF CounterInv, LossNoticed
<1>6. CASE UNCHANGED tsVars
  BY <1>1, <1>6 DEF tsVars
<1> QED
  BY <1>2, <1>3, <1>4, <1>5, <1>6 DEF TSNext

LEMMA DemuxInvariant == TSSpec => [](AssemblyBounded /\ OneProgram /\ LossNoticed)
<1>1. AssemblyInv /\ ProgramInv /\ CounterInv => AssemblyBounded /\ OneProgram /\ LossNoticed
  BY DEF AssemblyInv, Assembling, AssemblyBounded, ProgramInv, CounterInv
<1> QED
  BY <1>1, TSInitially, AssemblyStep, ProgramStep, CounterStep, PTL DEF TSSpec

-----------------------------------------------------------------------------
(***************************************************************************)
(* The alignment in front of the parser, for any packet size and any       *)
(* messages, dropped ones included.  A byte is its offset in the stream.   *)
(* What is kept back is a run of fewer than a packet for each message      *)
(* dropped and one more (Tail1); until a message is dropped, what was      *)
(* handed on and what is kept back are together all that was received from *)
(* the first boundary on (Seam); and the message after a dropped one finds *)
(* the boundary again.                                                     *)
(***************************************************************************)

LEMMA StretchIs ==
  ASSUME NEW a \in Nat, NEW b \in Nat, a <= b
  PROVE  /\ Stretch(a, b) \in Seq(Nat) /\ Len(Stretch(a, b)) = b - a
         /\ \A i \in 1..(b - a) : Stretch(a, b)[i] = a + i - 1
<1>1. b - a \in Nat /\ \A i \in 1..(b - a) : a + i - 1 \in Nat
  OBVIOUS
<1>2. Stretch(a, b) \in [1..(b - a) -> Nat]
  BY <1>1 DEF Stretch
<1> QED
  BY <1>1, <1>2, IsASeq, LenProperties DEF Stretch

\* A sequence that holds consecutive positions is a stretch.
LEMMA IsStretch ==
  ASSUME NEW a \in Nat, NEW b \in Nat, a <= b, NEW q \in Seq(Nat), Len(q) = b - a,
         \A i \in 1..(b - a) : q[i] = a + i - 1
  PROVE  q = Stretch(a, b)
<1>1. DOMAIN q = 1..(b - a)
  OBVIOUS
<1> QED
  BY <1>1 DEF Stretch

\* Among as many consecutive positions as a packet has bytes, one starts a packet.
LEMMA BoundaryIn ==
  ASSUME NEW a \in Nat
  PROVE  \E b \in Nat : a <= b /\ b < a + TSSize /\ b % TSSize = 0
<1> DEFINE q == a \div TSSize
           r == a % TSSize
<1>0. TSSize \in Nat \ {0} /\ TSSize \in Nat
  BY AlignmentAssumption
<1>1. a = TSSize * q + r /\ q \in Int /\ r \in 0..(TSSize - 1)
  BY <1>0
<1>2. \A c \in Int : (TSSize * c + 0) % TSSize = 0
  BY <1>0, ModOf
<1> HIDE DEF q, r
<1>3. CASE r = 0
  <2>1. a % TSSize = 0
    BY <1>3 DEF r
  <2> QED BY <1>0, <2>1
<1>4. CASE r # 0
  <2>1. TSSize * (q + 1) = TSSize * q + TSSize
    BY <1>0, <1>1
  <2>2. (TSSize * (q + 1) + 0) % TSSize = 0 /\ TSSize * (q + 1) + 0 = TSSize * (q + 1)
    BY <1>0, <1>1, <1>2
  <2> DEFINE b == TSSize * (q + 1)
  <2>3. b = a - r + TSSize
    BY <1>0, <1>1, <2>1
  <2>4. b % TSSize = 0
    BY <2>2
  <2> HIDE DEF b
  <2> QED
    BY <1>0, <1>1, <1>4, <2>3, <2>4
<1> QED BY <1>3, <1>4

\* The whole packets among l bytes.
LEMMA Wholes ==
  ASSUME NEW n \in Nat \ {0}, NEW l \in Nat, NEW d, d = l \div n
  PROVE  /\ d \in Nat /\ n * d \in Nat /\ d * n = n * d /\ n * d <= l /\ l - n * d < n
         /\ (n * d) % n = 0 /\ (n * d) \div n = d
<1> DEFINE r == l % n
<1>1. l = n * d + r /\ d \in Int /\ r \in 0..(n - 1) /\ d >= 0
  OBVIOUS
<1> HIDE DEF r
<1>2. d \in Nat
  BY <1>1
<1>3. n * d \in Nat /\ d * n = n * d
  BY <1>2
<1>4. (n * d + 0) % n = 0 /\ n * d + 0 = n * d
  BY <1>2, <1>3, ModOf
<1>5. (n * d) \div n = d
  <2> DEFINE a == n * d
             e == a \div n
  <2>1. a = n * e + (a % n) /\ e \in Int
    BY <1>3
  <2>2. a = n * e
    BY <2>1, <1>4
  <2>3. n * (d - e) = n * d - n * e
    BY <2>1, <1>2
  <2>4. n * (d - e) = 0
    BY <2>1, <2>2, <2>3, <1>3
  <2> HIDE DEF a, e
  <2>5. ~(d - e >= 1) /\ ~(d - e <= -1)
    BY <1>2, <2>1, <2>4, TimesApart
  <2>6. d = e
    BY <1>2, <2>1, <2>5
  <2> QED BY <2>6 DEF a, e
<1> QED
  BY <1>1, <1>2, <1>3, <1>4, <1>5

\* The candidates of FindSyncByte.
Found(all) == {i \in DOMAIN all :
                 SyncByte(all[i]) /\ (i + TSSize \in DOMAIN all => SyncByte(all[i + TSSize]))}
At(all) == IF SyncByte(all[1]) THEN 1 ELSE FindSyncByte(all)

LEMMA AtIs ==
  ASSUME NEW all \in Seq(Nat), all # <<>>
  PROVE  /\ At(all) \in 0..Len(all)
         /\ At(all) = 0 => Found(all) = {}
         /\ At(all) # 0 => SyncByte(all[At(all)]) /\ \A i \in Found(all) : At(all) <= i
<1>1. DOMAIN all = 1..Len(all) /\ Len(all) \in Nat /\ Len(all) > 0
  OBVIOUS
<1>2. Found(all) \in SUBSET Nat /\ Found(all) \subseteq 1..Len(all)
  BY <1>1 DEF Found
<1>3. Found(all) # {} => FindSyncByte(all) \in Found(all)
                         /\ \A i \in Found(all) : FindSyncByte(all) <= i
  BY <1>2, LeastExists DEF FindSyncByte, Found, Min
<1>4. Found(all) = {} => FindSyncByte(all) = 0
  BY DEF FindSyncByte, Found
<1>5. \A i \in Found(all) : SyncByte(all[i]) /\ i \in 1..Len(all)
  BY <1>1 DEF Found
<1>6. CASE SyncByte(all[1])
  BY <1>1, <1>2, <1>6 DEF At
<1>7. CASE ~SyncByte(all[1])
  BY <1>1, <1>3, <1>4, <1>5, <1>7 DEF At
<1> QED BY <1>6, <1>7

\* What ProcessWithAlignment does with a message: nothing is cut, or the bytes
\* from a sync byte on are, up to less than a packet at the end.
Cuts(all, at, c, done) ==
  /\ c \in Nat /\ c % TSSize = 0 /\ c = TSSize * (c \div TSSize) /\ c \div TSSize \in Nat
  /\ at - 1 + c <= Len(all) /\ Len(all) - (at - 1 + c) < TSSize
  /\ done.aligned \in Seq(Nat) /\ Len(done.aligned) = c
  /\ \A i \in 1..c : done.aligned[i] = all[at - 1 + i]
  /\ done.rest \in Seq(Nat) /\ Len(done.rest) = Len(all) - (at - 1 + c)
  /\ \A i \in 1..Len(done.rest) : done.rest[i] = all[at - 1 + c + i]

LEMMA CutIs ==
  ASSUME NEW data \in Seq(Nat), data # <<>>, partial \in Seq(Nat)
  PROVE  LET all == partial \o data
             done == ProcessWithAlignment(data)
         IN  IF At(all) = 0 THEN done.aligned = <<>> /\ done.rest = all
             ELSE \E c \in Nat : Cuts(all, At(all), c, done)
<1> DEFINE all == partial \o data
           at == At(all)
           cut == SubSeq(all, at, Len(all))
           complete == (Len(cut) \div TSSize) * TSSize
           done == ProcessWithAlignment(data)
<1>0. TSSize \in Nat \ {0}
  BY AlignmentAssumption
<1>1. all \in Seq(Nat) /\ Len(all) \in Nat /\ all # <<>> /\ Len(all) >= 1
  BY ConcatProperties, EmptySeq
<1>2. done = IF at = 0 THEN [aligned |-> <<>>, rest |-> all]
             ELSE [aligned |-> SubSeq(cut, 1, complete),
                   rest    |-> SubSeq(cut, complete + 1, Len(cut))]
  BY DEF ProcessWithAlignment, At
<1>3. at \in 0..Len(all)
  BY <1>1, AtIs
<1> HIDE DEF all, at, done
<1>4. CASE at = 0
  BY <1>2, <1>4 DEF all, at, done
<1>5. CASE at # 0
  <2>0. at \in 1..Len(all) /\ Len(all) - at + 1 \in Nat
    BY <1>1, <1>3, <1>5
  <2>1. cut \in Seq(Nat) /\ Len(cut) = Len(all) - at + 1 /\ \A i \in 1..Len(cut) : cut[i] = all[at + i - 1]
    <3>1. at \in 1..(Len(all) + 1) /\ Len(all) \in (at - 1)..Len(all)
      BY <1>1, <2>0
    <3>2. /\ cut \in Seq(Nat) /\ Len(cut) = Len(all) - at + 1
          /\ \A i \in 1..(Len(all) - at + 1) : cut[i] = all[at + i - 1]
      BY <1>1, <3>1, SubSeqIs
    <3> QED BY <3>2
  <2>2. Len(cut) \in Nat
    BY <2>0, <2>1
  <2> HIDE DEF cut
  <2> DEFINE d == Len(cut) \div TSSize
  <2>3. complete = TSSize * d
    BY <1>0, <2>2, Wholes
  <2>4. complete % TSSize = 0 /\ complete \div TSSize = d /\ d \in Nat
    <3>1. d = Len(cut) \div TSSize
      OBVIOUS
    <3> HIDE DEF d, complete
    <3> QED BY <1>0, <2>2, <2>3, <3>1, Wholes
  <2>5. complete \in Nat /\ complete <= Len(cut) /\ Len(cut) - complete < TSSize
    BY <1>0, <2>2, <2>3, Wholes
  <2> HIDE DEF d, complete
  <2>6. complete = TSSize * (complete \div TSSize) /\ complete \div TSSize \in Nat
    BY <2>3, <2>4
  <2>7. /\ SubSeq(cut, 1, complete) \in Seq(Nat) /\ Len(SubSeq(cut, 1, complete)) = complete
        /\ \A i \in 1..complete : SubSeq(cut, 1, complete)[i] = cut[i]
    <3>1. 1 \in 1..(Len(cut) + 1) /\ complete \in (1 - 1)..Len(cut) /\ complete - 1 + 1 = complete
          /\ \A i \in 1..complete : 1 + i - 1 = i
      BY <2>2, <2>5
    <3>2. /\ SubSeq(cut, 1, complete) \in Seq(Nat) /\ Len(SubSeq(cut, 1, complete)) = complete - 1 + 1
          /\ \A i \in 1..(complete - 1 + 1) : SubSeq(cut, 1, complete)[i] = cut[1 + i - 1]
      BY <2>1, <3>1, SubSeqIs
    <3> QED BY <3>1, <3>2
  <2>8. LET r == SubSeq(cut, complete + 1, Len(cut))
        IN  /\ r \in Seq(Nat) /\ Len(r) = Len(cut) - complete
            /\ \A i \in 1..Len(r) : r[i] = cut[complete + i]
    <3>1. complete + 1 \in 1..(Len(cut) + 1) /\ Len(cut) \in ((complete + 1) - 1)..Len(cut)
          /\ Len(cut) - (complete + 1) + 1 = Len(cut) - complete
          /\ \A i \in 1..(Len(cut) - complete) : (complete + 1) + i - 1 = complete + i
      BY <2>2, <2>5
    <3> DEFINE r == SubSeq(cut, complete + 1, Len(cut))
    <3>2. /\ r \in Seq(Nat) /\ Len(r) = Len(cut) - (complete + 1) + 1
          /\ \A i \in 1..(Len(cut) - (complete + 1) + 1) : r[i] = cut[(complete + 1) + i - 1]
      <4> DEFINE a == complete + 1
      <4>1. a \in 1..(Len(cut) + 1) /\ Len(cut) \in (a - 1)..Len(cut)
        BY <3>1
      <4> HIDE DEF a
      <4>2. /\ SubSeq(cut, a, Len(cut)) \in Seq(Nat) /\ Len(SubSeq(cut, a, Len(cut))) = Len(cut) - a + 1
            /\ \A i \in 1..(Len(cut) - a + 1) : SubSeq(cut, a, Len(cut))[i] = cut[a + i - 1]
        BY <2>1, <4>1, SubSeqIs
      <4> QED BY <4>2, Zenon DEF a
    <3> HIDE DEF r
    <3>3. r \in Seq(Nat) /\ Len(r) = Len(cut) - complete /\ \A i \in 1..Len(r) : r[i] = cut[complete + i]
      BY <3>1, <3>2
    <3> QED BY <3>3 DEF r
  <2>9. done.aligned = SubSeq(cut, 1, complete) /\ done.rest = SubSeq(cut, complete + 1, Len(cut))
    BY <1>2, <1>5
  <2>10. at - 1 + complete <= Len(all) /\ Len(all) - (at - 1 + complete) = Len(cut) - complete
    BY <1>1, <1>3, <2>1, <2>5
  <2>11. \A i \in 1..complete : cut[i] = all[at - 1 + i]
    <3>1. \A i \in 1..complete : i \in 1..Len(cut) /\ at + i - 1 = at - 1 + i
      BY <1>3, <2>1, <2>5
    <3> QED BY <2>1, <3>1
  <2>12. \A i \in 1..(Len(cut) - complete) : cut[complete + i] = all[at - 1 + complete + i]
    <3>1. \A i \in 1..(Len(cut) - complete) : complete + i \in 1..Len(cut)
                 /\ at + (complete + i) - 1 = at - 1 + complete + i
      BY <1>3, <2>1, <2>5
    <3> QED BY <2>1, <3>1
  <2>13. Cuts(all, at, complete, done)
    BY <2>4, <2>5, <2>6, <2>7, <2>8, <2>9, <2>10, <2>11, <2>12 DEF Cuts
  <2> QED
    BY <1>5, <2>5, <2>13 DEF all, at, done
<1> QED BY <1>4, <1>5

\* The last bytes kept back are consecutive up to where the stream stands, from
\* byte m on; all of them are after a message of a packet or more.
Tail1(m) ==
  /\ m \in 0..Len(partial) /\ m <= lostCount * TSSize /\ Len(partial) - m < TSSize
  /\ \A i \in (m + 1)..Len(partial) : partial[i] = streamPos - Len(partial) + i - 1

AlignTypes ==
  /\ joined \in 0..(TSSize - 1) /\ streamPos \in Nat /\ joined <= streamPos
  /\ partial \in Seq(Nat) /\ alignedBytes \in Seq(Nat) /\ calm \in 0..3 /\ lostCount \in Nat

Seam(first) ==
  \/ joined # 0 /\ streamPos <= first /\ alignedBytes = <<>> /\ partial = Stretch(joined, streamPos)
  \/ LET b == first + Len(alignedBytes)
     IN  /\ b <= streamPos /\ b % TSSize = 0 /\ Len(alignedBytes) % TSSize = 0
         /\ alignedBytes = Stretch(first, b) /\ partial = Stretch(b, streamPos)
         /\ Len(partial) < TSSize

FirstBoundary == IF joined = 0 THEN 0 ELSE TSSize

AlignInv ==
  /\ AlignTypes
  /\ \E m \in Nat : Tail1(m)
  /\ calm >= 1 => \A i \in 1..Len(partial) : partial[i] = streamPos - Len(partial) + i - 1
  /\ lostCount = 0 /\ (joined = 0 \/ syncLike = {}) => Seam(FirstBoundary)
  /\ LossHeals

LEMMA AlignInitially == AlignInit => AlignInv
<1> SUFFICES ASSUME AlignInit PROVE AlignInv
  OBVIOUS
<1>0. TSSize \in Nat \ {0} /\ TSSize > 0
  BY AlignmentAssumption
<1>1. AlignTypes /\ partial = <<>> /\ Len(partial) = 0 /\ Len(alignedBytes) = 0 /\ streamPos = joined
      /\ joined \in Nat /\ alignedBytes = <<>>
  BY <1>0 DEF AlignInit, AlignTypes
<1>2. Tail1(0)
  BY <1>0, <1>1 DEF Tail1, AlignTypes
<1>3. Seam(FirstBoundary)
  <2>1. \A a \in Nat : Stretch(a, a) = <<>>
    <3>1. <<>> \in Seq(Nat) /\ Len(<<>>) = 0
      OBVIOUS
    <3>2. \A a \in Nat : a - a = 0 /\ a <= a /\ \A i \in 1..0 : <<>>[i] = a + i - 1
      OBVIOUS
    <3> QED BY <3>1, <3>2, IsStretch
  <2>2. 0 % TSSize = 0
    <3>1. (TSSize * 0 + 0) % TSSize = 0 /\ TSSize * 0 + 0 = 0
      BY <1>0, ModOf
    <3> QED BY <3>1
  <2>3. CASE joined = 0
    BY <1>0, <1>1, <2>1, <2>2, <2>3 DEF Seam, FirstBoundary
  <2>4. CASE joined # 0
    BY <1>0, <1>1, <2>1, <2>4 DEF Seam, FirstBoundary, AlignTypes
  <2> QED BY <2>3, <2>4
<1>4. LossHeals
  BY DEF AlignInit, LossHeals
<1> QED
  BY <1>1, <1>2, <1>3, <1>4 DEF AlignInv

LEMMA DropKeeps ==
  ASSUME AlignInv, NEW n \in MessageSizes, DropMessage(n) PROVE AlignInv'
<1>0. TSSize \in Nat \ {0} /\ n \in Nat
  BY AlignmentAssumption
<1>1. /\ streamPos' = streamPos + n /\ lostCount' = lostCount + 1 /\ alignedBytes' = <<>> /\ skipped' = {}
      /\ calm' = 0 /\ UNCHANGED <<syncLike, joined, partial>>
  BY DEF DropMessage
<1>2. AlignTypes'
  BY <1>0, <1>1 DEF AlignInv, AlignTypes
<1>3. PICK m \in Nat : Tail1(m)
  BY DEF AlignInv
<1>4. Tail1(Len(partial))'
  <2>1. lostCount \in Nat /\ lostCount * TSSize \in Nat /\ (lostCount + 1) * TSSize = lostCount * TSSize + TSSize
        /\ Len(partial) \in Nat
    BY <1>0 DEF AlignInv, AlignTypes
  <2>2. Len(partial) <= lostCount * TSSize + TSSize
    BY <1>0, <1>3, <2>1 DEF Tail1
  <2> QED
    BY <1>0, <1>1, <2>1, <2>2 DEF Tail1
<1>5. LossHeals' /\ ~(lostCount' = 0) /\ ~(calm' >= 1)
  BY <1>1 DEF LossHeals, AlignInv, AlignTypes
<1>6. Len(partial') \in Nat
  BY <1>2 DEF AlignTypes
<1> QED
  BY <1>1, <1>2, <1>4, <1>5, <1>6 DEF AlignInv

\* What was kept back followed by a message of n bytes.
Joined(n) == partial \o Stretch(streamPos, streamPos + n)

LEMMA JoinedIs ==
  ASSUME AlignTypes, NEW n \in Nat \ {0}
  PROVE  /\ Joined(n) \in Seq(Nat) /\ Joined(n) # <<>> /\ Len(Joined(n)) = Len(partial) + n
         /\ \A i \in 1..Len(partial) : Joined(n)[i] = partial[i]
         /\ \A i \in (Len(partial) + 1)..Len(Joined(n)) :
              Joined(n)[i] = streamPos + n - Len(Joined(n)) + i - 1
<1> DEFINE d == Stretch(streamPos, streamPos + n)
           l == Len(partial)
<1>1. d \in Seq(Nat) /\ Len(d) = n /\ \A i \in 1..n : d[i] = streamPos + i - 1
  <2>1. streamPos + n \in Nat /\ streamPos <= streamPos + n /\ (streamPos + n) - streamPos = n /\ streamPos \in Nat
    BY DEF AlignTypes
  <2> QED BY <2>1, StretchIs
<1>2. partial \in Seq(Nat) /\ l \in Nat /\ streamPos \in Nat
  BY DEF AlignTypes
<1> HIDE DEF d
<1>3. /\ partial \o d \in Seq(Nat) /\ Len(partial \o d) = l + n
      /\ \A i \in 1..(l + n) : (partial \o d)[i] = IF i <= l THEN partial[i] ELSE d[i - l]
  BY <1>1, <1>2, ConcatProperties
<1>4. \A i \in 1..l : (partial \o d)[i] = partial[i]
  BY <1>2, <1>3
<1>5. ASSUME NEW i \in (l + 1)..(l + n) PROVE (partial \o d)[i] = streamPos + n - (l + n) + i - 1
  <2>1. i \in 1..(l + n) /\ ~(i <= l) /\ i - l \in 1..n /\ streamPos + (i - l) - 1 = streamPos + n - (l + n) + i - 1
    BY <1>2
  <2> QED BY <1>1, <1>3, <2>1
<1>6. partial \o d # <<>>
  <2>1. Len(<<>>) = 0 /\ l + n # 0
    BY <1>2
  <2> QED BY <1>3, <2>1
<1> QED
  BY <1>3, <1>4, <1>5, <1>6 DEF Joined, d

\* A run of a packet or more at the end of the data holds a sync byte.
LEMMA RunHasSync ==
  ASSUME NEW all \in Seq(Nat), NEW m \in Nat, NEW e \in Nat, Len(all) - m >= TSSize, m <= Len(all),
         \A i \in (m + 1)..Len(all) : all[i] = e - Len(all) + i - 1
  PROVE  Found(all) # {}
<1> DEFINE l == Len(all)
<1>0. TSSize \in Nat \ {0} /\ TSSize >= 1 /\ l \in Nat /\ DOMAIN all = 1..l
  BY AlignmentAssumption
<1>1. e - TSSize \in Nat
  <2>1. l - TSSize + 1 \in (m + 1)..l /\ l - TSSize + 1 \in 1..l
    BY <1>0
  <2>2. all[l - TSSize + 1] = e - l + (l - TSSize + 1) - 1 /\ all[l - TSSize + 1] \in Nat
    BY <2>1
  <2> QED BY <1>0, <2>2
<1>2. PICK b \in Nat : e - TSSize <= b /\ b < (e - TSSize) + TSSize /\ b % TSSize = 0
  BY <1>1, BoundaryIn
<1>3. /\ b - e + l + 1 \in (m + 1)..l /\ b - e + l + 1 \in 1..l /\ (b - e + l + 1) + TSSize \notin 1..l
      /\ e - l + (b - e + l + 1) - 1 = b
  BY <1>0, <1>2
<1>4. all[b - e + l + 1] = b
  BY <1>3
<1>5. b - e + l + 1 \in Found(all)
  BY <1>0, <1>2, <1>3, <1>4 DEF Found, SyncByte
<1> QED BY <1>5

Done(n) == ProcessWithAlignment(Stretch(streamPos, streamPos + n))

LEMMA MessageIs ==
  ASSUME AlignTypes, NEW n \in MessageSizes
  PROVE  LET all == Joined(n)
             e == streamPos + n
         IN  /\ TSSize \in Nat \ {0} /\ n \in Nat \ {0} /\ streamPos \in Nat /\ e \in Nat
             /\ all \in Seq(Nat) /\ all # <<>> /\ Len(all) = Len(partial) + n
             /\ Len(all) \in Nat /\ Len(partial) \in Nat
             /\ \A i \in 1..Len(partial) : all[i] = partial[i]
             /\ \A i \in (Len(partial) + 1)..Len(all) : all[i] = e - Len(all) + i - 1
             /\ IF At(all) = 0 THEN Done(n).aligned = <<>> /\ Done(n).rest = all
                ELSE \E c \in Nat : Cuts(all, At(all), c, Done(n))
<1> DEFINE all == Joined(n)
           e == streamPos + n
<1>0. TSSize \in Nat \ {0} /\ n \in Nat \ {0} /\ streamPos \in Nat /\ e \in Nat
  BY AlignmentAssumption DEF AlignTypes
<1>1. Len(partial) \in Nat
  BY DEF AlignTypes
<1>2. /\ Joined(n) \in Seq(Nat) /\ Joined(n) # <<>> /\ Len(Joined(n)) = Len(partial) + n
      /\ \A i \in 1..Len(partial) : Joined(n)[i] = partial[i]
      /\ \A i \in (Len(partial) + 1)..Len(Joined(n)) :
            Joined(n)[i] = streamPos + n - Len(Joined(n)) + i - 1
  BY <1>0, JoinedIs
<1>3. Len(all) \in Nat
  BY <1>0, <1>1, <1>2
<1>4. IF At(all) = 0 THEN Done(n).aligned = <<>> /\ Done(n).rest = all
      ELSE \E c \in Nat : Cuts(all, At(all), c, Done(n))
  <2>1. LET d == Stretch(streamPos, e) IN d \in Seq(Nat) /\ d # <<>>
    <3>1. streamPos <= e /\ e - streamPos = n /\ n # 0
      BY <1>0
    <3>2. LET d == Stretch(streamPos, e) IN d \in Seq(Nat) /\ Len(d) = n
      BY <1>0, <3>1, StretchIs
    <3>3. Len(<<>>) = 0
      OBVIOUS
    <3> QED BY <3>1, <3>2, <3>3
  <2>2. partial \in Seq(Nat)
    BY DEF AlignTypes
  <2> QED BY <2>1, <2>2, CutIs DEF Joined, Done
<1> QED
  BY <1>0, <1>1, <1>2, <1>3, <1>4

\* How the bytes kept back change with a message.
LEMMA TailKept ==
  ASSUME AlignInv, NEW n \in MessageSizes, ProcessMessage(n)
  PROVE  /\ AlignTypes'
         /\ (\E m \in Nat : Tail1(m))'
         /\ (calm >= 1 => \A i \in 1..Len(partial) : partial[i] = streamPos - Len(partial) + i - 1)'
<1> DEFINE all == Joined(n)
           done == Done(n)
           e == streamPos + n
           l == Len(all)
           at == At(all)
<1>0. TSSize \in Nat \ {0} /\ n \in Nat \ {0} /\ AlignTypes /\ streamPos \in Nat /\ e \in Nat
      /\ lostCount \in Nat
  BY AlignmentAssumption DEF AlignInv, AlignTypes
<1>1. /\ streamPos' = e /\ partial' = done.rest
      /\ alignedBytes' = IF lostCount = 0 THEN alignedBytes \o done.aligned ELSE <<>>
      /\ calm' = IF n < TSSize THEN 0 ELSE IF calm < 3 THEN calm + 1 ELSE calm
      /\ UNCHANGED <<syncLike, joined, lostCount>>
  BY DEF ProcessMessage, Done
<1>2. /\ all \in Seq(Nat) /\ all # <<>> /\ l = Len(partial) + n
      /\ \A i \in 1..Len(partial) : all[i] = partial[i]
      /\ \A i \in (Len(partial) + 1)..l : all[i] = e - l + i - 1
      /\ l \in Nat /\ Len(partial) \in Nat
  BY <1>0, MessageIs, Zenon
<1>3. IF at = 0 THEN done.aligned = <<>> /\ done.rest = all
      ELSE \E c \in Nat : Cuts(all, at, c, done)
  BY <1>0, MessageIs, Zenon
<1> HIDE DEF all, done, e, l, at
<1>4. done.aligned \in Seq(Nat) /\ done.rest \in Seq(Nat)
  <2>1. CASE at = 0
    <3>1. <<>> \in Seq(Nat)
      OBVIOUS
    <3> QED BY <1>2, <1>3, <2>1, <3>1
  <2>2. CASE at # 0
    BY <1>3, <2>2 DEF Cuts
  <2> QED BY <2>1, <2>2
<1>5. AlignTypes'
  <2>1. alignedBytes' \in Seq(Nat)
    BY <1>0, <1>1, <1>4, ConcatProperties DEF AlignTypes
  <2>2. calm' \in 0..3
    BY <1>0, <1>1 DEF AlignTypes
  <2>3. joined \in 0..(TSSize - 1) /\ joined <= e
    BY <1>0 DEF AlignTypes, e
  <2> QED
    BY <1>0, <1>1, <1>4, <2>1, <2>2, <2>3 DEF AlignTypes
<1>6. PICK m \in Nat : Tail1(m)
  BY DEF AlignInv
<1>7. ASSUME NEW i \in (m + 1)..l PROVE all[i] = e - l + i - 1
  <2>1. CASE i <= Len(partial)
    <3>1. i \in (m + 1)..Len(partial) /\ i \in 1..Len(partial)
      BY <1>2, <2>1
    <3>2. all[i] = streamPos - Len(partial) + i - 1
      BY <1>2, <1>6, <3>1 DEF Tail1
    <3>3. streamPos - Len(partial) + i - 1 = e - l + i - 1
      BY <1>0, <1>2 DEF e
    <3> QED BY <3>2, <3>3
  <2>2. CASE ~(i <= Len(partial))
    <3>1. i \in (Len(partial) + 1)..l
      BY <1>2, <2>2
    <3> QED BY <1>2, <3>1
  <2> QED BY <2>1, <2>2
<1>8. m <= Len(partial) /\ m <= l /\ m <= lostCount * TSSize /\ lostCount * TSSize \in Nat
  BY <1>0, <1>2, <1>6 DEF Tail1
<1>9. CASE at = 0
  <2>1. Found(all) = {}
    BY <1>2, <1>9, AtIs DEF at
  <2>2. ~(l - m >= TSSize)
    BY <1>0, <1>2, <1>7, <1>8, <2>1, RunHasSync DEF l
  <2>3. partial' = all /\ Len(partial') = l
    BY <1>1, <1>3, <1>9 DEF l
  <2>4. n < TSSize
    BY <1>0, <1>2, <1>8, <2>2
  <2>5. Tail1(m)'
    <3>1. l - m < TSSize /\ m \in 0..l
      BY <1>0, <1>2, <1>8, <2>2
    <3> QED
      BY <1>1, <1>7, <1>8, <2>3, <3>1 DEF Tail1
  <2>6. ~(calm' >= 1)
    BY <1>1, <2>4
  <2> QED
    BY <1>5, <2>5, <2>6
<1>10. CASE at # 0
  <2>1. PICK c \in Nat : Cuts(all, at, c, done)
    BY <1>3, <1>10
  <2> DEFINE d == at - 1 + c
             r == done.rest
  <2>2. d \in Nat /\ d <= l /\ Len(r) = l - d /\ l - d < TSSize /\ \A i \in 1..Len(r) : r[i] = all[d + i]
    <3>1. at \in 0..l
      BY <1>2, AtIs DEF at, l
    <3> QED
      BY <1>2, <1>10, <2>1, <3>1 DEF Cuts, l
  <2> HIDE DEF d, r
  <2>3. PICK k \in Nat : k <= m /\ k <= Len(r) /\ k + d >= m
    <3>1. CASE m > d
      <4>1. m - d \in Nat /\ m - d <= m /\ m - d <= Len(r) /\ (m - d) + d >= m
        BY <1>2, <1>8, <2>2, <3>1
      <4> QED BY <4>1
    <3>2. CASE ~(m > d)
      <4>1. 0 <= m /\ 0 <= Len(r) /\ 0 + d >= m /\ 0 \in Nat
        BY <1>2, <1>8, <2>2, <3>2
      <4> QED BY <4>1
    <3> QED BY <3>1, <3>2
  <2>4. ASSUME NEW i \in (k + 1)..Len(r) PROVE r[i] = e - Len(r) + i - 1
    <3>1. i \in 1..Len(r) /\ d + i \in (m + 1)..l /\ e - l + (d + i) - 1 = e - Len(r) + i - 1
      BY <1>0, <1>2, <2>2, <2>3
    <3> QED
      BY <1>7, <2>2, <3>1
  <2>5. partial' = r
    BY <1>1 DEF r
  <2>6. Tail1(k)'
    <3>1. k \in 0..Len(r) /\ k <= lostCount * TSSize /\ Len(r) - k < TSSize
      BY <1>0, <1>2, <1>8, <2>2, <2>3
    <3> QED
      BY <1>1, <2>4, <2>5, <3>1 DEF Tail1
  <2>7. ASSUME calm' >= 1, NEW i \in 1..Len(r) PROVE r[i] = e - Len(r) + i - 1
    <3>1. n >= TSSize
      BY <1>0, <1>1, <2>7
    <3>2. d + i \in (Len(partial) + 1)..l /\ e - l + (d + i) - 1 = e - Len(r) + i - 1
      BY <1>0, <1>2, <2>2, <3>1
    <3> QED
      BY <1>2, <2>2, <3>2
  <2> QED
    BY <1>1, <1>5, <2>3, <2>5, <2>6, <2>7
<1> QED BY <1>9, <1>10
\* A message that is cut at a boundary b which consecutive bytes begin with.
LEMMA SeamCut ==
  ASSUME AlignTypes, NEW n \in MessageSizes, ProcessMessage(n), lostCount = 0,
         NEW first \in Nat, NEW b \in Nat, first <= b, b % TSSize = 0, (b - first) % TSSize = 0,
         alignedBytes = Stretch(first, b),
         LET all == Joined(n)
             e == streamPos + n
         IN  /\ At(all) # 0 /\ b <= e /\ Len(all) - At(all) + 1 = e - b
             /\ \A i \in At(all)..Len(all) : all[i] = b + (i - At(all))
  PROVE  Seam(first)'
<1> DEFINE all == Joined(n)
           done == Done(n)
           e == streamPos + n
           l == Len(all)
           at == At(all)
           L == b - first
<1>0. TSSize \in Nat \ {0} /\ n \in Nat \ {0} /\ streamPos \in Nat /\ e \in Nat /\ L \in Nat
  BY AlignmentAssumption DEF AlignTypes
<1>1. /\ streamPos' = e /\ partial' = done.rest /\ alignedBytes' = alignedBytes \o done.aligned
  BY DEF ProcessMessage, Done
<1>2. all \in Seq(Nat) /\ all # <<>> /\ l \in Nat
  BY MessageIs, Zenon
<1>3. PICK c \in Nat : Cuts(all, at, c, done)
  BY MessageIs, Zenon
<1>4. at \in 1..l
  BY <1>2, AtIs
<1>5. l - at + 1 = e - b /\ b <= e /\ \A i \in at..l : all[i] = b + (i - at)
  OBVIOUS
<1>6. alignedBytes \in Seq(Nat) /\ Len(alignedBytes) = L /\ \A i \in 1..L : alignedBytes[i] = first + i - 1
  BY StretchIs
<1> HIDE DEF all, done, e, l, at
<1>7. /\ c \in Nat /\ c % TSSize = 0 /\ at - 1 + c <= l /\ l - (at - 1 + c) < TSSize
      /\ done.aligned \in Seq(Nat) /\ Len(done.aligned) = c
      /\ \A i \in 1..c : done.aligned[i] = all[at - 1 + i]
      /\ done.rest \in Seq(Nat) /\ Len(done.rest) = l - (at - 1 + c)
      /\ \A i \in 1..Len(done.rest) : done.rest[i] = all[at - 1 + c + i]
  BY <1>3 DEF Cuts, l
<1>8. b + c <= e /\ e - (b + c) = Len(done.rest) /\ e - (b + c) < TSSize /\ b + c \in Nat /\ first <= b + c
      /\ (b + c) - first = L + c
  BY <1>0, <1>2, <1>4, <1>5, <1>7
<1> HIDE DEF L
<1>9. alignedBytes' = Stretch(first, b + c)
  <2> DEFINE q == alignedBytes \o done.aligned
  <2>1. /\ q \in Seq(Nat) /\ Len(q) = L + c
        /\ \A i \in 1..(L + c) : q[i] = IF i <= L THEN alignedBytes[i] ELSE done.aligned[i - L]
    BY <1>6, <1>7, ConcatProperties
  <2> HIDE DEF q
  <2>2. ASSUME NEW i \in 1..(L + c) PROVE q[i] = first + i - 1
    <3>1. CASE i <= L
      <4>1. i \in 1..L
        BY <1>0, <3>1
      <4> QED BY <1>6, <2>1, <3>1, <4>1
    <3>2. CASE ~(i <= L)
      <4>1. i - L \in 1..c /\ at - 1 + (i - L) \in at..l
        BY <1>0, <1>2, <1>4, <1>7, <3>2
      <4>2. q[i] = all[at - 1 + (i - L)]
        BY <1>7, <2>1, <3>2, <4>1
      <4>3. all[at - 1 + (i - L)] = b + ((at - 1 + (i - L)) - at)
        BY <1>5, <4>1
      <4>4. b + ((at - 1 + (i - L)) - at) = first + i - 1
        BY <1>0, <1>4 DEF L
      <4> QED BY <4>2, <4>3, <4>4
    <3> QED BY <3>1, <3>2
  <2>3. q = Stretch(first, b + c)
    BY <1>8, <2>1, <2>2, IsStretch
  <2> QED BY <1>1, <2>3 DEF q
<1>10. partial' = Stretch(b + c, e)
  <2>1. ASSUME NEW i \in 1..(e - (b + c)) PROVE done.rest[i] = (b + c) + i - 1
    <3>1. i \in 1..Len(done.rest) /\ at - 1 + c + i \in at..l /\ b + ((at - 1 + c + i) - at) = (b + c) + i - 1
      BY <1>0, <1>2, <1>4, <1>7, <1>8
    <3> QED BY <1>5, <1>7, <3>1
  <2> QED
    BY <1>0, <1>1, <1>7, <1>8, <2>1, IsStretch
<1>11. (b + c) % TSSize = 0 /\ (L + c) % TSSize = 0
  <2>0. b \in Int /\ L \in Int /\ c \in Int
    BY <1>0
  <2>1. ((b % TSSize) + c) % TSSize = (b + c) % TSSize
    BY <1>0, <2>0, ModAdd
  <2>3. ((L % TSSize) + c) % TSSize = (L + c) % TSSize
    BY <1>0, <2>0, ModAdd
  <2>2. 0 + c = c /\ L % TSSize = 0 /\ b % TSSize = 0
    BY DEF L
  <2> QED BY <1>7, <2>1, <2>2, <2>3
<1>12. Len(alignedBytes') = L + c /\ first + (L + c) = b + c
  <2>1. Len(Stretch(first, b + c)) = (b + c) - first
    BY <1>8, StretchIs
  <2> QED BY <1>0, <1>8, <1>9, <2>1 DEF L
<1> QED
  BY <1>1, <1>7, <1>8, <1>9, <1>10, <1>11, <1>12 DEF Seam

\* What remains of a position.
LEMMA SmallMod ==
  ASSUME NEW n \in Nat \ {0}
  PROVE  /\ \A a \in 0..(n - 1) : a % n = a
         /\ n % n = 0 /\ 0 % n = 0
         /\ \A a \in Nat : a % n = 0 => (a + n) % n = 0
<1>1. ASSUME NEW a \in 0..(n - 1) PROVE a % n = a
  <2>1. (n * 0 + a) % n = a /\ n * 0 + a = a
    BY ModOf
  <2> QED BY <2>1
<1>2. n % n = 0
  <2>1. (n * 1 + 0) % n = 0 /\ n * 1 + 0 = n
    BY ModOf
  <2> QED BY <2>1
<1>3. 0 \in 0..(n - 1)
  OBVIOUS
<1>4. ASSUME NEW a \in Nat, a % n = 0 PROVE (a + n) % n = 0
  <2>1. a \in Int /\ n \in Int /\ 0 + n = n
    OBVIOUS
  <2>2. ((a % n) + n) % n = (a + n) % n
    BY <2>1, ModAdd
  <2> QED BY <1>2, <1>4, <2>1, <2>2
<1> QED BY <1>1, <1>2, <1>3, <1>4

LEMMA SeamAfter ==
  ASSUME AlignInv, NEW n \in MessageSizes, ProcessMessage(n), lostCount = 0,
         NEW first \in Nat, first = FirstBoundary, Seam(first),
         ~(joined # 0 /\ streamPos <= first /\ alignedBytes = <<>> /\ partial = Stretch(joined, streamPos))
  PROVE  Seam(first)'
<1> DEFINE all == Joined(n)
           e == streamPos + n
           l == Len(all)
           b == first + Len(alignedBytes)
<1>0. AlignTypes /\ Len(alignedBytes) \in Nat
  BY DEF AlignInv, AlignTypes
<1>1. /\ b \in Nat /\ first <= b /\ b - first = Len(alignedBytes)
      /\ b <= streamPos /\ b % TSSize = 0 /\ Len(alignedBytes) % TSSize = 0
      /\ alignedBytes = Stretch(first, b) /\ partial = Stretch(b, streamPos)
  BY <1>0 DEF Seam
<1>2. /\ all \in Seq(Nat) /\ all # <<>> /\ l = Len(partial) + n
      /\ \A i \in 1..Len(partial) : all[i] = partial[i]
      /\ \A i \in (Len(partial) + 1)..l : all[i] = e - l + i - 1
      /\ l \in Nat /\ Len(partial) \in Nat
  BY <1>0, MessageIs, Zenon
<1>3. streamPos \in Nat /\ n \in Nat \ {0} /\ e \in Nat
  BY <1>0, MessageIs, Zenon
<1> HIDE DEF all, b
<1>4. Len(partial) = streamPos - b /\ \A i \in 1..(streamPos - b) : partial[i] = b + i - 1
  BY <1>1, <1>3, StretchIs
<1>5. l = e - b /\ l >= 1 /\ b <= e
  BY <1>1, <1>2, <1>3, <1>4
<1>6. ASSUME NEW i \in 1..l PROVE all[i] = b + (i - 1)
  <2>1. CASE i <= Len(partial)
    <3>1. i \in 1..(streamPos - b) /\ i \in 1..Len(partial) /\ b + i - 1 = b + (i - 1)
      BY <1>1, <1>2, <1>3, <1>4, <2>1
    <3> QED BY <1>2, <1>4, <3>1
  <2>2. CASE ~(i <= Len(partial))
    <3>1. b \in Nat /\ l \in Nat /\ e \in Nat /\ Len(partial) \in Nat
      BY <1>1, <1>2, <1>3
    <3> HIDE DEF e, l
    <3>2. i \in (Len(partial) + 1)..l /\ e - l + i - 1 = b + (i - 1)
      BY <1>5, <2>2, <3>1
    <3> QED BY <1>2, <3>2
  <2> QED BY <2>1, <2>2
<1>7. At(all) = 1
  <2>1. 1 \in 1..l /\ b + (1 - 1) = b
    BY <1>1, <1>2, <1>5
  <2>2. SyncByte(all[1])
    BY <1>1, <1>6, <2>1 DEF SyncByte
  <2> QED BY <2>2 DEF At
<1>8. Len(all) - At(all) + 1 = e - b /\ \A i \in At(all)..Len(all) : all[i] = b + (i - At(all))
  <2>1. b \in Nat /\ l \in Nat /\ e \in Nat
    BY <1>1, <1>2, <1>3
  <2>2. l - 1 + 1 = e - b
    <3> HIDE DEF e, l
    <3> QED BY <1>5, <2>1
  <2> QED BY <1>6, <1>7, <2>2
<1>9. At(all) # 0 /\ (b - first) % TSSize = 0
  BY <1>1, <1>7
<1> QED
  BY <1>0, <1>1, <1>5, <1>8, <1>9, SeamCut DEF all

LEMMA SeamJoin ==
  ASSUME AlignInv, NEW n \in MessageSizes, ProcessMessage(n), lostCount = 0, syncLike = {},
         joined # 0, streamPos <= TSSize, alignedBytes = <<>>, partial = Stretch(joined, streamPos)
  PROVE  Seam(TSSize)'
<1> DEFINE all == Joined(n)
           e == streamPos + n
           l == Len(all)
           at == At(all)
           i0 == TSSize - joined + 1
<1>0. AlignTypes /\ joined \in 1..(TSSize - 1) /\ TSSize \in Nat \ {0} /\ joined \in Nat /\ joined <= streamPos
  BY AlignmentAssumption DEF AlignInv, AlignTypes
<1>2. /\ all \in Seq(Nat) /\ all # <<>> /\ l = Len(partial) + n
      /\ \A i \in 1..Len(partial) : all[i] = partial[i]
      /\ \A i \in (Len(partial) + 1)..l : all[i] = e - l + i - 1
      /\ l \in Nat /\ Len(partial) \in Nat
  BY <1>0, MessageIs, Zenon
<1>3. streamPos \in Nat /\ n \in Nat \ {0} /\ e \in Nat
  BY <1>0, MessageIs, Zenon
<1>4. IF at = 0 THEN Done(n).aligned = <<>> /\ Done(n).rest = all
      ELSE \E c \in Nat : Cuts(all, at, c, Done(n))
  BY <1>0, MessageIs, Zenon
<1>5. at \in 0..l /\ (at = 0 => Found(all) = {})
      /\ (at # 0 => SyncByte(all[at]) /\ \A i \in Found(all) : at <= i)
  BY <1>2, AtIs
<1> HIDE DEF all, at, l
<1>6. Len(partial) = streamPos - joined /\ \A i \in 1..(streamPos - joined) : partial[i] = joined + i - 1
  BY <1>0, <1>3, StretchIs
<1>7. l = e - joined /\ l >= 1 /\ joined <= e
  BY <1>0, <1>2, <1>3, <1>6
<1>8. ASSUME NEW i \in 1..l PROVE all[i] = joined + i - 1
  <2>1. CASE i <= Len(partial)
    <3>1. i \in 1..(streamPos - joined) /\ i \in 1..Len(partial)
      BY <1>0, <1>2, <1>3, <1>6, <2>1
    <3> QED BY <1>2, <1>6, <3>1
  <2>2. CASE ~(i <= Len(partial))
    <3>1. joined \in Nat /\ l \in Nat /\ e \in Nat /\ Len(partial) \in Nat
      BY <1>0, <1>2, <1>3
    <3> HIDE DEF e
    <3>2. i \in (Len(partial) + 1)..l /\ e - l + i - 1 = joined + i - 1
      BY <1>7, <2>2, <3>1
    <3> QED BY <1>2, <3>2
  <2> QED BY <2>1, <2>2
<1>9. e > TSSize => i0 \in Found(all) /\ i0 \in 1..l
  <2> SUFFICES ASSUME e > TSSize PROVE i0 \in Found(all) /\ i0 \in 1..l
    OBVIOUS
  <2>1. i0 \in 1..l /\ joined + i0 - 1 = TSSize /\ joined + (i0 + TSSize) - 1 = TSSize + TSSize
        /\ DOMAIN all = 1..l
    BY <1>0, <1>2, <1>3, <1>7 DEF l
  <2>2. all[i0] = TSSize /\ (i0 + TSSize \in DOMAIN all => all[i0 + TSSize] = TSSize + TSSize)
    <3> HIDE DEF i0
    <3> QED BY <1>8, <2>1
  <2>3. SyncByte(TSSize) /\ SyncByte(TSSize + TSSize)
    BY <1>0, SmallMod DEF SyncByte
  <2> HIDE DEF i0
  <2> QED BY <2>1, <2>2, <2>3 DEF Found
<1>10. /\ streamPos' = e /\ partial' = Done(n).rest /\ alignedBytes' = alignedBytes \o Done(n).aligned
       /\ joined' = joined
  BY DEF ProcessMessage, Done
<1>11. CASE at = 0
  <2>1. ~(e > TSSize)
    BY <1>5, <1>9, <1>11
  <2>2. all = Stretch(joined, e)
    BY <1>0, <1>2, <1>3, <1>7, <1>8, IsStretch DEF l
  <2>3. alignedBytes' = <<>>
    <3>1. <<>> \o <<>> = <<>>
      OBVIOUS
    <3> QED BY <1>4, <1>10, <1>11, <3>1
  <2>4. partial' = Stretch(joined, e) /\ e <= TSSize
    BY <1>0, <1>3, <1>4, <1>10, <1>11, <2>1, <2>2
  <2> HIDE DEF e
  <2> QED
    BY <1>10, <2>3, <2>4 DEF Seam
<1>12. CASE at # 0
  <2>1. at \in 1..l /\ all[at] = joined + at - 1 /\ SyncByte(all[at])
    <3>1. at \in 1..l
      BY <1>2, <1>5, <1>12
    <3> QED BY <1>5, <1>8, <1>12, <3>1
  <2> DEFINE p == joined + at - 1
  <2>2. p % TSSize = 0 /\ p \in Nat /\ p >= 1
    <3>1. p % TSSize = 0
      BY <2>1 DEF SyncByte
    <3> QED BY <1>0, <1>2, <2>1, <3>1
  <2>3. ~(p < TSSize)
    <3> HIDE DEF p
    <3>1. p < TSSize => p \in 0..(TSSize - 1)
      BY <1>0, <2>2
    <3>2. p < TSSize => p % TSSize = p
      BY <1>0, <3>1, SmallMod
    <3> QED BY <2>2, <3>2
  <2>4. p < e
    BY <1>0, <1>2, <1>3, <1>7, <2>1
  <2>5. e > TSSize
    BY <1>0, <1>3, <2>2, <2>3, <2>4
  <2>6. at <= i0
    BY <1>5, <1>9, <1>12, <2>5
  <2>7. at = i0
    BY <1>0, <1>2, <2>1, <2>3, <2>6
  <2>8. Len(all) - at + 1 = e - TSSize /\ TSSize <= e
    BY <1>0, <1>2, <1>3, <1>7, <2>5, <2>7 DEF l
  <2>9. ASSUME NEW i \in at..Len(all) PROVE all[i] = TSSize + (i - at)
    <3>1. i \in 1..l /\ joined + i - 1 = TSSize + (i - at)
      BY <1>0, <1>2, <2>1, <2>7 DEF l
    <3> QED BY <1>8, <3>1
  <2>10. alignedBytes = Stretch(TSSize, TSSize)
    <3>1. <<>> \in Seq(Nat) /\ Len(<<>>) = 0 /\ TSSize \in Nat /\ TSSize - TSSize = 0 /\ TSSize <= TSSize
      BY <1>0
    <3>2. \A i \in 1..0 : <<>>[i] = TSSize + i - 1
      OBVIOUS
    <3> QED BY <3>1, <3>2, IsStretch
  <2>11. (TSSize - TSSize) % TSSize = 0 /\ TSSize % TSSize = 0 /\ TSSize \in Nat /\ TSSize <= TSSize
    <3>1. TSSize - TSSize = 0 /\ TSSize \in Nat /\ TSSize <= TSSize
      BY <1>0
    <3> QED BY <1>0, <3>1, SmallMod
  <2> HIDE DEF i0
  <2>12. at # 0 /\ TSSize <= e /\ Len(all) - at + 1 = e - TSSize
         /\ \A i \in at..Len(all) : all[i] = TSSize + (i - at)
    BY <1>12, <2>8, <2>9
  <2> QED
    BY <1>0, <2>10, <2>11, <2>12, SeamCut DEF all, at
<1> QED BY <1>11, <1>12

LEMMA SeamKept ==
  ASSUME AlignInv, NEW n \in MessageSizes, ProcessMessage(n), lostCount = 0, joined = 0 \/ syncLike = {}
  PROVE  Seam(FirstBoundary)'
<1>0. TSSize \in Nat \ {0}
  BY AlignmentAssumption
<1>1. PICK first \in Nat : first = FirstBoundary
  BY <1>0 DEF FirstBoundary
<1>2. FirstBoundary' = first
  BY <1>1 DEF ProcessMessage, FirstBoundary
<1>3. Seam(first)
  BY <1>1 DEF AlignInv
<1>4. Seam(first)'
  <2>1. CASE joined # 0 /\ streamPos <= first /\ alignedBytes = <<>> /\ partial = Stretch(joined, streamPos)
    <3>1. first = TSSize
      BY <1>1, <2>1 DEF FirstBoundary
    <3>2. Seam(TSSize)'
      BY <2>1, <3>1, SeamJoin
    <3> QED BY <3>1, <3>2 DEF Seam
  <2>2. CASE ~(joined # 0 /\ streamPos <= first /\ alignedBytes = <<>> /\ partial = Stretch(joined, streamPos))
    BY <1>1, <1>3, <2>2, SeamAfter
  <2> QED BY <2>1, <2>2
<1> QED
  BY <1>2, <1>4 DEF Seam

\* After two messages of a packet or more no whole packet of the last is skipped.
LEMMA HealsAfter ==
  ASSUME AlignInv, NEW n \in MessageSizes, ProcessMessage(n), syncLike = {}, calm' >= 2
  PROVE  skipped' = {}
<1> DEFINE all == Joined(n)
           e == streamPos + n
           l == Len(all)
           at == At(all)
           aligned == Done(n).aligned
           inside == {k \in (streamPos \div TSSize)..(e \div TSSize) :
                        k * TSSize >= streamPos /\ (k + 1) * TSSize <= e}
<1>0. AlignTypes /\ TSSize \in Nat \ {0} /\ TSSize \in Nat /\ calm \in 0..3
  BY AlignmentAssumption DEF AlignInv, AlignTypes
<1>1. /\ skipped' = {k \in inside : Stretch(k * TSSize, (k + 1) * TSSize) \notin Parsed(aligned)}
      /\ calm' = IF n < TSSize THEN 0 ELSE IF calm < 3 THEN calm + 1 ELSE calm
  BY DEF ProcessMessage, Done
<1>2. /\ all \in Seq(Nat) /\ all # <<>> /\ l = Len(partial) + n
      /\ \A i \in 1..Len(partial) : all[i] = partial[i]
      /\ \A i \in (Len(partial) + 1)..l : all[i] = e - l + i - 1
      /\ l \in Nat /\ Len(partial) \in Nat
  BY <1>0, MessageIs, Zenon
<1>3. streamPos \in Nat /\ n \in Nat \ {0} /\ e \in Nat
  BY <1>0, MessageIs, Zenon
<1>4. IF at = 0 THEN aligned = <<>> /\ Done(n).rest = all
      ELSE \E c \in Nat : Cuts(all, at, c, Done(n))
  BY <1>0, MessageIs, Zenon
<1>5. at \in 0..l /\ (at = 0 => Found(all) = {})
      /\ (at # 0 => SyncByte(all[at]) /\ \A i \in Found(all) : at <= i)
  BY <1>2, AtIs
<1> HIDE DEF all, at, l, aligned, inside
<1>6. n >= TSSize /\ calm >= 1
  BY <1>0, <1>1, <1>3
<1>7. \A i \in 1..Len(partial) : partial[i] = streamPos - Len(partial) + i - 1
  BY <1>6 DEF AlignInv
<1>8. ASSUME NEW i \in 1..l PROVE all[i] = e - l + i - 1
  <2>1. CASE i <= Len(partial)
    <3>1. i \in 1..Len(partial) /\ streamPos - Len(partial) + i - 1 = e - l + i - 1
      BY <1>2, <1>3, <2>1
    <3> QED BY <1>2, <1>7, <3>1
  <2>2. CASE ~(i <= Len(partial))
    <3>1. i \in (Len(partial) + 1)..l
      BY <1>2, <2>2
    <3> QED BY <1>2, <3>1
  <2> QED BY <2>1, <2>2
<1>9. at \in 1..l
  <2>1. 0 \in Nat /\ Len(all) - 0 >= TSSize /\ 0 <= Len(all)
        /\ \A i \in (0 + 1)..Len(all) : all[i] = e - Len(all) + i - 1
    BY <1>0, <1>2, <1>3, <1>6, <1>8 DEF l
  <2> HIDE DEF e
  <2>2. Found(all) # {}
    BY <1>2, <1>3, <2>1, RunHasSync
  <2> QED BY <1>2, <1>5, <2>2
<1>10. PICK c \in Nat : Cuts(all, at, c, Done(n))
  BY <1>4, <1>9
<1> DEFINE p == e - l + at - 1
           d == c \div TSSize
           u == p \div TSSize
<1>11. p \in Nat /\ all[at] = p /\ p % TSSize = 0
  <2>1. all[at] = p /\ all[at] \in Nat
    BY <1>2, <1>8, <1>9 DEF l
  <2>2. SyncByte(all[at])
    BY <1>5, <1>9
  <2> QED BY <2>1, <2>2 DEF SyncByte
<1>12. /\ c = TSSize * d /\ d \in Nat /\ p + c <= e /\ e - (p + c) < TSSize
       /\ aligned \in Seq(Nat) /\ Len(aligned) = c
  <2>1. /\ c = TSSize * d /\ d \in Nat /\ at - 1 + c <= l /\ l - (at - 1 + c) < TSSize
        /\ aligned \in Seq(Nat) /\ Len(aligned) = c
    BY <1>10 DEF Cuts, l, aligned
  <2> HIDE DEF d
  <2> QED BY <1>0, <1>2, <1>3, <1>9, <2>1
<1>13. ASSUME NEW i \in 1..c PROVE aligned[i] = p + i - 1
  <2>1. aligned[i] = all[at - 1 + i] /\ at - 1 + c <= l
    BY <1>10 DEF Cuts, aligned, l
  <2>2. at - 1 + i \in 1..l /\ e - l + (at - 1 + i) - 1 = p + i - 1
    BY <1>2, <1>3, <1>9, <2>1
  <2> QED BY <1>8, <2>1, <2>2
<1>14. p = TSSize * u /\ u \in Nat
  <2> HIDE DEF p
  <2>1. p = TSSize * (p \div TSSize) + (p % TSSize) /\ p \div TSSize \in Int /\ p \div TSSize >= 0
    BY <1>0, <1>11
  <2>2. TSSize * (p \div TSSize) \in Int
    BY <1>0, <2>1
  <2> QED BY <1>11, <2>1, <2>2
<1> HIDE DEF p, d, u, e
<1>15. ASSUME NEW k \in inside PROVE Stretch(k * TSSize, (k + 1) * TSSize) \in Parsed(aligned)
  <2> DEFINE a == k * TSSize
             z == (k + 1) * TSSize
             j == k - u
  <2>1. k \in Nat /\ a >= streamPos /\ z <= e
    <3>1. streamPos \div TSSize \in Nat
      BY <1>0, <1>3
    <3>2. e \div TSSize \in Int
      BY <1>0, <1>3
    <3> QED BY <3>1, <3>2 DEF inside
  <2>2. a = TSSize * k /\ a \in Nat /\ z = a + TSSize /\ z \in Nat
    BY <1>0, <2>1
  <2>3. a % TSSize = 0 /\ z % TSSize = 0
    <3>1. (TSSize * k + 0) % TSSize = 0
      BY <1>0, <2>1, ModOf
    <3>2. a % TSSize = 0
      BY <2>2, <3>1
    <3> HIDE DEF a, z
    <3> QED BY <1>0, <2>2, <3>2, SmallMod
  <2> HIDE DEF a, z
  <2>4. p <= a
    <3> DEFINE i == a - e + l + 1
    <3>1. i \in 1..l /\ e - l + i - 1 = a /\ e - l + (i + TSSize) - 1 = z /\ i \in Int
      <4>1. e = streamPos + n
        BY DEF e
      <4> QED
        BY <1>0, <1>2, <1>3, <2>1, <2>2, <4>1
    <3> HIDE DEF i
    <3>2. DOMAIN all = 1..l
      BY <1>2 DEF l
    <3>3. all[i] = a /\ (i + TSSize \in DOMAIN all => all[i + TSSize] = z)
      BY <1>8, <3>1, <3>2
    <3>4. SyncByte(a) /\ SyncByte(z)
      BY <2>3 DEF SyncByte
    <3>5. i \in Found(all)
      BY <3>1, <3>2, <3>3, <3>4 DEF Found
    <3>6. at <= i
      BY <1>5, <1>9, <3>5
    <3>7. e - l + at - 1 <= e - l + i - 1
      BY <1>2, <1>3, <1>9, <3>1, <3>6
    <3> QED BY <3>1, <3>7 DEF p
  <2>5. j \in 0..(d - 1)
    <3>1. u <= k
      <4>1. TSSize * (k - u) = TSSize * k - TSSize * u
        BY <1>0, <1>14, <2>1
      <4>2. TSSize * (k - u) >= 0
        BY <1>0, <1>11, <1>14, <2>2, <2>4, <4>1
      <4>3. k - u <= -1 => TSSize * (k - u) <= -TSSize
        BY <1>0, <1>14, <2>1, TimesApart
      <4>4. TSSize * (k - u) \in Int
        BY <1>0, <1>14, <2>1, TimesApart
      <4>5. ~(k - u <= -1)
        BY <1>0, <4>2, <4>3, <4>4
      <4> QED BY <1>14, <2>1, <4>5
    <3>2. k + 1 <= u + d
      <4> DEFINE w == k - (u + d)
      <4>1. TSSize * w = TSSize * k - TSSize * u - TSSize * d
        BY <1>0, <1>12, <1>14, <2>1
      <4>2. TSSize * w < 0
        <5>1. a + TSSize < p + c + TSSize
          BY <1>0, <1>3, <1>11, <1>12, <2>1, <2>2
        <5>2. a - p - c < 0
          BY <1>0, <1>11, <2>2, <5>1
        <5> QED BY <1>12, <1>14, <2>2, <4>1, <5>2
      <4>3. w \in Int
        BY <1>12, <1>14, <2>1
      <4> HIDE DEF w
      <4>4. w >= 1 => TSSize * w >= TSSize
        BY <1>0, <4>3, TimesApart
      <4>5. w # 0
        <5>1. TSSize * 0 = 0
          BY <1>0
        <5> QED BY <4>2, <5>1
      <4>6. ~(w >= 1)
        <5>1. TSSize * w \in Int
          BY <1>0, <4>3, TimesApart
        <5> QED BY <1>0, <4>2, <4>4, <5>1
      <4>7. w <= -1
        BY <4>3, <4>5, <4>6
      <4> QED BY <1>12, <1>14, <2>1, <4>7 DEF w
    <3> QED BY <1>12, <1>14, <2>1, <3>1, <3>2
  <2> DEFINE x == j * TSSize + 1
             y == (j + 1) * TSSize
             piece == SubSeq(aligned, x, y)
  <2>6. x \in Nat /\ y \in Nat /\ x >= 1 /\ y - x + 1 = TSSize /\ y <= c /\ p + x - 1 = a
    <3>1. j \in Nat /\ j * TSSize = TSSize * j /\ TSSize * j \in Nat /\ (j + 1) * TSSize = TSSize * j + TSSize
      BY <1>0, <1>12, <2>5
    <3>2. TSSize * j = TSSize * k - TSSize * u
      BY <1>0, <1>14, <2>1
    <3>3. TSSize * (d - (j + 1)) >= 0 /\ TSSize * (d - (j + 1)) = TSSize * d - (TSSize * j + TSSize)
      <4>1. d - (j + 1) \in Nat
        BY <1>12, <2>5
      <4>2. TSSize * (d - (j + 1)) >= 0
        BY <1>0, <4>1
      <4>3. TSSize * (d - (j + 1)) = TSSize * d - (TSSize * j + TSSize)
        BY <1>0, <1>12, <3>1
      <4> QED BY <4>2, <4>3
    <3> HIDE DEF j
    <3> QED BY <1>0, <1>11, <1>12, <1>14, <2>2, <3>1, <3>2, <3>3
  <2> HIDE DEF x, y
  <2>7. /\ piece \in Seq(Nat) /\ Len(piece) = y - x + 1
        /\ \A i \in 1..(y - x + 1) : piece[i] = aligned[x + i - 1]
    <3>1. x \in 1..(Len(aligned) + 1) /\ y \in (x - 1)..Len(aligned)
      BY <1>0, <1>12, <2>6
    <3> QED BY <1>12, <3>1, SubSeqIs
  <2>8. ASSUME NEW i \in 1..TSSize PROVE piece[i] = a + i - 1
    <3>1. x + i - 1 \in 1..c /\ p + (x + i - 1) - 1 = a + i - 1
      BY <1>0, <1>11, <2>2, <2>6
    <3> QED BY <1>13, <2>6, <2>7, <3>1
  <2>9. piece = Stretch(a, z)
    <3>1. z - a = TSSize /\ a <= z
      BY <1>0, <2>2
    <3> QED BY <2>2, <2>6, <2>7, <2>8, <3>1, IsStretch
  <2>10. SyncByte(piece[1])
    <3>1. 1 \in 1..TSSize /\ a + 1 - 1 = a
      BY <1>0, <2>2
    <3> QED BY <2>3, <2>8, <3>1 DEF SyncByte
  <2>11. j \in 0..(Len(aligned) \div TSSize - 1)
    BY <1>12, <2>5 DEF d
  <2>12. piece \in Parsed(aligned)
    <3> HIDE DEF j
    <3> QED BY <2>10, <2>11 DEF Parsed, x, y
  <2> QED BY <2>9, <2>12 DEF a, z
<1> QED BY <1>1, <1>15

LEMMA AlignStep == AlignInv /\ [AlignNext]_alignVars => AlignInv'
<1> SUFFICES ASSUME AlignInv, [AlignNext]_alignVars PROVE AlignInv'
  OBVIOUS
<1>1. ASSUME NEW n \in MessageSizes, ProcessMessage(n) PROVE AlignInv'
  <2>1. syncLike' = syncLike /\ joined' = joined /\ lostCount' = lostCount
    BY <1>1 DEF ProcessMessage
  <2>2. (lostCount = 0 /\ (joined = 0 \/ syncLike = {}) => Seam(FirstBoundary))'
    BY <1>1, <2>1, SeamKept
  <2>3. LossHeals'
    BY <1>1, <2>1, HealsAfter DEF LossHeals
  <2>4. /\ AlignTypes'
        /\ (\E m \in Nat : Tail1(m))'
        /\ (calm >= 1 => \A i \in 1..Len(partial) : partial[i] = streamPos - Len(partial) + i - 1)'
    BY <1>1, TailKept
  <2> QED
    BY <2>2, <2>3, <2>4 DEF AlignInv
<1>2. ASSUME NEW n \in MessageSizes, DropMessage(n) PROVE AlignInv'
  BY <1>2, DropKeeps
<1>3. CASE UNCHANGED alignVars
  BY <1>3 DEF alignVars, AlignInv, AlignTypes, Tail1, Seam, FirstBoundary, LossHeals, Stretch
<1> QED
  BY <1>1, <1>2, <1>3 DEF AlignNext

LEMMA AlignSound == AlignInv => AlignmentSound
<1> SUFFICES ASSUME AlignInv PROVE AlignmentSound
  OBVIOUS
<1>0. AlignTypes /\ TSSize \in Nat \ {0} /\ Len(partial) \in Nat /\ lostCount \in Nat
      /\ joined \in Nat /\ streamPos \in Nat /\ partial \in Seq(Nat) /\ alignedBytes \in Seq(Nat)
  BY AlignmentAssumption DEF AlignInv, AlignTypes
<1>1. PartialBounded
  <2>1. PICK m \in Nat : Tail1(m)
    BY DEF AlignInv
  <2>2. (lostCount + 1) * TSSize = lostCount * TSSize + TSSize /\ lostCount * TSSize \in Nat
    BY <1>0
  <2>3. m <= lostCount * TSSize /\ Len(partial) - m < TSSize
    BY <2>1 DEF Tail1
  <2> QED
    BY <1>0, <2>2, <2>3 DEF PartialBounded
<1>2. CutsAreSeamless
  <2> SUFFICES ASSUME lostCount = 0, joined = 0 \/ syncLike = {}
               PROVE  \/ streamPos <= FirstBoundary /\ alignedBytes = <<>> /\ partial = Stretch(joined, streamPos)
                      \/ /\ alignedBytes \o partial = Stretch(FirstBoundary, streamPos)
                         /\ Len(alignedBytes) % TSSize = 0 /\ Len(partial) < TSSize
    BY DEF CutsAreSeamless, FirstBoundary
  <2>1. PICK first \in Nat : first = FirstBoundary
    BY <1>0 DEF FirstBoundary
  <2>2. Seam(first)
    BY <2>1 DEF AlignInv
  <2> DEFINE b == first + Len(alignedBytes)
             L == Len(alignedBytes)
             P == Len(partial)
  <2>3. CASE /\ b <= streamPos /\ Len(alignedBytes) % TSSize = 0
             /\ alignedBytes = Stretch(first, b) /\ partial = Stretch(b, streamPos)
             /\ Len(partial) < TSSize
    <3>1. b \in Nat /\ L \in Nat /\ P \in Nat /\ first <= b /\ b - first = L
      BY <1>0
    <3> HIDE DEF b
    <3>a. \A i \in 1..(b - first) : Stretch(first, b)[i] = first + i - 1
      BY <3>1, StretchIs
    <3>b. b <= streamPos
      BY <2>3 DEF b
    <3>c. Len(Stretch(b, streamPos)) = streamPos - b
          /\ \A i \in 1..(streamPos - b) : Stretch(b, streamPos)[i] = b + i - 1
      BY <1>0, <3>1, <3>b, StretchIs
    <3>2. \A i \in 1..(b - first) : alignedBytes[i] = first + i - 1
      BY <2>3, <3>a, Zenon DEF b
    <3>3. P = streamPos - b /\ \A i \in 1..(streamPos - b) : partial[i] = b + i - 1
      BY <2>3, <3>c, Zenon DEF b
    <3> DEFINE q == alignedBytes \o partial
    <3>4. /\ q \in Seq(Nat) /\ Len(q) = L + P
          /\ \A i \in 1..(L + P) : q[i] = IF i <= L THEN alignedBytes[i] ELSE partial[i - L]
      BY <1>0, ConcatProperties
    <3> HIDE DEF q, L, P
    <3>5. L + P = streamPos - first /\ first <= streamPos
      BY <1>0, <2>3, <3>1, <3>3
    <3>6. ASSUME NEW i \in 1..(streamPos - first) PROVE q[i] = first + i - 1
      <4>1. CASE i <= L
        <5>1. i \in 1..(b - first)
          BY <3>1, <4>1
        <5> QED BY <3>2, <3>4, <3>5, <4>1, <5>1
      <4>2. CASE ~(i <= L)
        <5>1. i - L \in 1..(streamPos - b) /\ b + (i - L) - 1 = first + i - 1
          BY <1>0, <3>1, <3>3, <3>5, <4>2
        <5> QED BY <3>3, <3>4, <3>5, <4>2, <5>1
      <4> QED BY <4>1, <4>2
    <3>7. q = Stretch(first, streamPos)
      BY <1>0, <3>4, <3>5, <3>6, IsStretch
    <3> QED BY <2>1, <2>3, <3>7 DEF q
  <2> QED
    BY <2>1, <2>2, <2>3 DEF Seam
<1> QED
  BY <1>1, <1>2 DEF AlignmentSound, AlignInv

\* However the SRT messages cut the stream and whichever of them are dropped,
\* the validator's cut into packets is seamless until one is, exact again one
\* message after the last that was, and holds back a bounded rest
\* (ProcessWithAlignment).
THEOREM Alignment_Sound == AlignSpec => []AlignmentSound
<1>1. AlignInv /\ [AlignNext]_alignVars => AlignInv'
  BY AlignStep
<1> QED
  BY <1>1, AlignInitially, AlignSound, PTL DEF AlignSpec

\* The parser's assemblies stay within their limit, its two PIDs come from one
\* program map, and every gap its continuity counters can show is reported and
\* no other (parser.go, validation/pes.go, continuity.go), behind a sound
\* alignment.
THEOREM Demux_Sound == TSSpec /\ AlignSpec => []DemuxSound
<1>1. AssemblyBounded /\ OneProgram /\ LossNoticed /\ AlignmentSound => DemuxSound
  BY DEF DemuxSound
<1> QED
  BY <1>1, DemuxInvariant, Alignment_Sound, PTL

-----------------------------------------------------------------------------
(***************************************************************************)
(* The cache of the encoder sessions, for any sessions, sets and limits.   *)
(* The list by recency holds each cached key once, in the order of a list  *)
(* of all keys by last use that no limit applies to (Ordered); the sets of *)
(* a session are put one after the other, which keeps it so by induction.  *)
(***************************************************************************)

Keys == Nat \X {"sps", "pps", "vps"}

\* The keys of o are those of e, and in the order of r.
Ordered(o, r) ==
  /\ o \in Seq(Keys) /\ r \in Seq(Keys) /\ IsInjective(r) /\ o = Lane(r, Members(o))

CacheOK(o, e, r) ==
  /\ Ordered(o, r) /\ Members(o) = DOMAIN e /\ Len(o) <= CacheSize

\* A key that is used moves to the front of both lists.
LEMMA TouchOrdered ==
  ASSUME NEW o, NEW r, NEW k \in Keys, Ordered(o, r)
  PROVE  LET p == MoveToFront(o, k)
             q == MoveToFront(r, k)
         IN  /\ Ordered(p, q) /\ Members(p) = Members(o) \cup {k}
             /\ Len(p) <= Len(o) + 1 /\ (k \in Members(o) => Len(p) <= Len(o))
<1> DEFINE M == Members(o)
           R == Members(r)
           p1 == Lane(o, M \ {k})
           q1 == Lane(r, R \ {k})
           p == <<k>> \o p1
           q == <<k>> \o q1
<1>0. o \in Seq(Keys) /\ r \in Seq(Keys) /\ IsInjective(r) /\ o = Lane(r, M)
  BY DEF Ordered
<1>1. p = MoveToFront(o, k) /\ q = MoveToFront(r, k)
  BY DEF MoveToFront
<1>2. p1 \in Seq(Keys) /\ q1 \in Seq(Keys)
  BY <1>0, LaneType
<1>3. Members(p1) = M \cap (M \ {k}) /\ Members(q1) = R \cap (R \ {k}) /\ M = R \cap M
  <2>1. Members(Lane(r, M)) = R \cap M
    BY <1>0, LaneMembers
  <2>2. Members(p1) = M \cap (M \ {k})
    BY <1>0, LaneMembers
  <2>3. Members(q1) = R \cap (R \ {k})
    BY <1>0, LaneMembers
  <2> QED BY <1>0, <2>1, <2>2, <2>3
<1>4. Members(p) = {k} \cup Members(p1)
  BY <1>2, ConsMembers
<1>5. Members(p) = M \cup {k}
  BY <1>3, <1>4
<1>6. IsInjective(q)
  <2>1. IsInjective(q1)
    BY <1>0, LaneInjects
  <2>2. k \notin Members(q1)
    BY <1>3
  <2> QED BY <1>2, <2>1, <2>2, ConsInjects
<1>7. p = Lane(q, Members(p))
  <2>1. Lane(q, Members(p)) = <<k>> \o Lane(q1, Members(p))
    <3>1. k \in Members(p)
      BY <1>5
    <3>2. Lane(q, Members(p)) = IF k \in Members(p) THEN <<k>> \o Lane(q1, Members(p)) ELSE Lane(q1, Members(p))
      BY <1>2, LaneCons
    <3> QED BY <3>1, <3>2
  <2>2. Lane(q1, Members(p)) = Lane(r, (R \ {k}) \cap Members(p))
    BY <1>0, LaneOfLane
  <2>3. p1 = Lane(r, M \cap (M \ {k}))
    <3>1. Lane(Lane(r, M), M \ {k}) = Lane(r, M \cap (M \ {k}))
      BY <1>0, LaneOfLane
    <3> QED BY <1>0, <3>1
  <2>4. (R \ {k}) \cap Members(p) = M \cap (M \ {k})
    BY <1>3, <1>5
  <2> QED BY <2>1, <2>2, <2>3, <2>4
<1>8. p \in Seq(Keys) /\ q \in Seq(Keys) /\ Len(p) = Len(p1) + 1
  <2>1. <<k>> \in Seq(Keys) /\ Len(<<k>>) = 1
    OBVIOUS
  <2>2. p \in Seq(Keys) /\ q \in Seq(Keys) /\ Len(p) = 1 + Len(p1) /\ Len(p1) \in Nat
    BY <1>2, <2>1, ConcatProperties
  <2> QED BY <2>2
<1>9. Len(p1) <= Len(o) /\ (k \in M => Len(p1) < Len(o)) /\ Len(o) \in Nat /\ Len(p1) \in Nat
  <2>1. Len(p1) <= Len(o) /\ (~(M \subseteq M \ {k}) => Len(p1) < Len(o))
    BY <1>0, LaneLen
  <2> QED BY <1>0, <1>2, <2>1
<1> HIDE DEF p, q, p1, q1, M
<1>10. Ordered(p, q)
  BY <1>6, <1>7, <1>8 DEF Ordered
<1>11. Len(p) <= Len(o) + 1 /\ (k \in M => Len(p) <= Len(o))
  BY <1>8, <1>9
<1> QED
  BY <1>1, <1>5, <1>10, <1>11 DEF M

\* Keys that go leave the others in their order.
LEMMA DropOrdered ==
  ASSUME NEW o, NEW r, NEW S, Ordered(o, r)
  PROVE  LET p == Lane(o, Members(o) \ S)
         IN  /\ Ordered(p, r) /\ Members(p) = Members(o) \ S
             /\ Len(p) <= Len(o) /\ (Members(o) \cap S # {} => Len(p) < Len(o))
<1> DEFINE M == Members(o)
           p == Lane(o, M \ S)
<1>0. o \in Seq(Keys) /\ r \in Seq(Keys) /\ IsInjective(r) /\ o = Lane(r, M)
  BY DEF Ordered
<1>1. p \in Seq(Keys)
  BY <1>0, LaneType
<1>2. Members(p) = M \cap (M \ S)
  BY <1>0, LaneMembers
<1>3. M \cap (M \ S) = M \ S
  OBVIOUS
<1>4. p = Lane(r, M \cap (M \ S))
  <2>1. Lane(Lane(r, M), M \ S) = Lane(r, M \cap (M \ S))
    BY <1>0, LaneOfLane
  <2> QED BY <1>0, <2>1
<1>5. Len(p) <= Len(o) /\ (~(M \subseteq M \ S) => Len(p) < Len(o))
  BY <1>0, LaneLen
<1>6. M \cap S # {} => ~(M \subseteq M \ S)
  OBVIOUS
<1> HIDE DEF p, M
<1>7. Ordered(p, r)
  BY <1>0, <1>1, <1>2, <1>4 DEF Ordered
<1> QED
  BY <1>2, <1>3, <1>5, <1>6, <1>7 DEF p, M

LEMMA PutOK ==
  ASSUME NEW c, NEW r, NEW k \in Keys, CacheOK(c.order, c.expires, r)
  PROVE  LET d == CachePut(c, k) IN CacheOK(d.order, d.expires, MoveToFront(r, k))
<1> DEFINE o == MoveToFront(c.order, k)
           q == MoveToFront(r, k)
           e == [j \in DOMAIN c.expires \cup {k} |-> IF j = k THEN encNow + TTL ELSE c.expires[j]]
           d == CachePut(c, k)
<1>0. CacheSize \in Nat \ {0}
  BY EncoderAssumption
<1>1. Ordered(c.order, r) /\ Members(c.order) = DOMAIN c.expires /\ Len(c.order) <= CacheSize
      /\ Len(c.order) \in Nat
  BY DEF CacheOK, Ordered
<1>2. Ordered(o, q) /\ Members(o) = Members(c.order) \cup {k} /\ Len(o) <= Len(c.order) + 1
  BY <1>1, TouchOrdered
<1>3. DOMAIN e = Members(o)
  BY <1>1, <1>2
<1>4. d = IF Len(o) > CacheSize THEN WithoutKeys([order |-> o, expires |-> e], {Last(o)})
          ELSE [order |-> o, expires |-> e]
  BY DEF CachePut, Entered
<1>5. o \in Seq(Keys) /\ Len(o) \in Nat
  BY <1>2 DEF Ordered
<1> HIDE DEF o, q, e, d
<1>6. CASE ~(Len(o) > CacheSize)
  BY <1>0, <1>2, <1>3, <1>4, <1>5, <1>6 DEF CacheOK, d, q
<1>7. CASE Len(o) > CacheSize
  <2> DEFINE S == {Last(o)}
             p == Lane(o, Members(o) \ S)
  <2>1. d = [order |-> p, expires |-> [j \in DOMAIN e \ S |-> e[j]]]
    BY <1>4, <1>7 DEF WithoutKeys
  <2>2. Last(o) \in Members(o)
    <3>1. Len(o) \in DOMAIN o
      BY <1>0, <1>5, <1>7
    <3> QED BY <3>1 DEF Last, Members
  <2>3. Ordered(p, q) /\ Members(p) = Members(o) \ S /\ Len(p) < Len(o)
    BY <1>2, <2>2, DropOrdered
  <2>4. Len(p) <= CacheSize
    <3>1. Len(p) \in Nat
      BY <2>3 DEF Ordered
    <3> QED BY <1>0, <1>1, <1>2, <1>5, <2>3, <3>1
  <2> HIDE DEF p
  <2> QED
    BY <1>3, <2>1, <2>3, <2>4 DEF CacheOK, d, q
<1> QED BY <1>6, <1>7

-----------------------------------------------------------------------------
\* The sets of a session are put one after the other.
PutStep(g, names, i) ==
  IF i = 0 THEN [cache |-> CacheState, recent |-> recency]
  ELSE [cache  |-> CachePut(g[i - 1].cache, <<encNow, names[i]>>),
        recent |-> MoveToFront(g[i - 1].recent, <<encNow, names[i]>>)]

LEMMA PutsUpTo ==
  ASSUME NEW names, NEW n \in Nat
  PROVE  \E g : g = [i \in 0..n |-> PutStep(g, names, i)]
<1> DEFINE Good == {k \in Nat : \E g : g = [i \in 0..k |-> PutStep(g, names, i)]}
<1>1. 0 \in Good
  <2> DEFINE g == [i \in 0..0 |-> [cache |-> CacheState, recent |-> recency]]
  <2>1. g = [i \in 0..0 |-> PutStep(g, names, i)]
    BY DEF PutStep
  <2> QED BY <2>1
<1>2. ASSUME NEW k \in Nat, k \in Good PROVE k + 1 \in Good
  <2>1. PICK g : g = [i \in 0..k |-> PutStep(g, names, i)]
    BY <1>2
  <2> DEFINE h == [i \in 0..(k + 1) |-> PutStep(g, names, i)]
  <2>2. \A i \in 0..k : h[i] = g[i]
    BY <2>1
  <2>3. ASSUME NEW i \in 0..(k + 1) PROVE PutStep(g, names, i) = PutStep(h, names, i)
    <3>1. i # 0 => i - 1 \in 0..k
      OBVIOUS
    <3> HIDE DEF h
    <3> QED BY <2>2, <3>1 DEF PutStep
  <2>4. h = [i \in 0..(k + 1) |-> PutStep(h, names, i)]
    BY <2>3
  <2> HIDE DEF h
  <2> QED BY <2>4
<1> HIDE DEF Good
<1>3. \A k \in Nat : k \in Good
  BY <1>1, <1>2, SetInduction
<1> QED BY <1>3 DEF Good

LEMMA ChangeIs ==
  ASSUME NEW h \in Configured, HandleSessionChange(h)
  PROVE  \E names, g : \E n \in Nat :
           /\ \A i \in 1..n : names[i] \in {"sps", "pps", "vps"}
           /\ g = [i \in 0..n |-> PutStep(g, names, i)]
           /\ lruOrder' = g[n].cache.order /\ expiresAt' = g[n].cache.expires /\ recency' = g[n].recent
<1> DEFINE Puts(names) == CHOOSE g : g = [i \in 0..Len(names) |-> PutStep(g, names, i)]
<1>1. PICK names \in SetToSeqs(SetsIn[h]) :
        Becomes(Puts(names)[Len(names)].cache) /\ recency' = Puts(names)[Len(names)].recent
  BY DEF HandleSessionChange, PutStep
<1>2. SetsIn[h] \subseteq {"sps", "pps", "vps"}
  BY EncoderAssumption DEF Configured
<1>3. IsFiniteSet(SetsIn[h])
  <2>1. IsFiniteSet({"sps"} \cup {"pps"} \cup {"vps"})
    BY FS_Singleton, FS_Union
  <2>2. {"sps", "pps", "vps"} = {"sps"} \cup {"pps"} \cup {"vps"}
    OBVIOUS
  <2> QED BY <1>2, <2>1, <2>2, FS_Subset
<1>4. Cardinality(SetsIn[h]) \in Nat
  BY <1>3, FS_CardinalityType
<1>5. names \in [1..Cardinality(SetsIn[h]) -> SetsIn[h]]
  BY <1>1 DEF SetToSeqs
<1>6. Len(names) = Cardinality(SetsIn[h])
  BY <1>4, <1>5
<1>7. \A i \in 1..Len(names) : names[i] \in {"sps", "pps", "vps"}
  BY <1>2, <1>5, <1>6
<1>8. Puts(names) = [i \in 0..Len(names) |-> PutStep(Puts(names), names, i)]
  BY <1>4, <1>6, PutsUpTo
<1>9. PICK g : g = Puts(names)
  OBVIOUS
<1>10. PICK n \in Nat : n = Len(names)
  BY <1>4, <1>6
<1> HIDE DEF Puts
<1>11. /\ \A i \in 1..n : names[i] \in {"sps", "pps", "vps"}
       /\ g = [i \in 0..n |-> PutStep(g, names, i)]
  BY <1>7, <1>8, <1>9, <1>10
<1>12. lruOrder' = g[n].cache.order /\ expiresAt' = g[n].cache.expires /\ recency' = g[n].recent
  BY <1>1, <1>9, <1>10 DEF Becomes
<1> QED
  BY <1>11, <1>12

EncInv == encNow \in Nat /\ CacheOK(lruOrder, expiresAt, recency)

LEMMA ChangeKeeps ==
  ASSUME EncInv, NEW h \in Configured, HandleSessionChange(h)
  PROVE  CacheOK(lruOrder', expiresAt', recency')
<1>0. PICK names, g :
        \E n \in Nat :
           /\ \A i \in 1..n : names[i] \in {"sps", "pps", "vps"}
           /\ g = [i \in 0..n |-> PutStep(g, names, i)]
           /\ lruOrder' = g[n].cache.order /\ expiresAt' = g[n].cache.expires /\ recency' = g[n].recent
  BY ChangeIs
<1>1. PICK n \in Nat :
           /\ \A i \in 1..n : names[i] \in {"sps", "pps", "vps"}
           /\ g = [i \in 0..n |-> PutStep(g, names, i)]
           /\ lruOrder' = g[n].cache.order /\ expiresAt' = g[n].cache.expires /\ recency' = g[n].recent
  BY <1>0
<1> DEFINE Good == {i \in Nat : i <= n => CacheOK(g[i].cache.order, g[i].cache.expires, g[i].recent)}
<1>2. 0 \in Good
  <2>1. 0 \in 0..n
    OBVIOUS
  <2>2. g[0] = [cache |-> CacheState, recent |-> recency]
    BY <1>1, <2>1 DEF PutStep
  <2>3. g[0].cache.order = lruOrder /\ g[0].cache.expires = expiresAt /\ g[0].recent = recency
    BY <2>2 DEF CacheState
  <2> QED BY <2>3 DEF EncInv
<1>3. ASSUME NEW i \in Nat, i \in Good PROVE i + 1 \in Good
  <2> SUFFICES ASSUME i + 1 <= n
               PROVE  CacheOK(g[i + 1].cache.order, g[i + 1].cache.expires, g[i + 1].recent)
    OBVIOUS
  <2> DEFINE k == <<encNow, names[i + 1]>>
  <2>1. i + 1 \in 0..n /\ i + 1 \in 1..n /\ (i + 1) - 1 = i /\ i + 1 # 0 /\ i <= n
    OBVIOUS
  <2>2. g[i + 1] = PutStep(g, names, i + 1)
    BY <1>1, <2>1
  <2>3. g[i + 1] = [cache |-> CachePut(g[i].cache, k), recent |-> MoveToFront(g[i].recent, k)]
    BY <2>1, <2>2 DEF PutStep
  <2>4. k \in Keys
    BY <1>1, <2>1 DEF Keys, EncInv
  <2>5. CacheOK(g[i].cache.order, g[i].cache.expires, g[i].recent)
    BY <1>3, <2>1
  <2>6. g[i + 1].cache = CachePut(g[i].cache, k) /\ g[i + 1].recent = MoveToFront(g[i].recent, k)
    BY <2>3
  <2> HIDE DEF k
  <2> QED
    BY <2>4, <2>5, <2>6, PutOK
<1> HIDE DEF Good
<1>4. n \in Good
  BY <1>2, <1>3, SetInduction
<1>5. CacheOK(g[n].cache.order, g[n].cache.expires, g[n].recent)
  BY <1>4 DEF Good
<1> QED BY <1>1, <1>5

LEMMA EncInitially == EncInit => EncInv
<1> SUFFICES ASSUME EncInit PROVE EncInv
  OBVIOUS
<1>1. <<>> \in Seq(Keys) /\ Len(<<>>) = 0 /\ DOMAIN <<>> = {}
  OBVIOUS
<1>2. IsInjective(<<>>)
  BY <1>1 DEF IsInjective
<1>3. Members(<<>>) = {} /\ Lane(<<>>, {}) = <<>>
  BY NoMembers, LaneEmpty
<1>4. CacheSize \in Nat
  BY EncoderAssumption
<1>5. encNow = 0 /\ lruOrder = <<>> /\ expiresAt = <<>> /\ recency = <<>>
  BY DEF EncInit
<1>6. Ordered(lruOrder, recency)
  BY <1>1, <1>2, <1>3, <1>5 DEF Ordered
<1>7. Members(lruOrder) = DOMAIN expiresAt /\ Len(lruOrder) <= CacheSize
  BY <1>1, <1>3, <1>4, <1>5
<1> QED
  BY <1>5, <1>6, <1>7 DEF EncInv, CacheOK

LEMMA EncStep == EncInv /\ [EncNext]_esVars => EncInv'
<1> SUFFICES ASSUME EncInv, [EncNext]_esVars PROVE EncInv'
  OBVIOUS
<1>0. /\ encNow \in Nat /\ Ordered(lruOrder, recency) /\ Members(lruOrder) = DOMAIN expiresAt
      /\ Len(lruOrder) <= CacheSize /\ Len(lruOrder) \in Nat /\ CacheSize \in Nat
  BY EncoderAssumption DEF EncInv, CacheOK, Ordered
<1>1. ASSUME NEW S, lruOrder' = Lane(lruOrder, Members(lruOrder) \ S),
             expiresAt' = [j \in DOMAIN expiresAt \ S |-> expiresAt[j]],
             recency' = recency, encNow' = encNow
      PROVE  EncInv'
  <2> DEFINE p == Lane(lruOrder, Members(lruOrder) \ S)
  <2>1. Ordered(p, recency) /\ Members(p) = Members(lruOrder) \ S /\ Len(p) <= Len(lruOrder)
    BY <1>0, DropOrdered
  <2>2. Len(p) <= CacheSize
    <3>1. Len(p) \in Nat
      BY <2>1 DEF Ordered
    <3> QED BY <1>0, <2>1, <3>1
  <2>3. DOMAIN expiresAt' = Members(p)
    BY <1>0, <1>1, <2>1
  <2> HIDE DEF p
  <2>4. CacheOK(p, expiresAt', recency)
    BY <2>1, <2>2, <2>3 DEF CacheOK
  <2> QED
    BY <1>0, <1>1, <2>4 DEF EncInv, p
<1>2. ASSUME NEW h \in Configured, ProcessFrame(h) PROVE EncInv'
  BY <1>0, <1>2, ChangeKeeps DEF ProcessFrame, EncInv
<1>3. ASSUME NEW k \in Members(lruOrder), CacheGet(k) PROVE EncInv'
  <2>1. CASE encNow > expiresAt[k]
    <3>1. /\ lruOrder' = Lane(lruOrder, Members(lruOrder) \ {k})
          /\ expiresAt' = [j \in DOMAIN expiresAt \ {k} |-> expiresAt[j]]
          /\ recency' = recency /\ encNow' = encNow
      BY <1>3, <2>1 DEF CacheGet, Becomes, WithoutKeys, CacheState
    <3> QED BY <1>1, <3>1
  <2>2. CASE ~(encNow > expiresAt[k])
    <3> DEFINE p == MoveToFront(lruOrder, k)
               q == MoveToFront(recency, k)
    <3>1. lruOrder' = p /\ expiresAt' = expiresAt /\ recency' = q /\ encNow' = encNow
      BY <1>3, <2>2 DEF CacheGet, Becomes, CacheState
    <3>2. k \in Keys
      BY <1>0, <1>3 DEF Ordered, Members
    <3>3. Ordered(p, q) /\ Members(p) = Members(lruOrder) \cup {k} /\ Len(p) <= Len(lruOrder)
      BY <1>0, <1>3, <3>2, TouchOrdered
    <3>4. Len(p) <= CacheSize
      <4>1. Len(p) \in Nat
        BY <3>3 DEF Ordered
      <4> QED BY <1>0, <3>3, <4>1
    <3>5. Members(p) = DOMAIN expiresAt
      BY <1>0, <1>3, <3>3
    <3> HIDE DEF p, q
    <3>6. CacheOK(p, expiresAt, q)
      BY <3>3, <3>4, <3>5 DEF CacheOK
    <3> QED
      BY <1>0, <3>1, <3>6 DEF EncInv
  <2> QED BY <2>1, <2>2
<1>4. CASE CleanupExpired
  <2> DEFINE S == {k \in Members(lruOrder) : encNow > expiresAt[k]}
  <2>1. /\ lruOrder' = Lane(lruOrder, Members(lruOrder) \ S)
        /\ expiresAt' = [j \in DOMAIN expiresAt \ S |-> expiresAt[j]]
        /\ recency' = recency /\ encNow' = encNow
    BY <1>4 DEF CleanupExpired, Becomes, WithoutKeys, CacheState
  <2> HIDE DEF S
  <2> QED BY <1>1, <2>1
<1>5. CASE EncTick
  BY <1>0, <1>5 DEF EncTick, EncInv
<1>6. CASE UNCHANGED esVars
  BY <1>6 DEF esVars, EncInv
<1> QED
  BY <1>2, <1>3, <1>4, <1>5, <1>6 DEF EncNext

\* The cache and its eviction list agree, within the capacity, in order of use.
THEOREM Cache_Exact == EncSpec => []CacheExact
<1>1. EncInv => CacheExact
  <2> SUFFICES ASSUME EncInv PROVE CacheExact
    OBVIOUS
  <2>1. IsInjective(lruOrder)
    <3>1. IsInjective(Lane(recency, Members(lruOrder)))
      BY LaneInjects DEF EncInv, CacheOK, Ordered
    <3> QED BY <3>1 DEF EncInv, CacheOK, Ordered
  <2> QED
    BY <2>1 DEF EncInv, CacheOK, Ordered, CacheExact
<1> QED
  BY <1>1, EncInitially, EncStep, PTL DEF EncSpec

-----------------------------------------------------------------------------
(***************************************************************************)
(* The parameter sets of a stream, for any IDs, limits and keyframes. In   *)
(* both contexts the list by age holds every stored set, once, and         *)
(* totalSets is never below its length: a set counted twice counts too     *)
(* much, never too little, and ClearOldest takes off what it removes. With *)
(* the ID ranges below the limits, CopyParameterSetsFrom never runs out of *)
(* room. A stream that CanDecodeFrame found decodable is handed out after  *)
(* the reference in the PPS has been compared. While the stream is orderly *)
(* the session cache has every SPS that a PPS, stored anywhere or waiting  *)
(* in a GOP, names or was moved to; so the SPS looked up is never nil.     *)
(***************************************************************************)

AllKeys == SpsKeys \cup PpsKeys
PpsEntry == [ref : Int, says : Int]
ContextType == [sps : [SpsIds -> Configs \cup {0}], pps : [PpsIds -> PpsEntry],
                age : Seq(AllKeys), total : Nat]

StoredKeys(c) == {<<"sps", i>> : i \in StoredSps(c)} \cup {<<"pps", i>> : i \in StoredPps(c)}

\* The list by age holds what is stored, once, and no more than is counted.
ContextOK(c) ==
  /\ c \in ContextType /\ Members(c.age) = StoredKeys(c) /\ IsInjective(c.age)
  /\ Len(c.age) <= c.total

\* Its SPS are among K, and so are the SPS that its PPS are taken to refer to.
Within(c, K) == StoredSps(c) \subseteq K /\ \A p \in StoredPps(c) : c.pps[p].ref \in K

LEMMA Tagged ==
  ASSUME NEW t, NEW S, IsFiniteSet(S)
  PROVE  IsFiniteSet({<<t, i>> : i \in S}) /\ Cardinality({<<t, i>> : i \in S}) = Cardinality(S)
<1> DEFINE U == {<<t, i>> : i \in S}
           f == [i \in S |-> <<t, i>>]
<1>1. f \in [S -> U]
  OBVIOUS
<1>2. IsInjective(f)
  BY DEF IsInjective
<1>3. \A u \in U : \E i \in S : f[i] = u
  OBVIOUS
<1> HIDE DEF U, f
<1>4. f \in Bijection(S, U)
  BY <1>1, <1>2, <1>3 DEF Bijection, Injection, Surjection
<1>5. ExistsBijection(S, U)
  BY <1>4 DEF ExistsBijection
<1>6. IsFiniteSet(U) /\ Cardinality(U) = Cardinality(S)
  BY <1>5, FS_Bijection
<1> QED BY <1>6 DEF U

LEMMA CountIs ==
  ASSUME NEW c, ContextOK(c)
  PROVE  /\ Stored(c) = Len(c.age) /\ Stored(c) \in Nat
         /\ Stored(c) < SessionLimit /\ Stored(c) < HardLimit - SessionLimit
<1> DEFINE S == StoredSps(c)
           P == StoredPps(c)
           KS == {<<"sps", i>> : i \in S}
           KP == {<<"pps", i>> : i \in P}
<1>0. /\ IsFiniteSet(SpsIds) /\ IsFiniteSet(PpsIds) /\ SessionLimit \in Nat /\ HardLimit \in Nat
      /\ Cardinality(SpsIds) + Cardinality(PpsIds) < SessionLimit /\ 2 * SessionLimit <= HardLimit
  BY ParameterAssumption
<1>1. S \in SUBSET SpsIds /\ P \in SUBSET PpsIds
  BY DEF StoredSps, StoredPps
<1>2. IsFiniteSet(S) /\ Cardinality(S) <= Cardinality(SpsIds) /\ IsFiniteSet(P) /\ Cardinality(P) <= Cardinality(PpsIds)
  BY <1>0, <1>1, FS_Subset
<1>3. /\ Cardinality(S) \in Nat /\ Cardinality(P) \in Nat
      /\ Cardinality(SpsIds) \in Nat /\ Cardinality(PpsIds) \in Nat
  BY <1>0, <1>2, FS_CardinalityType
<1>4. IsFiniteSet(KS) /\ Cardinality(KS) = Cardinality(S) /\ IsFiniteSet(KP) /\ Cardinality(KP) = Cardinality(P)
  BY <1>2, Tagged
<1>5. KS \cap KP = {}
  OBVIOUS
<1> HIDE DEF KS, KP, S, P
<1>6. Cardinality(KS \cup KP) = Cardinality(S) + Cardinality(P)
  <2>1. Cardinality(KS \cup KP) = Cardinality(KS) + Cardinality(KP) - Cardinality(KS \cap KP)
    BY <1>4, FS_Union
  <2>2. Cardinality(KS \cap KP) = 0
    BY <1>5, FS_EmptySet
  <2> QED BY <1>3, <1>4, <2>1, <2>2
<1>7. Cardinality(Members(c.age)) = Len(c.age)
  <2>1. c.age \in Seq(AllKeys) /\ IsInjective(c.age)
    BY DEF ContextOK, ContextType
  <2> QED BY <2>1, InjectiveCount
<1>8. Members(c.age) = KS \cup KP
  BY DEF ContextOK, StoredKeys, KS, KP, S, P
<1>9. Stored(c) = Cardinality(S) + Cardinality(P)
  BY DEF Stored, S, P
<1> QED
  BY <1>0, <1>2, <1>3, <1>6, <1>7, <1>8, <1>9

LEMMA NewOK == ContextOK(NewContext)
<1>1. <<>> \in Seq(AllKeys) /\ Len(<<>>) = 0
  OBVIOUS
<1>2. IsInjective(<<>>)
  BY DEF IsInjective
<1>3. NoSet \in PpsEntry
  BY DEF NoSet, PpsEntry
<1>4. NewContext \in ContextType /\ NewContext.age = <<>> /\ NewContext.total = 0
  BY <1>1, <1>3 DEF NewContext, ContextType
<1>5. StoredKeys(NewContext) = {}
  BY DEF StoredKeys, StoredSps, StoredPps, HasSps, HasPps, NewContext
<1> QED
  BY <1>1, <1>2, <1>4, <1>5, NoMembers DEF ContextOK

LEMMA RefreshedIs ==
  ASSUME NEW age \in Seq(AllKeys), NEW key \in AllKeys, IsInjective(age)
  PROVE  LET q == Refreshed(age, key)
         IN  /\ q \in Seq(AllKeys) /\ IsInjective(q) /\ Members(q) = Members(age) \cup {key}
             /\ Len(q) \in Nat /\ Len(q) <= Len(age) + 1
<1> DEFINE a == Members(age) \ {key}
           p == Lane(age, a)
           q == Append(p, key)
<1>1. p \in Seq(AllKeys)
  BY LaneType
<1>2. IsInjective(p)
  BY LaneInjects
<1>3. Members(p) = Members(age) \cap a
  BY LaneMembers
<1>4. Len(p) <= Len(age)
  BY LaneLen
<1> HIDE DEF p
<1>5. IsInjective(q)
  <2>1. key \notin Members(p)
    BY <1>3
  <2> QED BY <1>1, <1>2, <2>1, AppendInjects
<1>6. Members(q) = Members(p) \cup {key}
  BY <1>1, AppendMembers
<1>7. Members(q) = Members(age) \cup {key}
  BY <1>3, <1>6
<1>8. q \in Seq(AllKeys) /\ Len(q) = Len(p) + 1 /\ Len(p) \in Nat /\ Len(age) \in Nat
  BY <1>1, AppendProperties
<1>9. q = Refreshed(age, key)
  BY DEF Refreshed, p
<1> HIDE DEF q
<1> QED
  BY <1>4, <1>5, <1>7, <1>8, <1>9

LEMMA AddSPSOK ==
  ASSUME NEW c, ContextOK(c), NEW i \in SpsIds, NEW f \in Configs
  PROVE  /\ ContextOK(AddSPS(c, i, f))
         /\ StoredSps(AddSPS(c, i, f)) = StoredSps(c) \cup {i}
         /\ \A K : Within(c, K) /\ i \in K => Within(AddSPS(c, i, f), K)
<1> DEFINE d == AddSPS(c, i, f)
           key == <<"sps", i>>
           q == Refreshed(c.age, key)
<1>0. c \in ContextType /\ c.age \in Seq(AllKeys) /\ IsInjective(c.age) /\ Members(c.age) = StoredKeys(c)
      /\ Len(c.age) <= c.total /\ c.total \in Nat /\ Len(c.age) \in Nat
  BY DEF ContextOK, ContextType
<1>1. key \in AllKeys /\ f # 0
  BY ParameterAssumption DEF AllKeys, SpsKeys
<1>2. /\ q \in Seq(AllKeys) /\ IsInjective(q) /\ Members(q) = Members(c.age) \cup {key}
      /\ Len(q) \in Nat /\ Len(q) <= Len(c.age) + 1
  BY <1>0, <1>1, RefreshedIs
<1> HIDE DEF q
<1>3. d = [c EXCEPT !.sps[i] = f, !.total = @ + 1, !.age = q]
  BY DEF AddSPS, q
<1>4. d = [sps |-> [c.sps EXCEPT ![i] = f], pps |-> c.pps, age |-> q, total |-> c.total + 1]
  BY <1>0, <1>3 DEF ContextType
<1> HIDE DEF d
<1>5. d.age = q /\ d.total = c.total + 1 /\ d.pps = c.pps /\ d.sps = [c.sps EXCEPT ![i] = f]
  BY <1>4
<1>t. d \in ContextType
  <2>1. /\ c.sps \in [SpsIds -> Configs \cup {0}] /\ c.pps \in [PpsIds -> PpsEntry]
    BY <1>0 DEF ContextType
  <2>2. [c.sps EXCEPT ![i] = f] \in [SpsIds -> Configs \cup {0}] /\ c.total + 1 \in Nat
    BY <1>0, <2>1
  <2> QED BY <1>2, <1>4, <2>1, <2>2 DEF ContextType
<1>6. StoredSps(d) = StoredSps(c) \cup {i} /\ StoredPps(d) = StoredPps(c)
  BY <1>0, <1>1, <1>5 DEF StoredSps, StoredPps, HasSps, HasPps, ContextType
<1>7. StoredKeys(d) = StoredKeys(c) \cup {key}
  BY <1>6 DEF StoredKeys
<1> HIDE DEF key
<1>8. ContextOK(d)
  BY <1>0, <1>2, <1>t, <1>5, <1>7 DEF ContextOK
<1>9. \A K : Within(c, K) /\ i \in K => Within(d, K)
  BY <1>5, <1>6 DEF Within
<1> QED BY <1>6, <1>8, <1>9 DEF d

LEMMA AddPPSOK ==
  ASSUME NEW c, ContextOK(c), NEW i \in PpsIds, NEW r \in SpsIds
  PROVE  /\ ContextOK(AddPPS(c, i, r))
         /\ StoredSps(AddPPS(c, i, r)) = StoredSps(c)
         /\ \A K : Within(c, K) /\ r \in K => Within(AddPPS(c, i, r), K)
<1> DEFINE only == StoredSps(c)
           ref == IF ~HasSps(c, r) /\ Cardinality(only) = 1 THEN CHOOSE j \in only : TRUE ELSE r
           d == AddPPS(c, i, r)
           key == <<"pps", i>>
           q == Refreshed(c.age, key)
           e == [ref |-> ref, says |-> r]
<1>0. c \in ContextType /\ c.age \in Seq(AllKeys) /\ IsInjective(c.age) /\ Members(c.age) = StoredKeys(c)
      /\ Len(c.age) <= c.total /\ c.total \in Nat /\ Len(c.age) \in Nat
  BY DEF ContextOK, ContextType
<1>1. key \in AllKeys /\ r \in Nat /\ SpsIds \subseteq Nat
  BY ParameterAssumption DEF AllKeys, PpsKeys
<1>2. /\ q \in Seq(AllKeys) /\ IsInjective(q) /\ Members(q) = Members(c.age) \cup {key}
      /\ Len(q) \in Nat /\ Len(q) <= Len(c.age) + 1
  BY <1>0, <1>1, RefreshedIs
<1>3. ref \in Int /\ ref \in StoredSps(c) \cup {r}
  <2>1. only \subseteq SpsIds
    BY DEF StoredSps
  <2>2. Cardinality(only) = 1 => only # {}
    BY FS_EmptySet
  <2> HIDE DEF only
  <2>3. only # {} => (CHOOSE j \in only : TRUE) \in only
    OBVIOUS
  <2>4. CASE ~HasSps(c, r) /\ Cardinality(only) = 1
    <3>1. ref = CHOOSE j \in only : TRUE
      BY <2>4
    <3> HIDE DEF ref
    <3>2. only # {}
      BY <2>2, <2>4
    <3>3. ref \in only
      BY <2>3, <3>1, <3>2, Zenon
    <3>4. ref \in StoredSps(c)
      BY <3>3 DEF only
    <3> QED BY <1>1, <2>1, <3>3, <3>4
  <2>5. CASE ~(~HasSps(c, r) /\ Cardinality(only) = 1)
    <3>1. ref = r
      BY <2>5
    <3> HIDE DEF ref
    <3> QED BY <1>1, <3>1
  <2> QED BY <2>4, <2>5
<1>4. d = [c EXCEPT !.pps[i] = e, !.total = @ + 1, !.age = q]
  BY DEF AddPPS
<1> HIDE DEF q, ref
<1>5. e \in PpsEntry /\ e # NoSet
  BY <1>1, <1>3 DEF PpsEntry, NoSet
<1>x. e.ref \in StoredSps(c) \cup {r}
  BY <1>3
<1> HIDE DEF e
<1>t. d = [sps |-> c.sps, pps |-> [c.pps EXCEPT ![i] = e], age |-> q, total |-> c.total + 1]
  BY <1>0, <1>4 DEF ContextType
<1> HIDE DEF d
<1>6. d \in ContextType
  <2>1. /\ c.sps \in [SpsIds -> Configs \cup {0}] /\ c.pps \in [PpsIds -> PpsEntry]
    BY <1>0 DEF ContextType
  <2>2. [c.pps EXCEPT ![i] = e] \in [PpsIds -> PpsEntry] /\ c.total + 1 \in Nat
    BY <1>0, <1>5, <2>1
  <2> QED BY <1>2, <1>t, <2>1, <2>2 DEF ContextType
<1>7. d.age = q /\ d.total = c.total + 1 /\ d.sps = c.sps /\ d.pps = [c.pps EXCEPT ![i] = e]
  BY <1>t
<1>8. StoredSps(d) = StoredSps(c) /\ StoredPps(d) = StoredPps(c) \cup {i}
  BY <1>0, <1>5, <1>7 DEF StoredSps, StoredPps, HasSps, HasPps, ContextType
<1>9. StoredKeys(d) = StoredKeys(c) \cup {key}
  BY <1>8 DEF StoredKeys
<1> HIDE DEF key
<1>10. ContextOK(d)
  BY <1>0, <1>2, <1>6, <1>7, <1>9 DEF ContextOK
<1>11. ASSUME NEW K, Within(c, K), r \in K PROVE Within(d, K)
  <2>1. c.pps \in [PpsIds -> PpsEntry]
    BY <1>0 DEF ContextType
  <2>2. e.ref \in K
    BY <1>x, <1>11 DEF Within
  <2>3. ASSUME NEW p \in StoredPps(d) PROVE d.pps[p].ref \in K
    <3>1. p \in PpsIds
      BY DEF StoredPps
    <3>2. CASE p = i
      BY <1>7, <2>1, <2>2, <3>1, <3>2
    <3>3. CASE p # i
      <4>1. d.pps[p] = c.pps[p] /\ p \in StoredPps(c)
        BY <1>7, <1>8, <2>1, <3>1, <3>3
      <4> QED BY <1>11, <4>1 DEF Within
    <3> QED BY <3>2, <3>3
  <2> QED BY <1>8, <1>11, <2>3 DEF Within
<1> QED BY <1>8, <1>10, <1>11 DEF d

-----------------------------------------------------------------------------
\* The sets that frames carry.
AnySet == {SpsSet(i, f) : i \in SpsIds, f \in Configs} \cup {PpsSet(p, r) : p \in PpsIds, r \in SpsIds}

Extracting(g, c, sets, n) ==
  IF n = 0 THEN c
  ELSE IF sets[n].type = "sps" THEN AddSPS(g[n - 1], sets[n].id, sets[n].cfg)
                               ELSE AddPPS(g[n - 1], sets[n].id, sets[n].ref)

LEMMA ExtractingUpTo ==
  ASSUME NEW c, NEW sets, NEW n \in Nat
  PROVE  \E g : g = [i \in 0..n |-> Extracting(g, c, sets, i)]
<1> DEFINE Good == {k \in Nat : \E g : g = [i \in 0..k |-> Extracting(g, c, sets, i)]}
<1>1. 0 \in Good
  <2> DEFINE g == [i \in 0..0 |-> c]
  <2>1. g = [i \in 0..0 |-> Extracting(g, c, sets, i)]
    BY DEF Extracting
  <2> QED BY <2>1
<1>2. ASSUME NEW k \in Nat, k \in Good PROVE k + 1 \in Good
  <2>1. PICK g : g = [i \in 0..k |-> Extracting(g, c, sets, i)]
    BY <1>2
  <2> DEFINE h == [i \in 0..(k + 1) |-> Extracting(g, c, sets, i)]
  <2>2. \A i \in 0..k : h[i] = g[i]
    BY <2>1
  <2>3. ASSUME NEW i \in 0..(k + 1) PROVE Extracting(g, c, sets, i) = Extracting(h, c, sets, i)
    <3>1. i # 0 => i - 1 \in 0..k
      OBVIOUS
    <3> HIDE DEF h
    <3> QED BY <2>2, <3>1 DEF Extracting
  <2>4. h = [i \in 0..(k + 1) |-> Extracting(h, c, sets, i)]
    BY <2>3
  <2> HIDE DEF h
  <2> QED BY <2>4
<1> HIDE DEF Good
<1>3. \A k \in Nat : k \in Good
  BY <1>1, <1>2, SetInduction
<1> QED BY <1>3 DEF Good

LEMMA ExtractOK ==
  ASSUME NEW c, ContextOK(c), NEW sets \in Seq(AnySet)
  PROVE  /\ ContextOK(ExtractAll(c, sets))
         /\ StoredSps(ExtractAll(c, sets)) = StoredSps(c) \cup Brings(sets)
         /\ \A K : Within(c, K) /\ Names(sets) \cup Brings(sets) \subseteq K
                   => Within(ExtractAll(c, sets), K)
<1> DEFINE l == Len(sets)
           g == CHOOSE h : h = [i \in 0..l |-> Extracting(h, c, sets, i)]
<1>0. l \in Nat
  OBVIOUS
<1>1. g = [i \in 0..l |-> Extracting(g, c, sets, i)]
  BY <1>0, ExtractingUpTo
<1>2. ExtractAll(c, sets) = g[l]
  BY DEF ExtractAll, Extracting
<1> HIDE DEF g
<1> DEFINE Is(k, t) == k \in DOMAIN sets /\ sets[k].type = t
           Upto(k) == {sets[m].id : m \in {j \in 1..k : Is(j, "sps")}}
           Fits(k, K) == Within(c, K) /\ Names(sets) \cup Brings(sets) \subseteq K
                         => Within(g[k], K)
           Fine(k) == ContextOK(g[k]) /\ StoredSps(g[k]) = StoredSps(c) \cup Upto(k)
                      /\ \A K : Fits(k, K)
           Good == {k \in Nat : k <= l => Fine(k)}
<1>3. 0 \in Good
  <2>1. 0 \in 0..l
    BY <1>0
  <2>2. g[0] = c
    BY <1>1, <2>1 DEF Extracting
  <2>3. Upto(0) = {}
    OBVIOUS
  <2> HIDE DEF Upto
  <2>4. Fine(0)
    BY <2>2, <2>3
  <2> HIDE DEF Fine
  <2> QED BY <2>4
<1>4. ASSUME NEW k \in Nat, k \in Good PROVE k + 1 \in Good
  <2> SUFFICES ASSUME k + 1 <= l PROVE Fine(k + 1)
    OBVIOUS
  <2>1. k + 1 \in 0..l /\ k + 1 \in 1..l /\ (k + 1) - 1 = k /\ k + 1 # 0 /\ k <= l
    BY <1>0
  <2>2. g[k + 1] = Extracting(g, c, sets, k + 1)
    BY <1>1, <2>1
  <2>3. Fine(k)
    BY <1>4, <2>1
  <2>4. sets[k + 1] \in AnySet /\ k + 1 \in DOMAIN sets
    BY <2>1
  <2>u. Upto(k + 1) = Upto(k) \cup (IF Is(k + 1, "sps") THEN {sets[k + 1].id} ELSE {})
    <3>1. 1..(k + 1) = (1..k) \cup {k + 1}
      OBVIOUS
    <3> HIDE DEF Is
    <3> QED BY <3>1
  <2> DEFINE s == sets[k + 1]
  <2> HIDE DEF s
  <2>5. CASE \E i \in SpsIds, f \in Configs : s = SpsSet(i, f)
    <3>1. PICK i \in SpsIds, f \in Configs : s = SpsSet(i, f)
      BY <2>5
    <3>2. s.type = "sps" /\ s.id = i /\ s.cfg = f
      BY <3>1 DEF SpsSet
    <3>3. g[k + 1] = AddSPS(g[k], i, f)
      BY <2>1, <2>2, <3>2 DEF Extracting, s
    <3>4. i \in Brings(sets) /\ Upto(k + 1) = Upto(k) \cup {i}
      BY <2>4, <2>u, <3>2 DEF Brings, s
    <3> HIDE DEF Upto, Is
    <3>5. /\ ContextOK(g[k + 1]) /\ StoredSps(g[k + 1]) = StoredSps(g[k]) \cup {i}
          /\ \A K : Within(g[k], K) /\ i \in K => Within(g[k + 1], K)
      BY <2>3, <3>3, AddSPSOK
    <3>6. \A K : Fits(k + 1, K)
      BY <2>3, <3>4, <3>5
    <3> QED BY <2>3, <3>4, <3>5, <3>6
  <2>6. CASE \E p \in PpsIds, r \in SpsIds : s = PpsSet(p, r)
    <3>1. PICK p \in PpsIds, r \in SpsIds : s = PpsSet(p, r)
      BY <2>6
    <3>2. s.type = "pps" /\ s.id = p /\ s.ref = r /\ "pps" # "sps"
      BY <3>1 DEF PpsSet
    <3>3. g[k + 1] = AddPPS(g[k], p, r)
      BY <2>1, <2>2, <3>2 DEF Extracting, s
    <3>4. r \in Names(sets) /\ Upto(k + 1) = Upto(k)
      BY <2>4, <2>u, <3>2 DEF Names, s
    <3> HIDE DEF Upto, Is
    <3>5. /\ ContextOK(g[k + 1]) /\ StoredSps(g[k + 1]) = StoredSps(g[k])
          /\ \A K : Within(g[k], K) /\ r \in K => Within(g[k + 1], K)
      BY <2>3, <3>3, AddPPSOK
    <3>6. \A K : Fits(k + 1, K)
      BY <2>3, <3>4, <3>5
    <3> QED BY <2>3, <3>4, <3>5, <3>6
  <2> HIDE DEF Fine
  <2> QED
    BY <2>4, <2>5, <2>6 DEF AnySet, s
<1> HIDE DEF Good
<1>5. l \in Good
  BY <1>0, <1>3, <1>4, SetInduction
<1>6. Fine(l)
  BY <1>0, <1>5 DEF Good
<1>7. Upto(l) = Brings(sets)
  BY DEF Brings
<1> HIDE DEF Upto
<1> QED
  BY <1>2, <1>6, <1>7

-----------------------------------------------------------------------------
LEMMA ClearOK ==
  ASSUME NEW c, ContextOK(c), NEW count \in Nat
  PROVE  ContextOK(ClearOldest(c, count))
<1> DEFINE l == Len(c.age)
           n == IF count > l THEN l ELSE count
           first == SubSeq(c.age, 1, n)
           gone == Members(first)
           q == Lane(c.age, Members(c.age) \ gone)
           d == ClearOldest(c, count)
<1>0. c \in ContextType /\ c.age \in Seq(AllKeys) /\ IsInjective(c.age) /\ Members(c.age) = StoredKeys(c)
      /\ l <= c.total /\ c.total \in Nat /\ l \in Nat
  BY DEF ContextOK, ContextType
<1>1. n \in 0..l /\ n \in Nat
  BY <1>0
<1> HIDE DEF n
<1>2. /\ first \in Seq(AllKeys) /\ Len(first) = n /\ \A i \in 1..n : first[i] = c.age[i]
  <2>1. 1 \in 1..(l + 1) /\ n \in (1 - 1)..l /\ n - 1 + 1 = n /\ \A i \in 1..n : 1 + i - 1 = i
    BY <1>0, <1>1
  <2>2. /\ first \in Seq(AllKeys) /\ Len(first) = n - 1 + 1
        /\ \A i \in 1..(n - 1 + 1) : first[i] = c.age[1 + i - 1]
    BY <1>0, <2>1, SubSeqIs
  <2> QED BY <2>1, <2>2
<1> HIDE DEF first
<1>3. IsInjective(first) /\ gone \subseteq Members(c.age)
  <2>1. DOMAIN first = 1..n /\ DOMAIN c.age = 1..l /\ 1..n \subseteq 1..l
    BY <1>0, <1>1, <1>2
  <2>2. IsInjective(first)
    BY <1>0, <1>2, <2>1 DEF IsInjective
  <2>3. gone \subseteq Members(c.age)
    BY <1>2, <2>1 DEF Members
  <2> QED BY <2>2, <2>3
<1>4. IsFiniteSet(gone) /\ Cardinality(gone) = n
  BY <1>2, <1>3, InjectiveCount
<1>5. IsFiniteSet(Members(c.age)) /\ Cardinality(Members(c.age)) = l
  BY <1>0, InjectiveCount
<1>6. q \in Seq(AllKeys) /\ IsInjective(q) /\ Members(q) = Members(c.age) \cap (Members(c.age) \ gone)
  BY <1>0, LaneType, LaneInjects, LaneMembers
<1> HIDE DEF gone, q
<1>7. Members(q) = Members(c.age) \ gone
  BY <1>6
<1>8. Len(q) = l - n
  <2>1. Cardinality(Members(q)) = Len(q)
    BY <1>6, InjectiveCount
  <2>2. Cardinality(Members(c.age) \ gone) = Cardinality(Members(c.age)) - Cardinality(Members(c.age) \cap gone)
    BY <1>5, FS_Difference
  <2>3. Members(c.age) \cap gone = gone
    BY <1>3
  <2> QED BY <1>4, <1>5, <1>7, <2>1, <2>2, <2>3
<1>9. d = [sps |-> [i \in SpsIds |-> IF <<"sps", i>> \in gone THEN 0 ELSE c.sps[i]],
           pps |-> [i \in PpsIds |-> IF <<"pps", i>> \in gone THEN NoSet ELSE c.pps[i]],
           age |-> q, total |-> c.total - n]
  BY DEF ClearOldest, q, gone, first, n
<1>10. NoSet \in PpsEntry
  BY DEF NoSet, PpsEntry
<1>11. c.total - n \in Nat /\ Len(q) <= c.total - n
  BY <1>0, <1>1, <1>8
<1>12. d \in ContextType
  BY <1>0, <1>6, <1>9, <1>10, <1>11 DEF ContextType
<1>13. d.age = q /\ d.total = c.total - n
       /\ d.sps = [i \in SpsIds |-> IF <<"sps", i>> \in gone THEN 0 ELSE c.sps[i]]
       /\ d.pps = [i \in PpsIds |-> IF <<"pps", i>> \in gone THEN NoSet ELSE c.pps[i]]
  BY <1>9
<1> HIDE DEF d
<1>14. /\ StoredSps(d) = {i \in StoredSps(c) : <<"sps", i>> \notin gone}
       /\ StoredPps(d) = {i \in StoredPps(c) : <<"pps", i>> \notin gone}
  BY <1>13 DEF StoredSps, StoredPps, HasSps, HasPps
<1>15. StoredKeys(d) = StoredKeys(c) \ gone
  BY <1>14 DEF StoredKeys
<1>16. ContextOK(d)
  BY <1>0, <1>6, <1>7, <1>11, <1>12, <1>13, <1>15 DEF ContextOK
<1> QED BY <1>16 DEF d

LEMMA CopyOK ==
  ASSUME NEW c, ContextOK(c), NEW source, ContextOK(source)
  PROVE  /\ ContextOK(CopyParameterSetsFrom(c, source))
         /\ StoredSps(CopyParameterSetsFrom(c, source)) = StoredSps(c) \cup StoredSps(source)
         /\ \A K : Within(c, K) /\ Within(source, K) => Within(CopyParameterSetsFrom(c, source), K)
<1> DEFINE s1 == Lane(source.age, SpsKeys)
           s2 == Lane(source.age, PpsKeys)
           all == s1 \o s2
           new == Members(all)
           a1 == Lane(c.age, Members(c.age) \ new)
           a2 == Lane(source.age, new)
           q == a1 \o a2
           d == CopyParameterSetsFrom(c, source)
           room == HardLimit - Stored(c)
<1>0. c \in ContextType /\ c.age \in Seq(AllKeys) /\ IsInjective(c.age) /\ Members(c.age) = StoredKeys(c)
      /\ Len(c.age) <= c.total /\ c.total \in Nat /\ Len(c.age) \in Nat
  BY DEF ContextOK, ContextType
<1>1. source \in ContextType /\ source.age \in Seq(AllKeys) /\ IsInjective(source.age)
      /\ Members(source.age) = StoredKeys(source) /\ Len(source.age) \in Nat
  BY DEF ContextOK, ContextType
<1>2. /\ s1 \in Seq(AllKeys) /\ IsInjective(s1) /\ Members(s1) = Members(source.age) \cap SpsKeys
      /\ s2 \in Seq(AllKeys) /\ IsInjective(s2) /\ Members(s2) = Members(source.age) \cap PpsKeys
  BY <1>1, LaneType, LaneInjects, LaneMembers
<1> HIDE DEF s1, s2
<1>3. SpsKeys \cap PpsKeys = {}
  BY DEF SpsKeys, PpsKeys
<1>4. Members(s1) \cap Members(s2) = {}
  BY <1>2, <1>3
<1>5. all \in Seq(AllKeys) /\ IsInjective(all)
  BY <1>2, <1>4, ConcatProperties, ConcatInjects
<1>6. new = Members(source.age)
  <2>1. new = Members(s1) \cup Members(s2)
    BY <1>2, ConcatMembers
  <2>2. Members(source.age) \subseteq SpsKeys \cup PpsKeys
    BY <1>1 DEF Members, AllKeys
  <2> QED BY <1>2, <2>1, <2>2
<1>7. Len(all) = Len(source.age)
  <2>1. Cardinality(Members(all)) = Len(all)
    BY <1>5, InjectiveCount
  <2>2. Cardinality(Members(source.age)) = Len(source.age)
    BY <1>1, InjectiveCount
  <2> QED BY <1>6, <2>1, <2>2
<1>8. /\ Stored(c) \in Nat /\ Stored(c) < SessionLimit /\ Stored(c) < HardLimit - SessionLimit
      /\ Len(source.age) < SessionLimit /\ SessionLimit \in Nat /\ HardLimit \in Nat
  <2>1. Stored(c) \in Nat /\ Stored(c) < SessionLimit /\ Stored(c) < HardLimit - SessionLimit
    BY CountIs
  <2>2. Stored(source) = Len(source.age) /\ Stored(source) < SessionLimit
    BY CountIs
  <2>3. SessionLimit \in Nat /\ HardLimit \in Nat
    BY ParameterAssumption
  <2> QED BY <2>1, <2>2, <2>3
<1>9. Emergency(c) = c
  <2>1. Stored(c) < HardLimit
    BY <1>8
  <2> QED BY <2>1 DEF Emergency
<1>10. room >= Len(all)
  BY <1>1, <1>7, <1>8
<1>11. d = [sps |-> [i \in SpsIds |-> IF <<"sps", i>> \in new THEN source.sps[i] ELSE c.sps[i]],
            pps |-> [i \in PpsIds |-> IF <<"pps", i>> \in new THEN source.pps[i] ELSE c.pps[i]],
            age |-> q, total |-> c.total + Len(all)]
  BY <1>9, <1>10 DEF CopyParameterSetsFrom, s1, s2
<1>12. /\ a1 \in Seq(AllKeys) /\ IsInjective(a1) /\ Members(a1) = Members(c.age) \cap (Members(c.age) \ new)
       /\ Len(a1) <= Len(c.age) /\ Len(a1) \in Nat
  <2>1. a1 \in Seq(AllKeys)
    BY <1>0, LaneType
  <2>2. IsInjective(a1) /\ Members(a1) = Members(c.age) \cap (Members(c.age) \ new)
    BY <1>0, LaneInjects, LaneMembers
  <2>3. Len(a1) <= Len(c.age)
    BY <1>0, LaneLen
  <2> HIDE DEF a1
  <2>4. Len(a1) \in Nat
    BY <2>1
  <2> QED BY <2>1, <2>2, <2>3, <2>4
<1>13. a2 = source.age
  <2>1. Members(source.age) \subseteq new
    BY <1>6
  <2> QED BY <1>1, <2>1, LaneAll
<1> HIDE DEF all, new, a1, a2
<1>14. Members(a1) \cap Members(a2) = {} /\ Members(a1) \cup Members(a2) = Members(c.age) \cup new
  BY <1>6, <1>12, <1>13
<1>15. q \in Seq(AllKeys) /\ IsInjective(q) /\ Members(q) = Members(c.age) \cup new
       /\ Len(q) = Len(a1) + Len(a2)
  <2>1. a2 \in Seq(AllKeys) /\ IsInjective(a2)
    BY <1>1, <1>13
  <2>2. q \in Seq(AllKeys) /\ Len(q) = Len(a1) + Len(a2)
    BY <1>12, <2>1, ConcatProperties
  <2>3. IsInjective(q)
    BY <1>12, <1>14, <2>1, ConcatInjects
  <2>4. Members(q) = Members(a1) \cup Members(a2)
    BY <1>12, <2>1, ConcatMembers
  <2> QED BY <1>14, <2>2, <2>3, <2>4
<1> HIDE DEF q
<1>16. Len(q) <= c.total + Len(all) /\ c.total + Len(all) \in Nat
  BY <1>0, <1>1, <1>7, <1>12, <1>13, <1>15
<1>17. d \in ContextType
  BY <1>0, <1>1, <1>11, <1>15, <1>16 DEF ContextType
<1>18. d.age = q /\ d.total = c.total + Len(all)
       /\ d.sps = [i \in SpsIds |-> IF <<"sps", i>> \in new THEN source.sps[i] ELSE c.sps[i]]
       /\ d.pps = [i \in PpsIds |-> IF <<"pps", i>> \in new THEN source.pps[i] ELSE c.pps[i]]
  BY <1>11
<1> HIDE DEF d
<1>19. \A i : (<<"sps", i>> \in new <=> i \in StoredSps(source)) /\ (<<"pps", i>> \in new <=> i \in StoredPps(source))
  BY <1>1, <1>6 DEF StoredKeys
<1>20. StoredSps(d) = StoredSps(c) \cup StoredSps(source) /\ StoredPps(d) = StoredPps(c) \cup StoredPps(source)
  <2>1. StoredSps(d) = StoredSps(c) \cup StoredSps(source)
    BY <1>18, <1>19 DEF StoredSps, HasSps
  <2>2. StoredPps(d) = StoredPps(c) \cup StoredPps(source)
    BY <1>18, <1>19 DEF StoredPps, HasPps
  <2> QED BY <2>1, <2>2
<1>21. StoredKeys(d) = StoredKeys(c) \cup StoredKeys(source)
  BY <1>20 DEF StoredKeys
<1>22. ContextOK(d)
  BY <1>0, <1>1, <1>6, <1>15, <1>16, <1>17, <1>18, <1>21 DEF ContextOK
<1>23. ASSUME NEW K, Within(c, K), Within(source, K) PROVE Within(d, K)
  <2>1. ASSUME NEW p \in StoredPps(d) PROVE d.pps[p].ref \in K
    <3>1. p \in PpsIds
      BY DEF StoredPps
    <3>2. CASE p \in StoredPps(source)
      BY <1>18, <1>19, <1>23, <3>1, <3>2 DEF Within
    <3>3. CASE p \notin StoredPps(source)
      <4>1. p \in StoredPps(c)
        BY <1>20, <3>3
      <4> QED BY <1>18, <1>19, <1>23, <3>1, <3>3, <4>1 DEF Within
    <3> QED BY <3>2, <3>3
  <2> QED BY <1>20, <1>23, <2>1 DEF Within
<1> QED BY <1>20, <1>22, <1>23 DEF d

-----------------------------------------------------------------------------
\* A GOP of the buffer, and a request under way.
GOPType == [sets : Seq(AnySet), pps : PpsIds]

\* The sets bring and name SPS of K.
Known(sets, K) == Names(sets) \cup Brings(sets) \subseteq K

ExtractingGOPs(g, s, recent, n) == IF n = 0 THEN s ELSE ExtractAll(g[n - 1], recent[n].sets)

LEMMA ExtractingGOPsUpTo ==
  ASSUME NEW s, NEW recent, NEW n \in Nat
  PROVE  \E g : g = [i \in 0..n |-> ExtractingGOPs(g, s, recent, i)]
<1> DEFINE Good == {k \in Nat : \E g : g = [i \in 0..k |-> ExtractingGOPs(g, s, recent, i)]}
<1>1. 0 \in Good
  <2> DEFINE g == [i \in 0..0 |-> s]
  <2>1. g = [i \in 0..0 |-> ExtractingGOPs(g, s, recent, i)]
    BY DEF ExtractingGOPs
  <2> QED BY <2>1
<1>2. ASSUME NEW k \in Nat, k \in Good PROVE k + 1 \in Good
  <2>1. PICK g : g = [i \in 0..k |-> ExtractingGOPs(g, s, recent, i)]
    BY <1>2
  <2> DEFINE h == [i \in 0..(k + 1) |-> ExtractingGOPs(g, s, recent, i)]
  <2>2. \A i \in 0..k : h[i] = g[i]
    BY <2>1
  <2>3. ASSUME NEW i \in 0..(k + 1) PROVE ExtractingGOPs(g, s, recent, i) = ExtractingGOPs(h, s, recent, i)
    <3>1. i # 0 => i - 1 \in 0..k
      OBVIOUS
    <3> HIDE DEF h
    <3> QED BY <2>2, <3>1 DEF ExtractingGOPs
  <2>4. h = [i \in 0..(k + 1) |-> ExtractingGOPs(h, s, recent, i)]
    BY <2>3
  <2> HIDE DEF h
  <2> QED BY <2>4
<1> HIDE DEF Good
<1>3. \A k \in Nat : k \in Good
  BY <1>1, <1>2, SetInduction
<1> QED BY <1>3 DEF Good

LEMMA RecentIs ==
  ASSUME gops \in Seq(GOPType), NEW n \in Nat, n > 0
  PROVE  /\ GetRecentGOPs(n) \in Seq(GOPType)
         /\ \A i \in DOMAIN GetRecentGOPs(n) :
               \E m \in DOMAIN gops : GetRecentGOPs(n)[i] = gops[m]
<1> DEFINE l == Len(gops)
           from == IF l > n THEN l - n + 1 ELSE 1
<1>1. l \in Nat
  OBVIOUS
<1> HIDE DEF l
<1>2. from \in 1..(l + 1) /\ l \in (from - 1)..l
  BY <1>1
<1>3. GetRecentGOPs(n) = SubSeq(gops, from, l)
  BY DEF GetRecentGOPs, l
<1> HIDE DEF from
<1>4. /\ SubSeq(gops, from, l) \in Seq(GOPType) /\ Len(SubSeq(gops, from, l)) = l - from + 1
      /\ \A i \in 1..(l - from + 1) : SubSeq(gops, from, l)[i] = gops[from + i - 1]
  BY <1>2, SubSeqIs DEF l
<1>5. DOMAIN gops = 1..l /\ DOMAIN SubSeq(gops, from, l) = 1..(l - from + 1)
  BY <1>4 DEF l
<1>6. \A i \in 1..(l - from + 1) : from + i - 1 \in 1..l
  BY <1>1, <1>2
<1> QED
  BY <1>3, <1>4, <1>5, <1>6

\* the loop of extractParameterSetsFromGOPForFrame
AllExtracted(s, recent) ==
  LET done[n \in 0..Len(recent)] ==
        IF n = 0 THEN s ELSE ExtractAll(done[n - 1], recent[n].sets)
  IN  done[Len(recent)]

LEMMA AllExtractedOK ==
  ASSUME NEW s, ContextOK(s), NEW recent \in Seq(GOPType)
  PROVE  /\ ContextOK(AllExtracted(s, recent))
         /\ StoredSps(s) \subseteq StoredSps(AllExtracted(s, recent))
         /\ \A K : Within(s, K) /\ (\A n \in DOMAIN recent : Known(recent[n].sets, K))
                   => Within(AllExtracted(s, recent), K)
<1> DEFINE l == Len(recent)
           g == CHOOSE h : h = [i \in 0..l |-> ExtractingGOPs(h, s, recent, i)]
<1>1. AllExtracted(s, recent) = g[l]
  BY DEF AllExtracted, ExtractingGOPs
<1>2. l \in Nat
  OBVIOUS
<1>3. g = [i \in 0..l |-> ExtractingGOPs(g, s, recent, i)]
  BY <1>2, ExtractingGOPsUpTo
<1> HIDE DEF g
<1> DEFINE Fits(k, K) == Within(s, K) /\ (\A n \in DOMAIN recent : Known(recent[n].sets, K))
                         => Within(g[k], K)
           Fine(k) == ContextOK(g[k]) /\ StoredSps(s) \subseteq StoredSps(g[k]) /\ \A K : Fits(k, K)
           Good == {k \in Nat : k <= l => Fine(k)}
<1>4. 0 \in Good
  <2>1. 0 \in 0..l
    BY <1>2
  <2>2. g[0] = s
    BY <1>3, <2>1 DEF ExtractingGOPs
  <2>3. Fine(0)
    BY <2>2
  <2> HIDE DEF Fine
  <2> QED BY <2>3
<1>5. ASSUME NEW k \in Nat, k \in Good PROVE k + 1 \in Good
  <2> SUFFICES ASSUME k + 1 <= l PROVE Fine(k + 1)
    OBVIOUS
  <2>1. k + 1 \in 0..l /\ k + 1 \in 1..l /\ (k + 1) - 1 = k /\ k + 1 # 0 /\ k <= l
    BY <1>2
  <2>2. g[k + 1] = ExtractingGOPs(g, s, recent, k + 1)
    BY <1>3, <2>1
  <2>3. Fine(k)
    BY <1>5, <2>1
  <2>4. recent[k + 1] \in GOPType /\ k + 1 \in DOMAIN recent
    BY <2>1
  <2>5. recent[k + 1].sets \in Seq(AnySet)
    BY <2>4 DEF GOPType
  <2>6. g[k + 1] = ExtractAll(g[k], recent[k + 1].sets)
    BY <2>1, <2>2 DEF ExtractingGOPs
  <2>7. /\ ContextOK(g[k + 1]) /\ StoredSps(g[k]) \subseteq StoredSps(g[k + 1])
        /\ \A K : Within(g[k], K) /\ Known(recent[k + 1].sets, K) => Within(g[k + 1], K)
    BY <2>3, <2>5, <2>6, ExtractOK DEF Known
  <2>8. \A K : Fits(k + 1, K)
    BY <2>3, <2>4, <2>7
  <2> QED BY <2>3, <2>7, <2>8
<1> HIDE DEF Good
<1>6. l \in Good
  BY <1>2, <1>4, <1>5, SetInduction
<1>7. Fine(l)
  BY <1>2, <1>6 DEF Good
<1> QED
  BY <1>1, <1>7

LEMMA ExtractGOPsOK ==
  ASSUME NEW s, ContextOK(s), gops \in Seq(GOPType)
  PROVE  /\ ContextOK(ExtractFromGOPs(s))
         /\ StoredSps(s) \subseteq StoredSps(ExtractFromGOPs(s))
         /\ \A K : Within(s, K) /\ (\A n \in DOMAIN gops : Known(gops[n].sets, K))
                   => Within(ExtractFromGOPs(s), K)
<1> DEFINE recent == GetRecentGOPs(2 * Searched)
<1>1. 2 * Searched \in Nat /\ 2 * Searched > 0
  BY ParameterAssumption
<1>2. recent \in Seq(GOPType) /\ \A i \in DOMAIN recent : \E m \in DOMAIN gops : recent[i] = gops[m]
  BY <1>1, RecentIs
<1>3. ExtractFromGOPs(s) = AllExtracted(s, recent)
  BY DEF ExtractFromGOPs, AllExtracted
<1> HIDE DEF recent
<1> QED
  BY <1>2, <1>3, AllExtractedOK

-----------------------------------------------------------------------------
\* Every SPS that a set names, in the session cache, the GOP buffer's context or a
\* GOP, is in the session cache: s and b are the contexts, g and u the GOPs.
InOrder(s, b, g, u) ==
  /\ Within(s, StoredSps(s)) /\ Within(b, StoredSps(s))
  /\ \A n \in DOMAIN g : Known(g[n].sets, StoredSps(s))
  /\ \A n \in DOMAIN u : Known(u[n].sets, StoredSps(s))

\* What every state of the two contexts satisfies.
ParamInv ==
  /\ ContextOK(sessionCtx) /\ ContextOK(bufferCtx)
  /\ gops \in Seq(GOPType) /\ building \in Seq(GOPType)
  /\ request # <<>> => request[1].pps \in PpsIds
  /\ orderly => InOrder(sessionCtx, bufferCtx, gops, building)
  /\ AnswerConsistent /\ NoNilSPS

LEMMA CarriedSets == \A sets \in Carried : sets \in Seq(AnySet)
<1>1. <<>> \in Seq(AnySet)
  OBVIOUS
<1>2. \A i \in SpsIds, f \in Configs : SpsSet(i, f) \in AnySet
  BY DEF AnySet
<1>3. \A p \in PpsIds, r \in SpsIds : PpsSet(p, r) \in AnySet
  BY DEF AnySet
<1>4. \A a \in AnySet : <<a>> \in Seq(AnySet)
  OBVIOUS
<1>5. \A a, b \in AnySet : <<a, b>> \in Seq(AnySet)
  OBVIOUS
<1> TAKE sets \in Carried
<1>6. CASE sets = <<>>
  BY <1>1, <1>6
<1>7. ASSUME NEW i \in SpsIds, NEW f \in Configs, sets = <<SpsSet(i, f)>> PROVE sets \in Seq(AnySet)
  BY <1>2, <1>4, <1>7
<1>8. ASSUME NEW p \in PpsIds, NEW i \in SpsIds, sets = <<PpsSet(p, i)>> PROVE sets \in Seq(AnySet)
  BY <1>3, <1>4, <1>8
<1>9. ASSUME NEW i \in SpsIds, NEW f \in Configs, NEW p \in PpsIds, NEW r \in SpsIds,
             sets = <<SpsSet(i, f), PpsSet(p, r)>>
      PROVE  sets \in Seq(AnySet)
  BY <1>2, <1>3, <1>5, <1>9
<1>10. \/ sets = <<>>
       \/ \E i \in SpsIds, f \in Configs : sets = <<SpsSet(i, f)>>
       \/ \E p \in PpsIds, i \in SpsIds : sets = <<PpsSet(p, i)>>
       \/ \E i \in SpsIds, f \in Configs, p \in PpsIds, r \in SpsIds : sets = <<SpsSet(i, f), PpsSet(p, r)>>
  BY DEF Carried
<1> QED
  BY <1>6, <1>7, <1>8, <1>9, <1>10

LEMMA ParamStarts == ParamInit => ParamInv
<1> SUFFICES ASSUME ParamInit PROVE ParamInv
  OBVIOUS
<1>n. StoredSps(NewContext) = {} /\ StoredPps(NewContext) = {}
  BY DEF StoredSps, StoredPps, HasSps, HasPps, NewContext
<1>1. ContextOK(sessionCtx) /\ Within(sessionCtx, StoredSps(sessionCtx))
  <2>1. CASE sessionCtx = NewContext
    BY <1>n, <2>1, NewOK DEF Within
  <2>2. CASE \E i \in SpsIds, f \in Configs, p \in PpsIds :
               sessionCtx = SeedSessionCacheFromTransport(<<SpsSet(i, f), PpsSet(p, i)>>)
    <3>1. PICK i \in SpsIds, f \in Configs, p \in PpsIds :
               sessionCtx = SeedSessionCacheFromTransport(<<SpsSet(i, f), PpsSet(p, i)>>)
      BY <2>2
    <3> DEFINE sets == <<SpsSet(i, f), PpsSet(p, i)>>
    <3>2. SpsSet(i, f) \in AnySet /\ PpsSet(p, i) \in AnySet
      BY DEF AnySet
    <3>3. sets \in Seq(AnySet)
      BY <3>2
    <3>4. sessionCtx = CopyParameterSetsFrom(NewContext, ExtractAll(NewContext, sets))
      BY <3>1 DEF SeedSessionCacheFromTransport, ParameterSetExtractor
    <3> HIDE DEF sets
    <3>n. Names(sets) \cup Brings(sets) \subseteq {i} /\ i \in Brings(sets)
      BY DEF Names, Brings, sets, SpsSet, PpsSet
    <3>w. Within(NewContext, {i})
      BY <1>n DEF Within
    <3> DEFINE c1 == ExtractAll(NewContext, sets)
               c2 == CopyParameterSetsFrom(NewContext, c1)
    <3>5. ContextOK(c1) /\ StoredSps(c1) = {i} /\ Within(c1, {i})
      BY <1>n, <3>3, <3>n, <3>w, NewOK, ExtractOK
    <3> HIDE DEF c1
    <3>6. ContextOK(c2) /\ StoredSps(c2) = {i} /\ Within(c2, {i})
      BY <1>n, <3>5, <3>w, NewOK, CopyOK
    <3> QED BY <3>4, <3>6 DEF c1
  <2> QED BY <2>1, <2>2 DEF ParamInit
<1>2. ContextOK(bufferCtx)
  BY NewOK DEF ParamInit
<1>3. gops = <<>> /\ building = <<>>
  BY DEF ParamInit
<1>4. gops \in Seq(GOPType) /\ building \in Seq(GOPType)
  BY <1>3
<1>5. AnswerConsistent /\ NoNilSPS /\ request = <<>>
  BY DEF ParamInit, Answer, AnswerConsistent, NoNilSPS
<1>6. InOrder(sessionCtx, bufferCtx, gops, building)
  <2>1. bufferCtx = NewContext /\ DOMAIN gops = {} /\ DOMAIN building = {}
    BY <1>3 DEF ParamInit
  <2> QED BY <1>n, <1>1, <2>1 DEF InOrder, Within
<1> QED
  BY <1>1, <1>2, <1>4, <1>5, <1>6 DEF ParamInv

LEMMA KeyframeKeeps ==
  ASSUME ParamInv, NEW sets \in Carried, NEW p \in PpsIds, Keyframe(sets, p)
  PROVE  ParamInv'
<1> DEFINE s1 == ExtractAll(sessionCtx, sets)
           buf == IF building = <<>> THEN bufferCtx ELSE ExtractAll(bufferCtx, building[1].sets)
           g1 == IF building = <<>> THEN gops ELSE Append(gops, building[1])
           full == Len(g1) > MaxGOPs
           gop == [sets |-> sets, pps |-> p]
<1>1. ContextOK(sessionCtx) /\ ContextOK(bufferCtx) /\ gops \in Seq(GOPType) /\ building \in Seq(GOPType)
  BY DEF ParamInv
<1>2. sets \in Seq(AnySet)
  BY CarriedSets
<1>3. building # <<>> => building[1] \in GOPType
  BY <1>1
<1>4. building # <<>> => building[1].sets \in Seq(AnySet)
  BY <1>3 DEF GOPType
<1>5. ContextOK(s1)
  BY <1>1, <1>2, ExtractOK
<1>6. ContextOK(buf)
  BY <1>1, <1>4, ExtractOK
<1>7. g1 \in Seq(GOPType)
  BY <1>1, <1>3, AppendProperties
<1>8. gop \in GOPType
  BY <1>2 DEF GOPType
<1>9. /\ building' = <<gop>> /\ bufferCtx' = buf /\ gops' = IF full THEN Tail(g1) ELSE g1
      /\ sessionCtx' = IF full THEN OnGOPBufferDrop(s1, buf) ELSE s1
      /\ answer' = answer /\ request' = request
      /\ orderly' = (orderly /\ Names(sets) \subseteq StoredSps(sessionCtx) \cup Brings(sets))
  BY DEF Keyframe
<1>k. ASSUME orderly' PROVE InOrder(sessionCtx', bufferCtx', gops', building')
  <2>1. orderly /\ Names(sets) \subseteq StoredSps(sessionCtx) \cup Brings(sets)
    BY <1>9, <1>k
  <2> DEFINE K == StoredSps(sessionCtx) \cup Brings(sets)
  <2>2. InOrder(sessionCtx, bufferCtx, gops, building)
    BY <2>1 DEF ParamInv
  <2>3. /\ Within(sessionCtx, K) /\ Within(bufferCtx, K)
        /\ \A n \in DOMAIN gops : Known(gops[n].sets, K)
        /\ \A n \in DOMAIN building : Known(building[n].sets, K)
    BY <2>2 DEF InOrder, Within, Known
  <2>4. Known(sets, K)
    BY <2>1 DEF Known
  <2>5. StoredSps(s1) = K /\ Within(s1, K)
    BY <1>1, <1>2, <2>3, <2>4, ExtractOK DEF Known
  <2>6. Within(buf, K)
    <3>1. CASE building = <<>>
      BY <2>3, <3>1
    <3>2. CASE building # <<>>
      <4>1. 1 \in DOMAIN building
        BY <1>1, <3>2
      <4> QED BY <1>1, <1>4, <2>3, <3>2, <4>1, ExtractOK DEF Known
    <3> QED BY <3>1, <3>2
  <2>7. \A n \in DOMAIN g1 : Known(g1[n].sets, K)
    <3>1. CASE building = <<>>
      BY <2>3, <3>1
    <3>2. CASE building # <<>>
      <4>1. 1 \in DOMAIN building
        BY <1>1, <3>2
      <4>2. g1 = Append(gops, building[1]) /\ Known(building[1].sets, K)
        BY <2>3, <3>2, <4>1
      <4>3. \A n \in DOMAIN g1 : (n \in DOMAIN gops /\ g1[n] = gops[n]) \/ g1[n] = building[1]
        BY <1>1, <1>3, <3>2, <4>2, AppendProperties
      <4> QED BY <2>3, <4>2, <4>3
    <3> QED BY <3>1, <3>2
  <2> HIDE DEF s1, buf, g1, K
  <2>8. \A n \in DOMAIN gops' : Known(gops'[n].sets, K)
    <3>1. CASE ~full
      BY <1>9, <2>7, <3>1
    <3>2. CASE full
      <4>1. Len(g1) \in Nat /\ Len(g1) > 0 /\ DOMAIN g1 = 1..Len(g1)
        <5>1. MaxGOPs \in Nat
          BY ParameterAssumption
        <5> QED BY <1>7, <3>2, <5>1
      <4>2. gops' = Tail(g1) /\ g1 # <<>>
        BY <1>9, <3>2, <4>1
      <4>3. \A n \in DOMAIN gops' : n + 1 \in DOMAIN g1 /\ gops'[n] = g1[n + 1]
        BY <1>7, <4>1, <4>2
      <4> QED BY <2>7, <4>3
    <3> QED BY <3>1, <3>2
  <2>9. StoredSps(sessionCtx') = K /\ Within(sessionCtx', K)
    <3>1. CASE ~full
      BY <1>9, <2>5, <3>1
    <3>2. CASE full
      <4>1. /\ StoredSps(CopyParameterSetsFrom(s1, buf)) = K
            /\ Within(CopyParameterSetsFrom(s1, buf), K)
        <5>1. StoredSps(buf) \subseteq K
          BY <2>6 DEF Within
        <5> QED BY <1>5, <1>6, <2>5, <2>6, <5>1, CopyOK
      <4> QED BY <1>9, <2>5, <3>2, <4>1 DEF OnGOPBufferDrop
    <3> QED BY <3>1, <3>2
  <2>10. \A n \in DOMAIN building' : Known(building'[n].sets, K)
    <3>1. DOMAIN building' = {1} /\ building'[1].sets = sets
      BY <1>9
    <3> QED BY <2>4, <3>1
  <2> QED BY <1>9, <2>6, <2>8, <2>9, <2>10 DEF InOrder
<1> HIDE DEF s1, buf, g1, gop
<1>10. ContextOK(OnGOPBufferDrop(s1, buf))
  BY <1>5, <1>6, CopyOK DEF OnGOPBufferDrop
<1>11. gops' \in Seq(GOPType)
  <2>1. full => g1 # <<>>
    <3>1. MaxGOPs \in Nat
      BY ParameterAssumption
    <3>2. Len(<<>>) = 0
      OBVIOUS
    <3> QED BY <3>1, <3>2
  <2>2. g1 # <<>> => Tail(g1) \in Seq(GOPType)
    BY <1>7
  <2> HIDE DEF full
  <2> QED BY <1>7, <1>9, <2>1, <2>2
<1>12. building' \in Seq(GOPType)
  BY <1>8, <1>9
<1>13. ContextOK(sessionCtx') /\ ContextOK(bufferCtx')
  BY <1>5, <1>6, <1>9, <1>10
<1>14. AnswerConsistent' /\ NoNilSPS' /\ (request # <<>> => request[1].pps \in PpsIds)'
  BY <1>9 DEF ParamInv, AnswerConsistent, NoNilSPS
<1>16. (orderly => InOrder(sessionCtx, bufferCtx, gops, building))'
  BY <1>k DEF InOrder, Within, Known, Names, Brings, StoredSps, StoredPps, HasSps, HasPps
<1>15. ContextOK(sessionCtx)' /\ ContextOK(bufferCtx)'
  BY <1>13 DEF ContextOK, ContextType, StoredKeys, StoredSps, StoredPps, HasSps, HasPps
<1> QED
  BY <1>11, <1>12, <1>14, <1>15, <1>16 DEF ParamInv

LEMMA AnswerKeeps == ParamInv /\ AnswerRequest => AnswerConsistent' /\ NoNilSPS'
<1> SUFFICES ASSUME ParamInv, AnswerRequest PROVE AnswerConsistent' /\ NoNilSPS'
  OBVIOUS
<1> DEFINE p == request[1].pps
           why == request[1].lacked
<1>1. /\ answer'.lacked = why /\ orderly' = orderly
      /\ answer'.sent = IF why = "nothing" THEN GenerateDecodableStream(sessionCtx, p)
                                           ELSE GenerateBestEffortStream(sessionCtx, p)
  BY DEF AnswerRequest
<1>p. p \in PpsIds
  BY DEF AnswerRequest, ParamInv
<1> HIDE DEF p, why
<1>2. \A k : Answer(k).kind = k
  BY DEF Answer
<1>3. CASE why = "nothing"
  <2>1. answer'.sent = GenerateDecodableStream(sessionCtx, p)
    BY <1>1, <1>3
  <2>2. AnswerConsistent'
    BY <1>2, <2>1 DEF GenerateDecodableStream, Unit, AnswerConsistent
  <2>3. ASSUME orderly PROVE GenerateDecodableStream(sessionCtx, p).kind # "crash"
    <3>1. Within(sessionCtx, StoredSps(sessionCtx))
      BY <2>3 DEF ParamInv, InOrder
    <3>2. HasPps(sessionCtx, p) => HasSps(sessionCtx, sessionCtx.pps[p].ref)
      BY <1>p, <3>1 DEF Within, StoredPps, StoredSps
    <3> QED BY <1>2, <3>2 DEF GenerateDecodableStream, CanDecodeFrame, Unit
  <2>4. NoNilSPS'
    BY <1>1, <2>1, <2>3 DEF NoNilSPS
  <2> QED BY <2>2, <2>4
<1>4. CASE why # "nothing"
  <2>1. answer'.sent = GenerateBestEffortStream(sessionCtx, p)
    BY <1>1, <1>4
  <2>2. GenerateBestEffortStream(sessionCtx, p).kind # "crash"
    <3> DEFINE sps == CreateRemappedSPS(sessionCtx, CHOOSE i \in BestPair(sessionCtx) : TRUE)
               sent == GenerateBestEffortStream(sessionCtx, p)
    <3>1. \/ \E k \in {"error", "all sets"} : sent = Answer(k)
          \/ sent = Unit(sessionCtx, sessionCtx.pps[p].ref, p)
          \/ sent = [kind |-> "stream", sps |-> sps.id, cfg |-> sps.cfg, ref |-> CreateRemappedPPS.says]
      BY DEF GenerateBestEffortStream
    <3> HIDE DEF sent, sps
    <3>u. Unit(sessionCtx, sessionCtx.pps[p].ref, p).kind = "stream"
      BY DEF Unit
    <3>2. sent.kind \in {"error", "all sets", "stream"}
      <4>1. CASE sent = Answer("error") \/ sent = Answer("all sets")
        BY <1>2, <4>1
      <4>2. CASE sent = Unit(sessionCtx, sessionCtx.pps[p].ref, p)
        BY <3>u, <4>2
      <4>3. CASE sent = [kind |-> "stream", sps |-> sps.id, cfg |-> sps.cfg, ref |-> CreateRemappedPPS.says]
        <5>1. sent.kind = "stream"
          BY <4>3
        <5> QED BY <5>1
      <4> QED BY <3>1, <4>1, <4>2, <4>3
    <3> QED BY <3>2 DEF sent
  <2> QED BY <1>1, <1>4, <2>1, <2>2 DEF AnswerConsistent, NoNilSPS
<1> QED BY <1>3, <1>4

LEMMA ParamSteps == ParamInv /\ [ParamNext]_paramVars => ParamInv'
<1> SUFFICES ASSUME ParamInv, [ParamNext]_paramVars PROVE ParamInv'
  OBVIOUS
<1>0. ContextOK(sessionCtx) /\ gops \in Seq(GOPType)
  BY DEF ParamInv
<1> DEFINE Rest == gops' = gops /\ building' = building /\ bufferCtx' = bufferCtx
           Kept == orderly' => InOrder(sessionCtx', bufferCtx, gops, building)
           Asked == request' # <<>> => request'[1].pps \in PpsIds
<1>1. ASSUME NEW sets \in Carried, NEW p \in PpsIds, Keyframe(sets, p) PROVE ParamInv'
  BY <1>1, KeyframeKeeps
<1>2. ASSUME Rest, Kept, Asked, AnswerConsistent', NoNilSPS', ContextOK(sessionCtx') PROVE ParamInv'
  BY <1>2 DEF ParamInv
<1>3. CASE EnforceSessionCacheLimits
  <2>1. sessionCtx.total \div 2 \in Nat
    <3>1. sessionCtx.total \in Nat
      BY <1>0 DEF ContextOK, ContextType
    <3> QED BY <3>1
  <2>2. ContextOK(sessionCtx')
    BY <1>0, <1>3, <2>1, ClearOK DEF EnforceSessionCacheLimits
  <2>3. Rest /\ Kept /\ Asked /\ AnswerConsistent' /\ NoNilSPS'
    BY <1>3 DEF EnforceSessionCacheLimits, ParamInv, AnswerConsistent, NoNilSPS
  <2> QED BY <1>2, <2>2, <2>3
<1>4. CASE GetLatestIFrameWithSessionContext
  <2>1. sessionCtx' = sessionCtx \/ sessionCtx' = ExtractFromGOPs(sessionCtx)
    BY <1>4 DEF GetLatestIFrameWithSessionContext
  <2>2. ContextOK(sessionCtx')
    BY <1>0, <2>1, ExtractGOPsOK
  <2>3. Rest /\ AnswerConsistent' /\ NoNilSPS' /\ orderly' = orderly /\ gops # <<>>
    BY <1>4 DEF GetLatestIFrameWithSessionContext, ParamInv, AnswerConsistent, NoNilSPS
  <2>4. Kept
    <3> SUFFICES ASSUME orderly PROVE InOrder(sessionCtx', bufferCtx, gops, building)
      BY <2>3
    <3>1. InOrder(sessionCtx, bufferCtx, gops, building)
      BY DEF ParamInv
    <3>2. CASE sessionCtx' = sessionCtx
      BY <3>1, <3>2
    <3>3. CASE sessionCtx' = ExtractFromGOPs(sessionCtx)
      <4>1. PICK K : K = StoredSps(sessionCtx)
        OBVIOUS
      <4>2. Within(sessionCtx', K) /\ K \subseteq StoredSps(sessionCtx')
        BY <1>0, <3>1, <3>3, <4>1, ExtractGOPsOK DEF InOrder
      <4>3. StoredSps(sessionCtx') = K
        BY <4>2 DEF Within
      <4> QED BY <3>1, <4>1, <4>2, <4>3 DEF InOrder
    <3> QED BY <2>1, <3>2, <3>3
  <2>5. Asked
    <3> DEFINE recent == GetRecentGOPs(Searched)
               usable == {n \in DOMAIN recent : CanDecodeFrame(sessionCtx, recent[n].pps)}
               first == CHOOSE n \in usable : \A m \in usable : n <= m
    <3>1. Searched \in Nat /\ Searched > 0
      BY ParameterAssumption
    <3>2. recent \in Seq(GOPType)
      BY <1>0, <3>1, RecentIs
    <3>g. \A g \in GOPType : g.pps \in PpsIds
      BY DEF GOPType
    <3>3. \A n \in DOMAIN recent : recent[n].pps \in PpsIds
      <4> HIDE DEF recent
      <4>1. \A n \in DOMAIN recent : recent[n] \in GOPType
        BY <3>2
      <4> QED BY <3>g, <4>1
    <3>4. gops[Len(gops)].pps \in PpsIds
      <4>1. Len(gops) \in DOMAIN gops
        BY <1>0, <2>3
      <4>2. gops[Len(gops)] \in GOPType
        BY <1>0, <4>1
      <4> QED BY <3>g, <4>2
    <3>5. \/ usable # {} /\ request'[1].pps = recent[first].pps
          \/ request'[1].pps = gops[Len(gops)].pps
      BY <1>4 DEF GetLatestIFrameWithSessionContext
    <3>6. usable # {} => first \in DOMAIN recent
      <4> SUFFICES ASSUME usable # {} PROVE first \in usable
        OBVIOUS
      <4>1. usable \in SUBSET Nat
        BY <3>2
      <4> HIDE DEF usable
      <4>2. \E n \in usable : \A m \in usable : n <= m
        BY <4>1, LeastExists
      <4> QED BY <4>2
    <3> HIDE DEF recent, usable, first
    <3> QED BY <3>3, <3>4, <3>5, <3>6
  <2> QED BY <1>2, <2>2, <2>3, <2>4, <2>5
<1>5. CASE AnswerRequest
  <2>1. AnswerConsistent' /\ NoNilSPS'
    BY <1>5, AnswerKeeps
  <2>2. Rest /\ sessionCtx' = sessionCtx /\ orderly' = orderly /\ request' = <<>>
    BY <1>5 DEF AnswerRequest
  <2>3. Kept /\ Asked
    BY <2>2 DEF ParamInv
  <2> QED BY <1>0, <1>2, <2>1, <2>2, <2>3
<1>6. CASE CleanupSessionCache
  <2>1. /\ Rest /\ sessionCtx' = NewContext /\ AnswerConsistent' /\ NoNilSPS'
        /\ Kept /\ Asked
    BY <1>6 DEF CleanupSessionCache, ParamInv, AnswerConsistent, NoNilSPS
  <2>2. ContextOK(sessionCtx')
    BY <2>1, NewOK
  <2> QED BY <1>2, <2>1, <2>2
<1>7. CASE UNCHANGED paramVars
  <2>1. /\ Rest /\ sessionCtx' = sessionCtx /\ AnswerConsistent' /\ NoNilSPS'
        /\ Kept /\ Asked
    BY <1>7 DEF paramVars, ParamInv, AnswerConsistent, NoNilSPS
  <2> QED BY <1>0, <1>2, <2>1
<1>8. CASE CheckRequest
  <2>1. /\ Rest /\ sessionCtx' = sessionCtx /\ AnswerConsistent' /\ NoNilSPS'
        /\ Kept
    BY <1>8 DEF CheckRequest, ParamInv, AnswerConsistent, NoNilSPS
  <2>2. Asked
    BY <1>8 DEF CheckRequest, ParamInv
  <2> QED BY <1>0, <1>2, <2>1, <2>2
<1> QED
  BY <1>1, <1>3, <1>4, <1>5, <1>6, <1>7, <1>8 DEF ParamNext

LEMMA CountsAreSound == ParamInv => ParametersSound
<1> SUFFICES ASSUME ParamInv PROVE ParametersSound
  OBVIOUS
<1>1. ASSUME NEW c, ContextOK(c)
      PROVE /\ Stored(c) <= c.total /\ IsInjective(c.age)
            /\ Members(c.age) = {<<"sps", i>> : i \in StoredSps(c)} \cup {<<"pps", i>> : i \in StoredPps(c)}
  <2>1. Stored(c) = Len(c.age)
    BY <1>1, CountIs
  <2> QED BY <1>1, <2>1 DEF ContextOK, StoredKeys
<1>2. SizeCounted
  BY <1>1 DEF SizeCounted, ParamInv
<1> QED
  BY <1>2 DEF ParametersSound, ParamInv

\* Whatever keyframes, evictions, copies and requests do to them, the session
\* cache and the GOP buffer's context count what they store, a stream for a frame
\* that could be decoded starts on the SPS its PPS names, and as long as each PPS
\* names an SPS that has come and nothing is evicted, no request meets a nil SPS.
THEOREM Parameters_Sound == ParamSpec => []ParametersSound
<1>1. ParamInit => ParamInv
  BY ParamStarts
<1>2. ParamInv /\ [ParamNext]_paramVars => ParamInv'
  BY ParamSteps
<1>3. ParamInv => ParametersSound
  BY CountsAreSound
<1> QED
  BY <1>1, <1>2, <1>3, PTL DEF ParamSpec
=============================================================================
