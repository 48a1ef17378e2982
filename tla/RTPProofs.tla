------------------------------ MODULE RTPProofs -------------------------------
(***************************************************************************)
(* RTP for any number of sources, sessions and packets and any limits: the *)
(* listener's slots and bandwidth belong to its sessions exactly, and the  *)
(* depacketizers hand on nothing but units of the sender, and all of them  *)
(* when no packet is lost; and the assembler, here and behind SRT, makes   *)
(* frames of one picture each.                                             *)
(***************************************************************************)
EXTENDS RTPSessions, Depacketizer, FrameDetectors, CommonLemmas

-----------------------------------------------------------------------------
(* The listener's sessions                                                 *)

AtWork == {"serving", "leaving", "freeing"}
Admitting == {"acquire", "allocate", "create", "insert"}

Charged == {i \in Ids : sessSlots[i] = 1}

SessShape ==
  /\ made \in 0..MaxSessions
  /\ table \in [Keys -> {0} \cup Ids] /\ keyOf \in [Ids -> {NoKey} \cup Keys]
  /\ sessSlots \in [Ids -> {0, 1}]
  /\ slotTotal = Cardinality(Charged)
  /\ life \in [Ids -> {"none", "live", "stopped"}]
  /\ hand \in [Ids -> {"none", "gone"} \cup AtWork]
  /\ freed \subseteq Ids

\* The router has read a packet, or holds a key and a session's number.
RouterOK ==
  \/ router = AtRead
  \/ router \in [at : {"forward"} \cup Admitting, key : Keys, id : 1..made]

\* A session enters the table once, under the key its goroutine knows.
TableOK ==
  \A k \in Keys : table[k] # 0 =>
    keyOf[table[k]] = k /\ hand[table[k]] \in {"serving", "leaving"}

\* A number nobody has been given is nobody's; one under admission is only the
\* router's, charged from the acquisition of the slot on.
FreshOK ==
  \A i \in Ids : i > made \/ (router.at \in Admitting /\ router.id = i) =>
    /\ hand[i] = "none" /\ i \notin freed
    /\ sessSlots[i] = IF InAdmission(i) THEN 1 ELSE 0

\* A running goroutine knows its key; its session is charged as long as it is
\* live, and only as long as the goroutine has not freed it.
HandOK ==
  \A i \in Ids :
    /\ hand[i] \in AtWork => keyOf[i] \in Keys
    /\ hand[i] = "serving" /\ life[i] = "live" => sessSlots[i] = 1
    /\ hand[i] \in {"leaving", "freeing"} => life[i] = "stopped"
    /\ i \in freed => life[i] = "stopped" /\ sessSlots[i] = 0
    /\ sessSlots[i] = 1 => InAdmission(i) \/ hand[i] \in AtWork

AllocOK == alloc = {i \in Charged : ~(router.at = "allocate" /\ router.id = i)}

SessInv == SessShape /\ RouterOK /\ TableOK /\ FreshOK /\ HandOK /\ AllocOK

USE SessionsAssumption

LEMMA ChargedFinite == IsFiniteSet(Charged) /\ Cardinality(Charged) \in Nat
<1>1. IsFiniteSet(Ids)
  BY FS_Interval DEF Ids
<1> QED
  BY <1>1, FS_Subset, FS_CardinalityType DEF Charged

\* Releasing counts the slots it really takes back.
LEMMA ReleaseExact ==
  ASSUME SessShape, NEW S \in SUBSET Ids, ReleaseSlots(S)
  PROVE  /\ sessSlots' = [i \in Ids |-> IF i \in S THEN 0 ELSE sessSlots[i]]
         /\ Charged' = Charged \ S
         /\ slotTotal' = Cardinality(Charged')
<1> DEFINE taken == {i \in S : sessSlots[i] > 0}
<1>1. sessSlots' = [i \in Ids |-> IF i \in S THEN 0 ELSE sessSlots[i]]
  BY DEF ReleaseSlots, SessShape
<1>2. Charged' = Charged \ S /\ taken = Charged \cap S
  BY <1>1 DEF Charged, SessShape
<1>3. Cardinality(Charged \ S) = Cardinality(Charged) - Cardinality(Charged \cap S)
  BY ChargedFinite, FS_Difference
<1>4. slotTotal' = slotTotal - Cardinality(taken)
  BY DEF ReleaseSlots
<1> QED
  BY <1>1, <1>2, <1>3, <1>4 DEF SessShape

\* TryAcquire counts a slot that nobody had.
LEMMA AcquireExact ==
  ASSUME SessShape, NEW i \in Ids, sessSlots[i] = 0,
         sessSlots' = [sessSlots EXCEPT ![i] = @ + 1], slotTotal' = slotTotal + 1
  PROVE  /\ sessSlots' \in [Ids -> {0, 1}]
         /\ Charged' = Charged \cup {i}
         /\ slotTotal' = Cardinality(Charged')
<1>1. sessSlots' \in [Ids -> {0, 1}] /\ Charged' = Charged \cup {i} /\ i \notin Charged
  BY DEF Charged, SessShape
<1>2. Cardinality(Charged \cup {i}) = Cardinality(Charged) + 1
  BY <1>1, ChargedFinite, FS_AddElement
<1> QED
  BY <1>1, <1>2 DEF SessShape

LEMMA SameSlots ==
  ASSUME SessShape, UNCHANGED <<sessSlots, slotTotal>>
  PROVE  Charged' = Charged /\ slotTotal' = Cardinality(Charged')
BY DEF Charged, SessShape

\* The second look at the table: the session is dropped, with its slot, or gets
\* its entry and its goroutine.
LEMMA InsertKeeps == ASSUME SessInv, InsertSession PROVE SessInv'
<1> DEFINE id == router.id
           k  == router.key
<1>1. /\ router.at = "insert" /\ id \in Ids /\ id <= made /\ k \in Keys
      /\ router = [at |-> "insert", key |-> k, id |-> id]
  BY DEF InsertSession, SessInv, SessShape, RouterOK, Admitting, AtRead, Ids
<1>2. hand[id] = "none" /\ id \notin freed /\ sessSlots[id] = 1
  BY <1>1 DEF SessInv, FreshOK, Admitting, InAdmission
<1>3. UNCHANGED <<made, freed>>
  BY DEF InsertSession
<1>4. CASE table[k] # 0
  <2>1. /\ UNCHANGED <<table, keyOf, hand>> /\ alloc' = alloc \ {id}
        /\ life' = [i \in Ids |-> IF i = id THEN "stopped" ELSE life[i]]
    BY <1>4 DEF InsertSession, StopAll, ReleaseAll
  <2>2. /\ sessSlots' = [i \in Ids |-> IF i \in {id} THEN 0 ELSE sessSlots[i]]
        /\ Charged' = Charged \ {id} /\ slotTotal' = Cardinality(Charged')
    <3>1. ReleaseSlots({id}) /\ SessShape
      BY <1>4 DEF InsertSession, ReleaseAll, SessInv
    <3> QED
      BY <1>1, <3>1, ReleaseExact
  <2>3. router' = [at |-> "forward", key |-> k, id |-> table[k]]
    <3>1. router' = [router EXCEPT !.at = "forward", !.id = table[k]]
      BY <1>4 DEF InsertSession
    <3> QED
      BY <1>1, <3>1
  <2>4. table[k] \in 1..made
    <3>1. table[k] \in Ids /\ hand[table[k]] # "none" /\ made \in Nat
      BY <1>1, <1>4 DEF SessInv, SessShape, TableOK
    <3> QED
      BY <3>1 DEF SessInv, FreshOK, Ids
  <2>5. SessShape'
    BY <1>1, <1>3, <2>1, <2>2 DEF SessInv, SessShape
  <2>6. RouterOK' /\ TableOK'
    BY <1>1, <1>3, <2>1, <2>3, <2>4 DEF SessInv, RouterOK, TableOK
  <2>7. FreshOK'
    BY <1>1, <1>2, <1>3, <2>1, <2>2, <2>3 DEF SessInv, FreshOK, Admitting, InAdmission
  <2>8. HandOK'
    BY <1>1, <1>2, <1>3, <2>1, <2>2, <2>3 DEF SessInv, HandOK, SessShape, InAdmission, AtWork
  <2>9. AllocOK'
    BY <1>1, <2>1, <2>2, <2>3 DEF SessInv, AllocOK
  <2> QED
    BY <2>5, <2>6, <2>7, <2>8, <2>9 DEF SessInv
<1>5. CASE table[k] = 0
  <2>1. /\ table' = [table EXCEPT ![k] = id] /\ keyOf' = [keyOf EXCEPT ![id] = k]
        /\ hand' = [hand EXCEPT ![id] = "serving"] /\ UNCHANGED <<sessSlots, slotTotal, alloc, life>>
    BY <1>5 DEF InsertSession, limits
  <2>2. Charged' = Charged /\ slotTotal' = Cardinality(Charged')
    BY <2>1, SameSlots DEF SessInv
  <2>3. router' = [at |-> "forward", key |-> k, id |-> id]
    <3>1. router' = [router EXCEPT !.at = "forward"]
      BY <1>5 DEF InsertSession
    <3> QED
      BY <1>1, <3>1
  <2>4. SessShape'
    BY <1>1, <1>3, <2>1, <2>2 DEF SessInv, SessShape, AtWork
  <2>5. RouterOK' /\ TableOK'
    BY <1>1, <1>2, <1>3, <2>1, <2>3 DEF SessInv, SessShape, RouterOK, TableOK, Ids
  <2>6. FreshOK'
    BY <1>1, <1>2, <1>3, <2>1, <2>3 DEF SessInv, SessShape, FreshOK, Admitting, InAdmission, Ids
  <2>7. HandOK'
    BY <1>1, <1>2, <1>3, <2>1, <2>3 DEF SessInv, HandOK, SessShape, InAdmission, AtWork
  <2>8. AllocOK'
    BY <1>1, <2>1, <2>2, <2>3 DEF SessInv, AllocOK
  <2> QED
    BY <2>4, <2>5, <2>6, <2>7, <2>8 DEF SessInv
<1> QED
  BY <1>4, <1>5

\* Admission: the slot, the bandwidth, the session, the entry in the table.
LEMMA AdmissionKeeps == ASSUME SessInv, RouterStep PROVE SessInv'
<1> USE DEF SessInv, SessShape, RouterOK, TableOK, FreshOK, HandOK, AllocOK, InAdmission,
            AtWork, Admitting, AtRead, Ids, limits
<1>0. /\ router.at \in {"forward"} \cup Admitting
      /\ router.id \in Ids /\ router.id <= made /\ router.key \in Keys
      /\ router \in [at : {"forward"} \cup Admitting, key : Keys, id : 1..made]
  BY DEF RouterStep, AcquireSlot, AllocateBandwidth, NewSession, InsertSession, Forward
<1>1. CASE AcquireSlot /\ slotTotal < SlotLimit /\ sessSlots[router.id] < PerStreamSlots
  <2>1. /\ sessSlots[router.id] = 0 /\ router.id \in Ids /\ router' = [router EXCEPT !.at = "allocate"]
        /\ sessSlots' = [sessSlots EXCEPT ![router.id] = @ + 1] /\ slotTotal' = slotTotal + 1
    BY <1>0, <1>1 DEF AcquireSlot
  <2>2. /\ sessSlots' \in [Ids -> {0, 1}] /\ Charged' = Charged \cup {router.id}
        /\ slotTotal' = Cardinality(Charged')
    BY <2>1, AcquireExact
  <2>3. SessShape'
    BY <1>0, <1>1, <2>1, <2>2 DEF AcquireSlot
  <2>4. RouterOK' /\ TableOK'
    BY <1>0, <1>1, <2>1, <2>2 DEF AcquireSlot
  <2>5. FreshOK'
    BY <1>0, <1>1, <2>1, <2>2 DEF AcquireSlot
  <2>6. HandOK'
    BY <1>0, <1>1, <2>1, <2>2 DEF AcquireSlot
  <2>7. AllocOK'
    BY <1>0, <1>1, <2>1, <2>2 DEF AcquireSlot, Charged
  <2> QED
    BY <2>3, <2>4, <2>5, <2>6, <2>7
<1>2. CASE AcquireSlot /\ ~(slotTotal < SlotLimit /\ sessSlots[router.id] < PerStreamSlots)
  BY <1>0, <1>2, SameSlots DEF AcquireSlot
<1>3. CASE AllocateBandwidth /\ Cardinality(alloc) < BandwidthUnits
  <2>1. Charged' = Charged /\ slotTotal' = Cardinality(Charged')
    BY <1>3, SameSlots DEF AllocateBandwidth
  <2>2. router'.at = "create" /\ router'.id = router.id /\ RouterOK'
    BY <1>0, <1>3 DEF AllocateBandwidth
  <2>3. SessShape'
    BY <1>0, <1>3, <2>1, <2>2 DEF AllocateBandwidth
  <2>4. RouterOK' /\ TableOK'
    BY <1>0, <1>3, <2>1, <2>2 DEF AllocateBandwidth
  <2>5. FreshOK'
    BY <1>0, <1>3, <2>1, <2>2 DEF AllocateBandwidth
  <2>6. HandOK'
    BY <1>0, <1>3, <2>1, <2>2 DEF AllocateBandwidth
  <2>7. AllocOK'
    BY <1>0, <1>3, <2>1, <2>2 DEF AllocateBandwidth, Charged
  <2> QED
    BY <2>3, <2>4, <2>5, <2>6, <2>7
<1>4. CASE AllocateBandwidth /\ ~(Cardinality(alloc) < BandwidthUnits)
  <2>1. /\ sessSlots' = [j \in Ids |-> IF j \in {router.id} THEN 0 ELSE sessSlots[j]]
        /\ Charged' = Charged \ {router.id} /\ slotTotal' = Cardinality(Charged')
    BY <1>0, <1>4, ReleaseExact DEF AllocateBandwidth
  <2>2. SessShape'
    BY <1>0, <1>4, <2>1 DEF AllocateBandwidth
  <2>3. RouterOK' /\ TableOK'
    BY <1>0, <1>4, <2>1 DEF AllocateBandwidth
  <2>4. FreshOK'
    BY <1>0, <1>4, <2>1 DEF AllocateBandwidth
  <2>5. HandOK'
    BY <1>0, <1>4, <2>1 DEF AllocateBandwidth
  <2>6. AllocOK'
    BY <1>0, <1>4, <2>1 DEF AllocateBandwidth, Charged
  <2> QED
    BY <2>2, <2>3, <2>4, <2>5, <2>6
<1>5. CASE NewSession /\ router'.at = "insert"
  <2>1. Charged' = Charged /\ slotTotal' = Cardinality(Charged')
    BY <1>5, SameSlots DEF NewSession
  <2>2. /\ router'.at = "insert" /\ router'.id = router.id /\ RouterOK' /\ UNCHANGED <<sessSlots, alloc>>
        /\ router.at = "create" /\ life' = [life EXCEPT ![router.id] = "live"]
    BY <1>0, <1>5 DEF NewSession
  <2>3. SessShape'
    BY <1>0, <1>5, <2>1, <2>2 DEF NewSession
  <2>4. RouterOK' /\ TableOK'
    BY <1>0, <1>5, <2>1, <2>2 DEF NewSession
  <2>5. FreshOK'
    BY <1>0, <1>5, <2>1, <2>2 DEF NewSession
  <2>6. HandOK'
    BY <1>0, <1>5, <2>1, <2>2 DEF NewSession
  <2>7. AllocOK'
    BY <1>0, <1>5, <2>1, <2>2 DEF NewSession, Charged
  <2> QED
    BY <2>3, <2>4, <2>5, <2>6, <2>7
<1>6. CASE NewSession /\ ReleaseAll({router.id}) /\ router' = AtRead /\ UNCHANGED life
  <2>1. /\ sessSlots' = [j \in Ids |-> IF j \in {router.id} THEN 0 ELSE sessSlots[j]]
        /\ Charged' = Charged \ {router.id} /\ slotTotal' = Cardinality(Charged')
    BY <1>0, <1>6, ReleaseExact DEF NewSession, ReleaseAll
  <2>2. SessShape'
    BY <1>0, <1>6, <2>1 DEF NewSession, ReleaseAll
  <2>3. RouterOK' /\ TableOK'
    BY <1>0, <1>6, <2>1 DEF NewSession, ReleaseAll
  <2>4. FreshOK'
    BY <1>0, <1>6, <2>1 DEF NewSession, ReleaseAll
  <2>5. HandOK'
    BY <1>0, <1>6, <2>1 DEF NewSession, ReleaseAll
  <2>6. AllocOK'
    BY <1>0, <1>6, <2>1 DEF NewSession, ReleaseAll, Charged
  <2> QED
    BY <2>2, <2>3, <2>4, <2>5, <2>6
<1>7. CASE InsertSession
  BY <1>7, InsertKeeps
<1>8. CASE Forward
  BY <1>8, SameSlots DEF Forward
<1>9. NewSession => router'.at = "insert" \/ (ReleaseAll({router.id}) /\ router' = AtRead /\ UNCHANGED life)
  BY DEF NewSession
<1> QED
  BY <1>1, <1>2, <1>3, <1>4, <1>5, <1>6, <1>7, <1>8, <1>9 DEF RouterStep

\* The goroutine of a session.
LEMMA HandlerKeeps == ASSUME SessInv, NEW i \in Ids, HandlerStep(i) \/ HandlerReturns(i) PROVE SessInv'
<1> USE DEF SessInv, SessShape, RouterOK, TableOK, FreshOK, HandOK, AllocOK, InAdmission,
            AtWork, Admitting, AtRead, Ids, limits
<1>1. CASE HandlerReturns(i)
  BY <1>1, SameSlots DEF HandlerReturns, StopAll
<1>2. CASE HandlerCancelled(i)
  BY <1>2, SameSlots DEF HandlerCancelled, StopAll
<1>3. CASE HandlerDeletes(i)
  BY <1>3, SameSlots DEF HandlerDeletes
<1>4. CASE HandlerFrees(i) /\ i \in freed
  <2>1. Charged' = Charged /\ slotTotal' = Cardinality(Charged')
    BY <1>4, SameSlots DEF HandlerFrees
  <2>2. SessShape'
    BY <1>4, <2>1 DEF HandlerFrees
  <2>3. RouterOK' /\ TableOK'
    BY <1>4, <2>1 DEF HandlerFrees
  <2>4. FreshOK'
    BY <1>4, <2>1 DEF HandlerFrees
  <2>5. HandOK'
    BY <1>4, <2>1 DEF HandlerFrees
  <2>6. AllocOK'
    BY <1>4, <2>1 DEF HandlerFrees, Charged
  <2> QED
    BY <2>2, <2>3, <2>4, <2>5, <2>6
<1>5. CASE HandlerFrees(i) /\ i \notin freed
  <2>1. /\ sessSlots' = [j \in Ids |-> IF j \in {i} THEN 0 ELSE sessSlots[j]]
        /\ Charged' = Charged \ {i} /\ slotTotal' = Cardinality(Charged')
    BY <1>5, ReleaseExact DEF HandlerFrees, ReleaseAll
  <2>2. sessSlots' \in [Ids -> {0, 1}] /\ hand' = [hand EXCEPT ![i] = "gone"] /\ freed' = freed \cup {i}
    BY <1>5, <2>1 DEF HandlerFrees
  <2>3. SessShape'
    BY <1>5, <2>1, <2>2 DEF HandlerFrees, ReleaseAll
  <2>4. RouterOK' /\ TableOK'
    BY <1>5, <2>1, <2>2 DEF HandlerFrees, ReleaseAll
  <2>5. FreshOK'
    BY <1>5, <2>1, <2>2 DEF HandlerFrees, ReleaseAll
  <2>6. HandOK'
    BY <1>5, <2>1, <2>2 DEF HandlerFrees, ReleaseAll
  <2>7. AllocOK'
    BY <1>5, <2>1, <2>2 DEF HandlerFrees, ReleaseAll, Charged
  <2> QED
    BY <2>3, <2>4, <2>5, <2>6, <2>7
<1> QED
  BY <1>1, <1>2, <1>3, <1>4, <1>5 DEF HandlerStep

\* The clean-up ticker frees what is dead and not yet freed.
LEMMA CleanupKeeps == ASSUME SessInv, CleanupSessions PROVE SessInv'
<1> DEFINE dead == {i \in Ids : InTable(i) /\ i \notin fresh}
<1>1. /\ sessSlots' = [j \in Ids |-> IF j \in dead \ freed THEN 0 ELSE sessSlots[j]]
      /\ Charged' = Charged \ (dead \ freed) /\ slotTotal' = Cardinality(Charged')
  <2>1. SessShape /\ dead \ freed \in SUBSET Ids /\ ReleaseSlots(dead \ freed)
    BY DEF CleanupSessions, ReleaseAll, SessInv
  <2> QED
    BY <2>1, ReleaseExact
<1> USE DEF SessInv, SessShape, RouterOK, TableOK, FreshOK, HandOK, AllocOK, InAdmission,
            AtWork, Admitting, AtRead, Ids, limits
<1>2. /\ life' = [j \in Ids |-> IF j \in dead THEN "stopped" ELSE life[j]]
      /\ table' = [k \in Keys |-> IF table[k] \in dead THEN 0 ELSE table[k]]
      /\ alloc' = alloc \ (dead \ freed) /\ freed' = freed \cup dead
      /\ UNCHANGED <<made, keyOf, hand, router>>
  BY DEF CleanupSessions, StopAll, ReleaseAll
<1>3. \A j \in dead : hand[j] \in {"serving", "leaving"}
  BY DEF InTable
<1> HIDE DEF dead
<1>4. dead \subseteq Ids
  BY DEF dead
<1>5. SessShape'
  BY <1>1, <1>2, <1>3, <1>4 DEF SessInv
<1>6. RouterOK' /\ TableOK'
  BY <1>1, <1>2, <1>3, <1>4 DEF SessInv
<1>7. FreshOK'
  BY <1>1, <1>2, <1>3, <1>4 DEF SessInv
<1>8. HandOK'
  BY <1>1, <1>2, <1>3, <1>4 DEF SessInv
<1>9. AllocOK'
  BY <1>1, <1>2, <1>3, <1>4 DEF SessInv, Charged
<1> QED
  BY <1>5, <1>6, <1>7, <1>8, <1>9

\* TerminateStream gives back what the session holds, if it does.
LEMMA TerminateKeeps == ASSUME SessInv, NEW i \in Ids, TerminateSession(i) PROVE SessInv'
<1> USE DEF SessInv, SessShape, RouterOK, TableOK, FreshOK, HandOK, AllocOK, InAdmission,
            AtWork, Admitting, AtRead, Ids, limits
<1>1. /\ sessSlots' = [j \in Ids |-> IF j \in {i} THEN 0 ELSE sessSlots[j]]
      /\ Charged' = Charged \ {i} /\ slotTotal' = Cardinality(Charged')
  BY ReleaseExact DEF TerminateSession, ReleaseAll
<1>2. hand[i] \in {"serving", "leaving"}
  BY DEF TerminateSession, InTable
<1>3. SessShape'
  BY <1>1, <1>2 DEF TerminateSession, ReleaseAll, StopAll, WithoutSession
<1>4. RouterOK' /\ TableOK'
  BY <1>1, <1>2 DEF TerminateSession, ReleaseAll, StopAll, WithoutSession
<1>5. FreshOK'
  BY <1>1, <1>2 DEF TerminateSession, ReleaseAll, StopAll, WithoutSession
<1>6. HandOK'
  BY <1>1, <1>2 DEF TerminateSession, ReleaseAll, StopAll, WithoutSession
<1>7. AllocOK'
  BY <1>1, <1>2 DEF TerminateSession, ReleaseAll, StopAll, WithoutSession, Charged
<1> QED
  BY <1>3, <1>4, <1>5, <1>6, <1>7

\* Pauses, RTCP and time touch no slot; Listener.Stop leaves them to the
\* goroutines of the sessions.
LEMMA OthersKeep ==
  ASSUME SessInv,
         \/ \E i \in Ids : PauseStream(i) \/ ResumeStream(i) \/ RTCP(i) \/ ExpireSessions(i)
         \/ StopCancel \/ StopSessions \/ UNCHANGED sessVars \/ \E k \in Keys : Lookup(k)
  PROVE  SessInv'
<1> USE DEF SessInv, SessShape, RouterOK, TableOK, FreshOK, HandOK, AllocOK, InAdmission,
            AtWork, Admitting, AtRead, Ids, limits
<1>1. ASSUME UNCHANGED <<table, made, keyOf, limits, life, hand, freed, router>> PROVE SessInv'
  BY <1>1, SameSlots
<1>2. ASSUME NEW i \in Ids, PauseStream(i) \/ ResumeStream(i) \/ RTCP(i) \/ ExpireSessions(i)
      PROVE  SessInv'
  BY <1>1, <1>2 DEF PauseStream, ResumeStream, RTCP, ExpireSessions
<1>3. CASE StopCancel
  BY <1>1, <1>3 DEF StopCancel
<1>4. CASE StopSessions
  BY <1>4, SameSlots DEF StopSessions, StopAll, InTable
<1>5. CASE UNCHANGED sessVars
  BY <1>1, <1>5 DEF sessVars
<1>6. ASSUME NEW k \in Keys, Lookup(k) PROVE SessInv'
  BY <1>6, SameSlots DEF Lookup
<1> QED
  BY <1>2, <1>3, <1>4, <1>5, <1>6

LEMMA SessInitially == SessInit => SessInv
<1> SUFFICES ASSUME SessInit PROVE SessInv
  OBVIOUS
<1> USE DEF SessInv, SessShape, RouterOK, TableOK, FreshOK, HandOK, AllocOK, InAdmission,
            AtWork, Admitting, AtRead, Ids, limits, SessInit
<1>1. Charged = {}
  BY DEF Charged
<1>2. SessShape
  BY <1>1, FS_EmptySet
<1> QED
  BY <1>1, <1>2

LEMMA SessStep == SessInv /\ [SessNext]_sessVars => SessInv'
BY AdmissionKeeps, HandlerKeeps, CleanupKeeps, TerminateKeeps, OthersKeep DEF SessNext

\* Slots and bandwidth are charged exactly to the sessions that hold them, for
\* any number of sources and sessions: although TerminateStream releases without
\* marking, the goroutine of the session releases again and the table may already
\* name another session of the source, nothing is given back twice and nothing is
\* lost (rtp/listener.go:200-345, :480-560).
THEOREM SlotsAreOwned == SessSpec => []SlotsExact
<1>1. SessInv => SlotsExact
  <2> SUFFICES ASSUME SessInv PROVE SlotsExact
    OBVIOUS
  <2> USE DEF SessInv, SessShape, RouterOK, TableOK, FreshOK, HandOK, AllocOK, InAdmission,
            AtWork, Admitting, AtRead, Ids, limits
  <2>1. \A i \in Ids : InTable(i) => hand[i] \in {"serving", "leaving"}
    BY DEF InTable
  <2> QED
    BY <2>1 DEF SlotsExact, Charged
<1> QED
  BY <1>1, SessInitially, SessStep, PTL DEF SessSpec

HIDE SessionsAssumption

-----------------------------------------------------------------------------
(* The depacketizers: what they hold and hand on                            *)

Chunks == Nat \X Nat

\* The beginning of the unit of packet q up to this packet.
Piece(q) == [i \in 1..DepPackets[q].part |-> <<UnitOf(q), i>>]
\* The last n parts of it.
LastParts(q, n) == [i \in 1..n |-> <<UnitOf(q), DepPackets[q].part - n + i>>]

WholeUnit(u) == [i \in 1..PartsOf(u) |-> <<u, i>>]
RestOf(u, k) == [i \in 1..(PartsOf(u) - k) |-> <<u, i + k>>]
Wholes == {WholeUnit(u) : u \in SentUnits}
\* What a payload without data or a mixed packet went into.
Odds == {s \in Seq(Chunks) : \E i \in DOMAIN s : s[i][2] \notin 1..PartsOf(s[i][1])}
Goods == Wholes \cup Odds
Rests == UNION {{RestOf(u, k) : k \in 1..(PartsOf(u) - 1)} : u \in SentUnits}
MayLeave(c) == IF c = "jpegxs" THEN Goods \cup Rests ELSE Goods

Damages == {"none", "broken", "empty"}
\* A fragment that is a part of a unit and nothing else.
Pure(p) == DepPackets[p].kind = "part"

-----------------------------------------------------------------------------
(* The sender                                                              *)

LEMMA Sent ==
  ASSUME NEW p \in Positions
  PROVE  /\ DepPackets[p] \in PacketType /\ WellSent(p) /\ p \in Nat \ {0} /\ p <= Len(DepPackets)
         /\ DepPackets[p].part \in Nat /\ DepPackets[p].parts \in Nat /\ DepPackets[p].units \in Seq(Nat)
         /\ 1 <= DepPackets[p].part /\ DepPackets[p].part <= DepPackets[p].parts
<1>1. DepPackets \in Seq(PacketType) /\ WellSent(p)
  BY DepacketizerAssumption DEF Positions
<1>2. DepPackets[p] \in PacketType /\ p \in Nat \ {0} /\ p <= Len(DepPackets)
  BY <1>1 DEF Positions
<1>3. DepPackets[p].part \in Nat /\ DepPackets[p].parts \in Nat /\ DepPackets[p].units \in Seq(Nat)
  BY <1>2 DEF PacketType
<1>4. DepPackets[p].part \in 1..DepPackets[p].parts
  BY <1>1 DEF WellSent
<1> QED BY <1>1, <1>2, <1>3, <1>4

LEMMA Numbers ==
  ASSUME NEW p \in Positions
  PROVE  DepFirstSeq + p - 1 \in Int /\ SeqSpace \in Nat \ {0} /\ p \in 1..Len(DepPackets) /\ Len(DepPackets) \in Nat
BY Sent, DepacketizerAssumption

LEMMA SeqnoType == ASSUME NEW p \in Positions PROVE Seqno(p) \in Nat
BY Numbers, ModRange DEF Seqno

\* Sequence numbers tell packets apart and follow each other as the packets do.
LEMMA SeqnoSame == ASSUME NEW p \in Positions, NEW q \in Positions, Seqno(p) = Seqno(q) PROVE p = q
<1> DEFINE a == DepFirstSeq + p - 1
           b == DepFirstSeq + q - 1
           n == SeqSpace
<1>1. a \in Int /\ b \in Int /\ n \in Nat \ {0} /\ a - b < n /\ b - a < n /\ (a = b => p = q)
  BY Numbers, DepacketizerAssumption
<1>2. a % n = b % n
  BY DEF Seqno
<1> HIDE DEF a, b, n
<1>3. a = b
  BY <1>1, <1>2, ModUnique
<1> QED BY <1>1, <1>3

LEMMA SeqnoNext ==
  ASSUME NEW p \in Positions, NEW q \in Positions
  PROVE  Follows(Seqno(p), Seqno(q)) <=> p = q + 1
<1> DEFINE a == DepFirstSeq + p - 1
           b == DepFirstSeq + q - 1
           c == b + 1
           n == SeqSpace
<1>0. /\ DepFirstSeq \in Int /\ n \in Nat \ {0} /\ p \in Int /\ q \in Int
      /\ p - q - 1 < n /\ q + 1 - p < n
  BY Numbers, DepacketizerAssumption
<1>1. /\ a \in Int /\ b \in Int /\ c \in Int /\ n \in Nat \ {0} /\ a - c < n /\ c - a < n
      /\ (a = c <=> p = q + 1) /\ 1 \in Int
  BY <1>0
<1>2. Follows(Seqno(p), Seqno(q)) <=> a % n = ((b % n) + 1) % n
  BY DEF Seqno, Follows
<1> HIDE DEF a, b, n
<1>3. ((b % n) + 1) % n = c % n
  BY <1>1, ModAdd
<1> HIDE DEF c
<1>4. a % n = c % n => a = c
  BY <1>1, ModUnique
<1> QED BY <1>1, <1>2, <1>3, <1>4

\* What comes before a part that is not the first.
LEMMA Before ==
  ASSUME NEW p \in Positions, NEW q \in Positions, p = q + 1, ~Starts(p)
  PROVE  /\ Fragment(q) /\ ~Ends(q) /\ (Pure(q) => UnitOf(q) = UnitOf(p))
         /\ DepPackets[p].part = DepPackets[q].part + 1 /\ DepPackets[p].parts = DepPackets[q].parts
<1>1. DepPackets[p].part > 1 /\ p - 1 = q
  BY Sent DEF Starts
<1>2. /\ DepPackets[q].kind \in {"part", "mixed"}
      /\ DepPackets[q].units[Len(DepPackets[q].units)] = DepPackets[p].units[1]
      /\ DepPackets[q].part = DepPackets[p].part - 1 /\ DepPackets[q].parts = DepPackets[p].parts
  BY <1>1, Sent DEF WellSent
<1>3. Pure(q) => Len(DepPackets[q].units) = 1
  BY Sent DEF WellSent, Pure
<1>4. Pure(q) => UnitOf(q) = UnitOf(p)
  BY <1>2, <1>3 DEF UnitOf
<1> QED BY <1>2, <1>4, Sent DEF Fragment, Ends

LEMMA StartOf == ASSUME NEW p \in Positions, p = 1 PROVE Starts(p)
BY Sent DEF WellSent, Starts

LEMMA UnitType ==
  ASSUME NEW p \in Positions, DepPackets[p].kind # "bundle"
  PROVE  /\ UnitOf(p) \in Nat /\ UnitOf(p) \in SentUnits /\ PartsOf(UnitOf(p)) = DepPackets[p].parts
         /\ DepPackets[p].kind # "mixed" => DepPackets[p].units = <<UnitOf(p)>>
<1>1. /\ Len(DepPackets[p].units) > 0 /\ DepPackets[p].units \in Seq(Nat)
      /\ DepPackets[p].kind # "mixed" => Len(DepPackets[p].units) = 1
  <2>1. DepPackets[p].kind \in {"plain", "bundle", "part", "mixed"} /\ DepPackets[p].units \in Seq(Nat) /\ WellSent(p)
    BY Sent DEF PacketType
  <2>2. DepPackets[p].kind # "mixed" => Len(DepPackets[p].units) = 1
    BY <2>1 DEF WellSent
  <2>3. DepPackets[p].kind = "mixed" => Len(DepPackets[p].units) > 0
    BY <2>1 DEF WellSent
  <2> QED BY <2>1, <2>2, <2>3
<1>2. /\ UnitOf(p) \in Nat /\ UnitOf(p) \in ToSet(DepPackets[p].units)
      /\ DepPackets[p].kind # "mixed" => DepPackets[p].units = <<UnitOf(p)>>
  BY <1>1 DEF UnitOf, ToSet
<1> DEFINE u == UnitOf(p)
           q == CHOOSE r \in Positions : u \in ToSet(DepPackets[r].units)
<1>3. q \in Positions /\ u \in ToSet(DepPackets[q].units)
  BY <1>2
<1>4. DepPackets[q].parts = DepPackets[p].parts
  BY <1>2, <1>3, Sent DEF WellSent, Positions
<1> QED BY <1>2, <1>3, <1>4 DEF PartsOf, SentUnits

LEMMA ContainedUnits ==
  ASSUME NEW p \in Positions, ~Fragment(p)
  PROVE  Contained(p) \in Seq(Wholes) /\ Contained(p) \in Seq(Goods)
<1> DEFINE m == DepPackets[p].units
<1>1. m \in Seq(Nat) /\ DepPackets[p].parts = 1
  BY Sent DEF WellSent, Fragment, PacketType
<1>2. ASSUME NEW i \in 1..Len(m) PROVE <<<<m[i], 1>>>> \in Wholes
  <2> DEFINE u == m[i]
             q == CHOOSE r \in Positions : u \in ToSet(DepPackets[r].units)
  <2>1. u \in ToSet(m)
    BY <1>1 DEF ToSet
  <2>2. u \in SentUnits /\ q \in Positions /\ u \in ToSet(DepPackets[q].units)
    BY <2>1 DEF SentUnits
  <2>3. DepPackets[q].parts = 1
    BY <1>1, <2>1, <2>2, Sent DEF WellSent, Positions
  <2>4. PartsOf(u) = 1
    BY <2>3 DEF PartsOf
  <2>5. WholeUnit(u) = <<<<u, 1>>>>
    BY <2>4 DEF WholeUnit
  <2> QED BY <2>2, <2>5 DEF Wholes
<1>3. Contained(p) \in Seq(Wholes)
  BY <1>1, <1>2 DEF Contained
<1> QED BY <1>3 DEF Goods

LEMMA PieceType ==
  ASSUME NEW p \in Positions, DepPackets[p].kind \notin {"bundle", "mixed"}
  PROVE  /\ Piece(p) \in Seq(Chunks) /\ Len(Piece(p)) = DepPackets[p].part /\ Chunk(p) \in Chunks
         /\ Piece(p) # <<>>
         /\ Starts(p) => Piece(p) = <<Chunk(p)>>
         /\ Ends(p) => Piece(p) = WholeUnit(UnitOf(p)) /\ Piece(p) \in Wholes
<1>1. UnitOf(p) \in Nat /\ DepPackets[p].part \in Nat \ {0} /\ UnitOf(p) \in SentUnits
      /\ PartsOf(UnitOf(p)) = DepPackets[p].parts
  BY UnitType, Sent
<1>2. Piece(p) \in Seq(Chunks) /\ Len(Piece(p)) = DepPackets[p].part
  BY <1>1 DEF Piece, Chunks
<1>3. Chunk(p) \in Chunks
  BY <1>1 DEF Chunk, Chunks
<1>4. Starts(p) => Piece(p) = <<Chunk(p)>>
  BY <1>1 DEF Starts, Piece, Chunk
<1>5. Ends(p) => Piece(p) = WholeUnit(UnitOf(p))
  BY <1>1 DEF Ends, Piece, WholeUnit
<1> QED BY <1>1, <1>2, <1>3, <1>4, <1>5 DEF Wholes

LEMMA PieceGrows ==
  ASSUME NEW p \in Positions, NEW q \in Positions, p = q + 1, ~Starts(p), Pure(q), DepPackets[p].kind # "mixed"
  PROVE  Append(Piece(q), Chunk(p)) = Piece(p) /\ DepPackets[p].kind = "part"
<1> DEFINE n == DepPackets[q].part
           u == UnitOf(p)
<1>1. n \in Nat /\ DepPackets[p].part = n + 1 /\ UnitOf(q) = u
  BY Sent, Before
<1>2. Piece(q) = [i \in 1..n |-> <<u, i>>] /\ Piece(p) = [i \in 1..(n + 1) |-> <<u, i>>] /\ Chunk(p) = <<u, n + 1>>
  BY <1>1 DEF Piece, Chunk
<1>3. DepPackets[p].kind = "part"
  <2>1. WellSent(p) /\ DepPackets[p].part \in Nat /\ DepPackets[p].parts \in Nat
        /\ 1 <= DepPackets[p].part /\ DepPackets[p].part <= DepPackets[p].parts
    BY Sent
  <2>2. DepPackets[p].parts # 1
    BY <2>1 DEF Starts
  <2> QED BY <2>1, <2>2, Sent DEF WellSent, PacketType
<1> HIDE DEF n, u
<1>4. Append([i \in 1..n |-> <<u, i>>], <<u, n + 1>>) = [i \in 1..(n + 1) |-> <<u, i>>]
  BY <1>1
<1> QED BY <1>2, <1>3, <1>4

-----------------------------------------------------------------------------
(* Payloads and what they add up to                                        *)

LEMMA DataType ==
  ASSUME NEW p \in Positions, DepPackets[p].kind # "bundle", NEW damage
  PROVE  /\ Data(p, damage) \in Chunks /\ NoBytes(p) \in Chunks /\ Chunk(p) \in Chunks
         /\ NoBytes(p)[2] \notin 1..PartsOf(NoBytes(p)[1])
         /\ damage = "empty" \/ DepPackets[p].kind = "mixed" =>
              Data(p, damage)[2] \notin 1..PartsOf(Data(p, damage)[1])
         /\ damage # "empty" => Data(p, damage) = Chunk(p)
<1>1. UnitOf(p) \in Nat /\ PartsOf(UnitOf(p)) = DepPackets[p].parts /\ DepPackets[p].parts \in Nat
      /\ DepPackets[p].part \in Nat
  BY UnitType, Sent
<1>2. NoBytes(p) \in Chunks /\ NoBytes(p)[2] \notin 1..PartsOf(NoBytes(p)[1])
  BY <1>1 DEF NoBytes, Chunks
<1>3. /\ Chunk(p) \in Chunks
      /\ DepPackets[p].kind = "mixed" => Chunk(p)[2] \notin 1..PartsOf(Chunk(p)[1])
  BY <1>1 DEF Chunk, Chunks
<1> QED BY <1>2, <1>3 DEF Data

LEMMA OddAppended ==
  ASSUME NEW f \in Seq(Chunks), NEW x \in Chunks, f \in Odds \/ x[2] \notin 1..PartsOf(x[1])
  PROVE  Append(f, x) \in Odds
<1> DEFINE g == Append(f, x)
<1>1. /\ g \in Seq(Chunks) /\ Len(g) = Len(f) + 1 /\ Len(f) \in Nat /\ DOMAIN f = 1..Len(f) /\ DOMAIN g = 1..(Len(f) + 1)
      /\ g[Len(f) + 1] = x /\ \A i \in 1..Len(f) : g[i] = f[i]
  OBVIOUS
<1> HIDE DEF g
<1>2. CASE f \in Odds
  <2>1. PICK i \in DOMAIN f : f[i][2] \notin 1..PartsOf(f[i][1])
    BY <1>2 DEF Odds
  <2>2. i \in DOMAIN g /\ g[i] = f[i]
    BY <1>1
  <2>3. \E j \in DOMAIN g : g[j][2] \notin 1..PartsOf(g[j][1])
    BY <2>1, <2>2
  <2> QED BY <1>1, <2>3 DEF Odds, g
<1>3. CASE x[2] \notin 1..PartsOf(x[1])
  <2>1. Len(f) + 1 \in DOMAIN g
    BY <1>1
  <2>2. \E j \in DOMAIN g : g[j][2] \notin 1..PartsOf(g[j][1])
    BY <1>1, <1>3, <2>1
  <2> QED BY <1>1, <2>2 DEF Odds, g
<1> QED BY <1>2, <1>3

LEMMA OddAlone ==
  ASSUME NEW x \in Chunks, x[2] \notin 1..PartsOf(x[1])
  PROVE  <<x>> \in Odds
<1>1. <<x>> \in Seq(Chunks) /\ 1 \in DOMAIN <<x>> /\ <<x>>[1] = x
  OBVIOUS
<1> QED BY <1>1 DEF Odds

\* Fragments with data count by their number.
LEMMA SizeIs ==
  ASSUME NEW f \in Seq(Chunks), \A i \in 1..Len(f) : f[i][2] # 0
  PROVE  Size(f) = Len(f)
<1> DEFINE n == Len(f)
<1>1. n \in Nat /\ {i \in DOMAIN f : f[i][2] # 0} = 1..n
  OBVIOUS
<1> HIDE DEF n
<1>2. Cardinality(1..n) = n
  <2>1. 1 \in Int /\ n \in Int /\ (IF 1 > n THEN 0 ELSE n - 1 + 1) = n
    BY <1>1
  <2> QED BY <2>1, FS_Interval
<1> QED BY <1>1, <1>2 DEF Size, n

\* The payload of packet p, if the fragments before it and it are f.
Right(f, p) == f \in Odds \/ (Pure(p) /\ f = Piece(p))

LEMMA RightEnds == ASSUME NEW p \in Positions, NEW f, Right(f, p), Ends(p) PROVE f \in Goods
BY PieceType DEF Right, Goods, Pure

LEMMA RightStart ==
  ASSUME NEW p \in Positions, Fragment(p), Starts(p), NEW damage
  PROVE  LET f == <<Data(p, damage)>> IN Right(f, p) /\ f \in Seq(Chunks) /\ f # <<>>
<1> DEFINE x == Data(p, damage)
<1>1. x \in Chunks /\ (damage = "empty" \/ DepPackets[p].kind = "mixed" => x[2] \notin 1..PartsOf(x[1]))
      /\ (damage # "empty" => x = Chunk(p))
  BY DataType DEF Fragment
<1> HIDE DEF x
<1>2. <<x>> \in Seq(Chunks) /\ <<x>> # <<>>
  BY <1>1
<1>3. CASE damage = "empty" \/ DepPackets[p].kind = "mixed"
  BY <1>1, <1>2, <1>3, OddAlone DEF Right, x
<1>4. CASE ~(damage = "empty" \/ DepPackets[p].kind = "mixed")
  BY <1>1, <1>2, <1>4, PieceType DEF Right, x, Pure, Fragment
<1> QED BY <1>3, <1>4

-----------------------------------------------------------------------------
(* H.264 and HEVC                                                          *)

DepState == [frags : Seq(Chunks), lastSeq : Nat, seen : BOOLEAN, buffered : Seq(Goods), frame : Nat]

\* The fragments f, if packet q was the last one to arrive.
Held(f, q) == Fragment(q) /\ ~Ends(q) => Pure(q) /\ f = Piece(q)
FragsOK(f, last) == f # <<>> => f \in Odds \/ \E q \in Positions : last = Seqno(q) /\ Held(f, q)

\* State d is fine, with the units b waiting, and the units o may be handed on.
Whole(d, o, b) == /\ d \in DepState /\ FragsOK(d.frags, d.lastSeq) /\ d.buffered = b
                  /\ o \in Seq(Goods)
WholeResult(r, b) == \E d, o : r = Result(d, o) /\ Whole(d, o, b)

LEMMA IsWhole == ASSUME NEW d, NEW o, NEW b, Whole(d, o, b), NEW r, r = Result(d, o) PROVE WholeResult(r, b)
BY DEF WholeResult

\* e is d with the fragments f, after the packet with number n.
Becomes(e, d, f, n) ==
  /\ e \in DepState /\ e.frags = f /\ e.lastSeq = n
  /\ e.seen = d.seen /\ e.buffered = d.buffered /\ e.frame = d.frame

LEMMA Refilled == ASSUME NEW d \in DepState, NEW f \in Seq(Chunks) PROVE Becomes([d EXCEPT !.frags = f], d, f, d.lastSeq)
BY DEF DepState, Becomes

LEMMA Emptied == ASSUME NEW d \in DepState PROVE Becomes(DropFragments(d), d, <<>>, d.lastSeq)
<1>1. DropFragments(d) = [d EXCEPT !.frags = <<>>] /\ <<>> \in Seq(Chunks)
  BY DEF DropFragments
<1> QED BY <1>1, Refilled

LEMMA Moved == ASSUME NEW d \in DepState, NEW n \in Nat PROVE Becomes([d EXCEPT !.lastSeq = n], d, d.frags, n)
BY DEF DepState, Becomes

LEMMA HeldNow ==
  ASSUME NEW p \in Positions, NEW f, Held(f, p)
  PROVE  FragsOK(f, Seqno(p))
BY DEF FragsOK

LEMMA RightNow ==
  ASSUME NEW p \in Positions, NEW f, Right(f, p)
  PROVE  FragsOK(f, Seqno(p)) /\ (f \notin Odds => Held(f, p))
BY DEF FragsOK, Right, Held

\* A fragment without data leaves a mark where there are fragments.
LEMMA PassedOver ==
  ASSUME NEW d \in DepState, NEW p \in Positions, DepPackets[p].kind # "bundle"
  PROVE  \E f \in Seq(Chunks) : /\ Becomes(PassOver(d, p), d, f, d.lastSeq) /\ (f = <<>> \/ f \in Odds)
                                /\ (d.frags = <<>> => f = <<>>)
<1> DEFINE x == NoBytes(p)
           f == IF d.frags = <<>> THEN <<>> ELSE Append(d.frags, x)
<1>1. x \in Chunks /\ x[2] \notin 1..PartsOf(x[1]) /\ d.frags \in Seq(Chunks)
  BY DataType DEF DepState
<1> HIDE DEF x
<1>2. f \in Seq(Chunks) /\ (f = <<>> \/ f \in Odds)
  <2>1. CASE d.frags = <<>>
    BY <2>1
  <2>2. CASE d.frags # <<>>
    <3>1. Append(d.frags, x) \in Odds
      BY <1>1, OddAppended
    <3> QED BY <2>2, <3>1 DEF Odds
  <2> QED BY <2>1, <2>2
<1>3. PassOver(d, p) = [d EXCEPT !.frags = f]
  BY DEF PassOver, DepState, x
<1>4. d.frags = <<>> => f = <<>>
  OBVIOUS
<1> HIDE DEF f
<1>5. Becomes(PassOver(d, p), d, f, d.lastSeq)
  BY <1>2, <1>3, Refilled
<1> QED BY <1>2, <1>4, <1>5

\* A fragment that follows the ones held.
LEMMA Grown ==
  ASSUME NEW f \in Seq(Chunks), f # <<>>, NEW last, FragsOK(f, last), NEW p \in Positions, Fragment(p), ~Starts(p),
         Follows(Seqno(p), last), NEW damage
  PROVE  LET c == Append(f, Data(p, damage)) IN Right(c, p) /\ c \in Seq(Chunks) /\ c # <<>>
<1> DEFINE x == Data(p, damage)
           c == Append(f, x)
<1>1. x \in Chunks /\ (damage = "empty" \/ DepPackets[p].kind = "mixed" => x[2] \notin 1..PartsOf(x[1]))
      /\ (damage # "empty" => x = Chunk(p))
  BY DataType DEF Fragment
<1> HIDE DEF x
<1>2. c \in Seq(Chunks) /\ c # <<>>
  BY <1>1
<1>3. CASE f \in Odds \/ damage = "empty" \/ DepPackets[p].kind = "mixed"
  <2>1. c \in Odds
    BY <1>1, <1>3, OddAppended
  <2> QED BY <1>2, <2>1 DEF Right, x
<1>4. CASE ~(f \in Odds \/ damage = "empty" \/ DepPackets[p].kind = "mixed")
  <2>1. PICK q \in Positions : last = Seqno(q) /\ Held(f, q)
    BY <1>4 DEF FragsOK
  <2>2. p = q + 1
    BY <2>1, SeqnoNext
  <2>3. Pure(q) /\ f = Piece(q)
    BY <2>1, <2>2, Before DEF Held
  <2>4. c = Piece(p)
    BY <1>1, <1>4, <2>2, <2>3, PieceGrows
  <2>5. Pure(p)
    BY <1>4 DEF Pure, Fragment
  <2> QED BY <1>2, <2>4, <2>5 DEF Right, x
<1> QED BY <1>3, <1>4

\* A unit that is complete, and one that is not yet.
LEMMA ContinueWhole ==
  ASSUME NEW d \in DepState, NEW p \in Positions, Fragment(p), ~Starts(p), d.lastSeq = Seqno(p),
         NEW last, FragsOK(d.frags, last), NEW damage
  PROVE  WholeResult(Continue(d, last, p, damage), d.buffered)
<1> DEFINE r == Continue(d, last, p, damage)
           c == Append(d.frags, Data(p, damage))
           full == [d EXCEPT !.frags = c]
<1>0. <<>> \in Seq(Goods) /\ d.frags \in Seq(Chunks)
  BY DEF DepState
<1>1. CASE d.frags = <<>>
  <2>1. r = Result(d, <<>>)
    BY <1>1 DEF Continue
  <2> QED BY <1>0, <1>1, <2>1, IsWhole DEF Whole, FragsOK
<1>2. CASE d.frags # <<>> /\ Seqno(p) = last
  <2>1. r = Result(d, <<>>)
    BY <1>2 DEF Continue
  <2>2. d.frags \in Odds \/ Held(d.frags, p)
    BY <1>2, SeqnoSame DEF FragsOK
  <2>3. FragsOK(d.frags, d.lastSeq)
    BY <2>2 DEF FragsOK
  <2> QED BY <1>0, <2>1, <2>3, IsWhole DEF Whole
<1>5. Becomes(DropFragments(d), d, <<>>, d.lastSeq)
  BY Emptied
<1>3. CASE d.frags # <<>> /\ Seqno(p) # last /\ (~Follows(Seqno(p), last) \/ Size(c) > MaxParts)
  <2>1. r = Result(DropFragments(d), <<>>)
    BY <1>3 DEF Continue
  <2>2. Whole(DropFragments(d), <<>>, d.buffered)
    BY <1>0, <1>5 DEF Becomes, Whole, FragsOK
  <2> QED BY <2>1, <2>2, IsWhole
<1>4. CASE d.frags # <<>> /\ Seqno(p) # last /\ Follows(Seqno(p), last) /\ ~(Size(c) > MaxParts)
  <2>1. Right(c, p) /\ c \in Seq(Chunks)
    BY <1>0, <1>4, Grown
  <2>2. r = IF Ends(p) THEN Result(DropFragments(d), <<c>>) ELSE Result(full, <<>>)
    BY <1>4 DEF Continue
  <2> HIDE DEF c
  <2>4. CASE Ends(p)
    <3>1. <<c>> \in Seq(Goods)
      BY <2>1, <2>4, RightEnds
    <3>2. Whole(DropFragments(d), <<c>>, d.buffered)
      BY <1>5, <3>1 DEF Becomes, Whole, FragsOK
    <3> QED BY <2>2, <2>4, <3>2, IsWhole
  <2>5. CASE ~Ends(p)
    <3>1. Becomes(full, d, c, d.lastSeq)
      BY <2>1, Refilled
    <3>2. FragsOK(c, Seqno(p))
      BY <2>1, RightNow
    <3> HIDE DEF full
    <3>3. Whole(full, <<>>, d.buffered)
      BY <1>0, <3>1, <3>2 DEF Whole, Becomes
    <3> QED BY <2>2, <2>5, <3>3, IsWhole DEF full
  <2> QED BY <2>4, <2>5
<1> QED BY <1>1, <1>2, <1>3, <1>4

\* A fragment without data, and one that begins a unit.
LEMMA PassWhole ==
  ASSUME NEW m \in DepState, NEW p \in Positions, Fragment(p)
  PROVE  WholeResult(Result(PassOver(m, p), <<>>), m.buffered)
<1>1. PICK f \in Seq(Chunks) : Becomes(PassOver(m, p), m, f, m.lastSeq) /\ (f = <<>> \/ f \in Odds)
  BY PassedOver DEF Fragment
<1>2. <<>> \in Seq(Goods)
  OBVIOUS
<1>3. Whole(PassOver(m, p), <<>>, m.buffered)
  BY <1>1, <1>2 DEF Whole, Becomes, FragsOK
<1> QED BY <1>3, IsWhole

LEMMA StartWhole ==
  ASSUME NEW m \in DepState, NEW p \in Positions, m.lastSeq = Seqno(p), Fragment(p), Starts(p), NEW damage
  PROVE  WholeResult(Result([m EXCEPT !.frags = <<Data(p, damage)>>], <<>>), m.buffered)
<1> DEFINE c == <<Data(p, damage)>>
           e == [m EXCEPT !.frags = c]
<1>1. Right(c, p) /\ c \in Seq(Chunks) /\ <<>> \in Seq(Goods)
  BY RightStart
<1> HIDE DEF c
<1>2. Becomes(e, m, c, m.lastSeq) /\ FragsOK(c, Seqno(p))
  BY <1>1, Refilled, RightNow
<1> HIDE DEF e
<1>3. Whole(e, <<>>, m.buffered)
  BY <1>1, <1>2 DEF Whole, Becomes
<1>4. WholeResult(Result(e, <<>>), m.buffered)
  BY <1>3, IsWhole
<1> QED BY <1>4 DEF e, c

LEMMA FUAWhole ==
  ASSUME NEW d \in DepState, FragsOK(d.frags, d.lastSeq), NEW p \in Positions, Fragment(p),
         NEW damage \in Damages, NEW expired \in BOOLEAN
  PROVE  WholeResult(HandleFUA(d, p, damage, expired), d.buffered)
<1> DEFINE r == HandleFUA(d, p, damage, expired)
           m == [d EXCEPT !.lastSeq = Seqno(p)]
           k == IF expired THEN DropFragments(m) ELSE m
           single == Starts(p) /\ Ends(p)
<1>0. <<>> \in Seq(Goods) /\ Seqno(p) \in Nat /\ damage \in {"none", "broken", "empty"}
  BY SeqnoType DEF Damages
<1>1. m \in DepState /\ m.frags = d.frags /\ m.lastSeq = Seqno(p) /\ m.buffered = d.buffered
  BY <1>0, Moved DEF Becomes
<1>2. CASE damage = "broken" \/ (damage = "empty" /\ ~single)
  <2>1. r = Result(PassOver(m, p), <<>>)
    BY <1>2 DEF HandleFUA
  <2> HIDE DEF m
  <2> QED BY <1>1, <2>1, PassWhole
<1>3. CASE damage # "broken" /\ single
  <2> DEFINE c == <<Data(p, damage)>>
  <2>1. r = Result(m, <<c>>)
    BY <1>3 DEF HandleFUA
  <2>2. c \in Goods
    BY <1>3, RightStart, RightEnds
  <2> HIDE DEF c, m
  <2>3. <<c>> \in Seq(Goods) /\ FragsOK(m.frags, Seqno(p))
    BY <1>3, <2>2, HeldNow DEF Held
  <2> QED BY <1>1, <2>1, <2>3, IsWhole DEF Whole
<1>4. CASE damage = "none" /\ Starts(p) /\ ~Ends(p)
  <2>1. r = Result([m EXCEPT !.frags = <<Chunk(p)>>], <<>>) /\ Data(p, damage) = Chunk(p)
    BY <1>4 DEF HandleFUA, Data
  <2> HIDE DEF m
  <2> QED BY <1>1, <1>4, <2>1, StartWhole
<1>5. CASE damage = "none" /\ ~Starts(p)
  <2>1. r = Continue(k, d.lastSeq, p, damage)
    BY <1>5 DEF HandleFUA
  <2> HIDE DEF m
  <2>2. /\ k \in DepState /\ k.lastSeq = Seqno(p) /\ k.buffered = d.buffered
        /\ k.frags = <<>> \/ k.frags = d.frags
    BY <1>1, Emptied DEF Becomes
  <2>3. FragsOK(k.frags, d.lastSeq)
    BY <2>2 DEF FragsOK
  <2> HIDE DEF k
  <2> QED BY <1>5, <2>1, <2>2, <2>3, ContinueWhole
<1> QED BY <1>0, <1>2, <1>3, <1>4, <1>5

LEMMA PlainWhole ==
  ASSUME NEW d \in DepState, NEW p \in Positions, ~Fragment(p)
  PROVE  Whole([d EXCEPT !.lastSeq = Seqno(p)], Contained(p), d.buffered)
<1> DEFINE e == [d EXCEPT !.lastSeq = Seqno(p)]
<1>1. e \in DepState /\ e.frags = d.frags /\ e.lastSeq = Seqno(p) /\ e.buffered = d.buffered
  BY SeqnoType, Moved DEF Becomes
<1>2. FragsOK(d.frags, Seqno(p))
  BY HeldNow DEF Held
<1> QED BY <1>1, <1>2, ContainedUnits DEF Whole

LEMMA H264Whole ==
  ASSUME NEW d \in DepState, FragsOK(d.frags, d.lastSeq), NEW p \in Positions,
         NEW damage \in Damages, NEW expired \in BOOLEAN
  PROVE  WholeResult(DepacketizeH264(d, p, damage, expired), d.buffered)
<1> DEFINE r == DepacketizeH264(d, p, damage, expired)
<1>1. CASE Fragment(p)
  <2>1. r = HandleFUA(d, p, damage, expired)
    BY <1>1 DEF DepacketizeH264
  <2> QED BY <1>1, <2>1, FUAWhole
<1>2. CASE ~Fragment(p) /\ (damage # "none" \/ TooManyUnits(p))
  <2>1. r = Result(d, <<>>)
    BY <1>2 DEF DepacketizeH264
  <2>2. Whole(d, <<>>, d.buffered)
    BY DEF Whole
  <2> QED BY <2>1, <2>2, IsWhole
<1>3. CASE ~Fragment(p) /\ damage = "none" /\ ~TooManyUnits(p)
  <2>1. r = Result([d EXCEPT !.lastSeq = Seqno(p)], Contained(p))
    BY <1>3 DEF DepacketizeH264, HandleSTAPA
  <2> QED BY <1>3, <2>1, PlainWhole, IsWhole
<1> QED BY <1>1, <1>2, <1>3

LEMMA HEVCWhole ==
  ASSUME NEW d \in DepState, FragsOK(d.frags, d.lastSeq), NEW p \in Positions, NEW damage \in Damages
  PROVE  WholeResult(DepacketizeHEVC(d, p, damage), d.buffered)
<1> DEFINE r == DepacketizeHEVC(d, p, damage)
           m == [d EXCEPT !.lastSeq = Seqno(p)]
<1>0. <<>> \in Seq(Goods) /\ Seqno(p) \in Nat
  BY SeqnoType
<1>1. m \in DepState /\ m.frags = d.frags /\ m.lastSeq = Seqno(p) /\ m.buffered = d.buffered
  BY <1>0, Moved DEF Becomes
<1>2. CASE ~Fragment(p) /\ damage # "none"
  <2>1. r = Result(d, <<>>)
    BY <1>2 DEF DepacketizeHEVC
  <2> QED BY <1>0, <2>1, IsWhole DEF Whole
<1>3. CASE ~Fragment(p) /\ damage = "none"
  <2>1. r = Result(m, Contained(p))
    BY <1>3 DEF DepacketizeHEVC, HandleAggregationPacket
  <2> QED BY <1>3, <2>1, PlainWhole, IsWhole
<1>4. CASE Fragment(p)
  <2>0. r = HandleFragmentationUnit(d, p, damage)
    BY <1>4 DEF DepacketizeHEVC
  <2>1. CASE damage = "broken"
    <3>1. r = Result(PassOver(m, p), <<>>)
      BY <2>0, <2>1 DEF HandleFragmentationUnit
    <3> HIDE DEF m
    <3> QED BY <1>1, <1>4, <3>1, PassWhole
  <2>2. CASE damage # "broken" /\ Starts(p) /\ Ends(p)
    <3>1. r = Result(m, <<>>)
      BY <2>0, <2>2 DEF HandleFragmentationUnit
    <3>2. FragsOK(m.frags, Seqno(p))
      BY <2>2, HeldNow DEF Held
    <3> HIDE DEF m
    <3> QED BY <1>0, <1>1, <3>1, <3>2, IsWhole DEF Whole
  <2>3. CASE damage # "broken" /\ Starts(p) /\ ~Ends(p)
    <3>1. r = Result([m EXCEPT !.frags = <<Data(p, damage)>>], <<>>)
      BY <2>0, <2>3 DEF HandleFragmentationUnit
    <3> HIDE DEF m
    <3> QED BY <1>1, <1>4, <2>3, <3>1, StartWhole
  <2>4. CASE damage # "broken" /\ ~Starts(p)
    <3>1. r = Continue(m, d.lastSeq, p, damage)
      BY <2>0, <2>4 DEF HandleFragmentationUnit
    <3>2. FragsOK(m.frags, d.lastSeq)
      BY <1>1
    <3> HIDE DEF m
    <3> QED BY <1>1, <1>4, <2>4, <3>1, <3>2, ContinueWhole
  <2> QED BY <2>1, <2>2, <2>3, <2>4
<1> QED BY <1>2, <1>3, <1>4

-----------------------------------------------------------------------------
(* AV1                                                                     *)

\* What packet p completes.
New(p) ==
  IF ~Ends(p) THEN <<>> ELSE IF Fragment(p) THEN <<Piece(p)>> ELSE Contained(p)

\* Packet p is the next one, and the fragments f are those before it.
Next1(f, p) ==
  /\ Fragment(p) => Pure(p) /\ DepPackets[p].parts \in 2..MaxParts
  /\ ~Starts(p) => \E q \in Positions : p = q + 1 /\ Pure(q) /\ f = Piece(q)

\* State d, with the units o handed on, adds what p completes to the units b.
Adds(d, o, b, p) == Held(d.frags, p) /\ o \o d.buffered = b \o New(p)

Keeps(d, o, b, p, next) ==
  /\ d \in DepState /\ FragsOK(d.frags, d.lastSeq) /\ d.lastSeq = Seqno(p)
  /\ o \in Seq(Goods) /\ (next => Adds(d, o, b, p))
KeepsResult(r, b, p, next) == \E d, o : r = Result(d, o) /\ Keeps(d, o, b, p, next)

LEMMA IsKept ==
  ASSUME NEW d, NEW o, NEW b, NEW p, NEW next, Keeps(d, o, b, p, next), NEW r, r = Result(d, o)
  PROVE  KeepsResult(r, b, p, next)
BY DEF KeepsResult

\* e is d with the units b waiting.
Rebuffered(e, d, b) ==
  /\ e \in DepState /\ e.buffered = b
  /\ e.frags = d.frags /\ e.lastSeq = d.lastSeq /\ e.seen = d.seen /\ e.frame = d.frame

LEMMA Waiting ==
  ASSUME NEW d \in DepState, NEW b \in Seq(Goods)
  PROVE  Rebuffered([d EXCEPT !.buffered = b], d, b)
BY DEF DepState, Rebuffered

LEMMA NewType ==
  ASSUME NEW p \in Positions, DepPackets[p].kind # "mixed"
  PROVE  New(p) \in Seq(Goods)
<1>1. CASE Fragment(p)
  <2>1. DepPackets[p].kind \notin {"bundle", "mixed"}
    BY <1>1 DEF Fragment
  <2>2. Ends(p) => Piece(p) \in Goods
    BY <2>1, PieceType DEF Goods
  <2>3. New(p) = IF Ends(p) THEN <<Piece(p)>> ELSE <<>>
    BY <1>1 DEF New
  <2> HIDE DEF Piece, New
  <2> QED BY <2>2, <2>3
<1>2. CASE ~Fragment(p)
  BY <1>2, ContainedUnits DEF New
<1> QED BY <1>1, <1>2

LEMMA PieceSize == ASSUME NEW p \in Positions, Pure(p) PROVE Size(Piece(p)) = DepPackets[p].part
<1>1. Piece(p) \in Seq(Chunks) /\ Len(Piece(p)) = DepPackets[p].part /\ DepPackets[p].part \in Nat
  BY PieceType, Sent DEF Pure
<1>2. \A i \in 1..Len(Piece(p)) : Piece(p)[i][2] # 0
  BY <1>1 DEF Piece
<1> QED BY <1>1, <1>2, SizeIs

\* A packet of one part completes what it carries.
LEMMA PlainEnds == ASSUME NEW p \in Positions, ~Fragment(p) PROVE Ends(p) /\ Starts(p) /\ New(p) = Contained(p)
<1>1. DepPackets[p].kind \in {"plain", "bundle"}
  BY Sent DEF PacketType, Fragment
<1> QED BY <1>1, Sent DEF WellSent, Fragment, Ends, Starts, New

LEMMA EmptyConcat == ASSUME NEW T, NEW s \in Seq(T) PROVE s \o <<>> = s /\ <<>> \o s = s
OBVIOUS

LEMMA ConcatAssoc ==
  ASSUME NEW T, NEW s \in Seq(T), NEW t \in Seq(T), NEW u \in Seq(T)
  PROVE  (s \o t) \o u = s \o (t \o u)
OBVIOUS

LEMMA AppendConcat ==
  ASSUME NEW T, NEW s \in Seq(T), NEW x \in T
  PROVE  Append(s, x) = s \o <<x>> /\ Append(s, x) \in Seq(T)
OBVIOUS

LEMMA ReceiveKeeps ==
  ASSUME NEW d \in DepState, NEW p \in Positions, NEW damage \in Damages, d.lastSeq = Seqno(p), NEW last,
         Fragment(p) /\ ~Starts(p) /\ d.frags # <<>> => Follows(Seqno(p), last) /\ FragsOK(d.frags, last)
  PROVE  KeepsResult(ReceiveOBU(d, p, damage), d.buffered, p, Next1(d.frags, p) /\ damage = "none")
<1> DEFINE r == ReceiveOBU(d, p, damage)
           new == DepPackets[p].new
           w == d.buffered
           out == IF new THEN w ELSE <<>>
           left == IF new THEN <<>> ELSE w
           b == [d EXCEPT !.buffered = IF new THEN <<>> ELSE @]
           next == Next1(d.frags, p) /\ damage = "none"
           f == d.frags
<1>1. w \in Seq(Goods) /\ out \in Seq(Goods) /\ left \in Seq(Goods) /\ f \in Seq(Chunks) /\ <<>> \in Seq(Goods)
  BY DEF DepState
<1>2. out \o left = w
  BY <1>1, EmptyConcat
<1>3. Rebuffered(b, d, left)
  <2>1. b = [d EXCEPT !.buffered = left]
    BY DEF DepState
  <2> QED BY <1>1, <2>1, Waiting
<1>4. b \in DepState /\ b.frags = f /\ b.lastSeq = Seqno(p) /\ b.buffered = left
  BY <1>3 DEF Rebuffered
<1>5. CASE ~Fragment(p)
  <2>1. Contained(p) \in Seq(Goods) /\ New(p) = Contained(p) /\ Held(f, p) /\ FragsOK(f, Seqno(p))
    BY <1>5, ContainedUnits, PlainEnds, HeldNow DEF Held
  <2>2. CASE damage # "none"
    <3>1. r = Result(b, <<>>)
      BY <1>5, <2>2 DEF ReceiveOBU
    <3> HIDE DEF b
    <3>2. Keeps(b, <<>>, w, p, next)
      BY <1>1, <1>4, <2>1, <2>2 DEF Keeps
    <3> QED BY <3>1, <3>2, IsKept
  <2>3. CASE damage = "none"
    <3> DEFINE e == [b EXCEPT !.buffered = left \o Contained(p)]
    <3>1. r = Result(e, out)
      <4>1. r = Result([b EXCEPT !.buffered = @ \o Contained(p)], out)
        BY <1>5, <2>3 DEF ReceiveOBU
      <4> HIDE DEF b, left, out
      <4>2. [b EXCEPT !.buffered = @ \o Contained(p)] = e
        BY <1>4 DEF DepState
      <4> QED BY <4>1, <4>2
    <3> HIDE DEF b, left, out
    <3>2. left \o Contained(p) \in Seq(Goods)
      BY <1>1, <2>1
    <3>3. Rebuffered(e, b, left \o Contained(p))
      BY <1>4, <3>2, Waiting
    <3>4. out \o (left \o Contained(p)) = w \o Contained(p)
      <4>1. (out \o left) \o Contained(p) = out \o (left \o Contained(p))
        BY <1>1, <2>1, ConcatAssoc
      <4> QED BY <1>2, <4>1
    <3>5. Keeps(e, out, w, p, next)
      BY <1>1, <1>4, <2>1, <3>3, <3>4 DEF Keeps, Adds, Rebuffered
    <3> QED BY <3>1, <3>5, IsKept
  <2> QED BY <2>2, <2>3
<1>6. CASE Fragment(p) /\ Starts(p)
  <2> DEFINE c == <<Data(p, damage)>>
             e == [b EXCEPT !.frags = c]
  <2>1. r = Result(e, out)
    BY <1>6 DEF ReceiveOBU
  <2>2. Right(c, p) /\ c \in Seq(Chunks) /\ (next => c = Piece(p))
    <3>1. next => c = Piece(p)
      BY <1>6, PieceType DEF Next1, Pure, Data
    <3> QED BY <1>6, <3>1, RightStart
  <2> HIDE DEF b, left, out, c
  <2>3. Becomes(e, b, c, b.lastSeq)
    BY <1>4, <2>2, Refilled
  <2>4. FragsOK(c, Seqno(p)) /\ (next => Held(c, p))
    BY <2>2, RightNow DEF Held, Next1
  <2>5. next => New(p) = <<>>
    BY <1>6 DEF Next1, New, Starts, Ends
  <2>6. w \o <<>> = w
    BY <1>1, EmptyConcat
  <2> HIDE DEF next
  <2>7. Keeps(e, out, w, p, next)
    BY <1>1, <1>2, <1>4, <2>3, <2>4, <2>5, <2>6 DEF Keeps, Adds, Becomes
  <2> QED BY <2>1, <2>7, IsKept DEF next
<1>7. CASE Fragment(p) /\ ~Starts(p)
  <2>1. CASE f = <<>>
    <3>1. r = Result(b, out)
      BY <1>4, <1>7, <2>1 DEF ReceiveOBU
    <3>2. ~next
      BY <1>7, <2>1, PieceType DEF Next1, Pure
    <3> HIDE DEF b, out, next
    <3>3. Keeps(b, out, w, p, next)
      BY <1>1, <1>4, <2>1, <3>2 DEF Keeps, FragsOK
    <3> QED BY <3>1, <3>3, IsKept DEF next
  <2>2. CASE f # <<>>
    <3> DEFINE c == Append(f, Data(p, damage))
    <3>2. Right(c, p) /\ c \in Seq(Chunks)
      BY <1>1, <1>7, <2>2, Grown
    <3>1. ASSUME next PROVE c = Piece(p) /\ ~(Size(c) > MaxParts) /\ Pure(p)
      <4>1. PICK q \in Positions : p = q + 1 /\ Pure(q) /\ f = Piece(q)
        BY <1>7, <3>1 DEF Next1
      <4>2. Pure(p) /\ damage = "none" /\ DepPackets[p].parts \in 2..MaxParts
        BY <1>7, <3>1 DEF Next1
      <4>3. Data(p, damage) = Chunk(p) /\ DepPackets[p].kind # "mixed"
        BY <4>2 DEF Data, Pure
      <4>4. c = Piece(p)
        BY <1>7, <4>1, <4>3, PieceGrows
      <4> HIDE DEF c
      <4>5. Size(c) = DepPackets[p].part
        BY <4>2, <4>4, PieceSize
      <4> QED BY <4>2, <4>4, <4>5, Sent, DepacketizerAssumption
    <3>3. CASE Size(c) > MaxParts
      <4>1. r = Result(DropFragments(b), <<>>)
        BY <1>4, <1>7, <2>2, <3>3 DEF ReceiveOBU
      <4>2. ~next
        BY <3>1, <3>3
      <4> HIDE DEF b, next
      <4>3. Becomes(DropFragments(b), b, <<>>, b.lastSeq)
        BY <1>4, Emptied
      <4>4. Keeps(DropFragments(b), <<>>, w, p, next)
        BY <1>1, <1>4, <4>2, <4>3 DEF Keeps, FragsOK, Becomes
      <4> QED BY <4>1, <4>4, IsKept DEF next
    <3>4. CASE ~(Size(c) > MaxParts) /\ Ends(p)
      <4> DEFINE k == DropFragments(b)
                 e == [k EXCEPT !.buffered = Append(left, c)]
      <4>0. Becomes(k, b, <<>>, b.lastSeq)
        BY <1>4, Emptied
      <4>1. r = Result(e, out)
        <5>1. r = Result([k EXCEPT !.buffered = Append(@, c)], out)
          BY <1>4, <1>7, <2>2, <3>4 DEF ReceiveOBU
        <5> HIDE DEF k, out, left, c
        <5>2. [k EXCEPT !.buffered = Append(@, c)] = e
          BY <1>4, <4>0 DEF DepState, Becomes
        <5> QED BY <5>1, <5>2
      <4>2. c \in Goods /\ (next => New(p) = <<c>>)
        <5>1. c \in Goods
          BY <3>2, <3>4, RightEnds
        <5>2. next => New(p) = <<c>>
          BY <1>7, <3>1, <3>4 DEF New
        <5> QED BY <5>1, <5>2
      <4> HIDE DEF k, out, left, b, c, next
      <4>3. Append(left, c) = left \o <<c>> /\ Append(left, c) \in Seq(Goods) /\ <<c>> \in Seq(Goods)
        BY <1>1, <4>2, AppendConcat
      <4>4. Rebuffered(e, k, Append(left, c))
        BY <4>0, <4>3, Waiting DEF Becomes
      <4>5. out \o (left \o <<c>>) = w \o <<c>>
        <5>1. (out \o left) \o <<c>> = out \o (left \o <<c>>)
          BY <1>1, <4>3, ConcatAssoc
        <5> QED BY <1>2, <5>1
      <4>6. e \in DepState /\ e.frags = <<>> /\ e.lastSeq = Seqno(p) /\ e.buffered = left \o <<c>>
        BY <1>4, <4>0, <4>3, <4>4 DEF Becomes, Rebuffered
      <4>7. Held(<<>>, p)
        BY <3>4 DEF Held
      <4> HIDE DEF e
      <4>8. Keeps(e, out, w, p, next)
        BY <1>1, <4>2, <4>5, <4>6, <4>7 DEF Keeps, Adds, FragsOK
      <4> QED BY <4>1, <4>8, IsKept DEF next
    <3>5. CASE ~(Size(c) > MaxParts) /\ ~Ends(p)
      <4> DEFINE e == [b EXCEPT !.frags = c]
      <4>1. r = Result(e, out)
        BY <1>4, <1>7, <2>2, <3>5 DEF ReceiveOBU
      <4>3. FragsOK(c, Seqno(p)) /\ (next => Held(c, p))
        BY <3>1, <3>2, RightNow DEF Held
      <4> HIDE DEF b, out, left, c, next
      <4>2. Becomes(e, b, c, b.lastSeq)
        BY <1>4, <3>2, Refilled
      <4>4. New(p) = <<>> /\ w \o <<>> = w
        BY <1>1, <3>5, EmptyConcat DEF New
      <4>5. e \in DepState /\ e.frags = c /\ e.lastSeq = Seqno(p) /\ e.buffered = left
        BY <1>4, <4>2 DEF Becomes
      <4> HIDE DEF e
      <4>6. Keeps(e, out, w, p, next)
        BY <1>1, <1>2, <4>3, <4>4, <4>5 DEF Keeps, Adds
      <4> QED BY <4>1, <4>6, IsKept DEF next
    <3> QED BY <3>3, <3>4, <3>5
  <2> QED BY <2>1, <2>2
<1> QED BY <1>5, <1>6, <1>7

LEMMA CutInTwo ==
  ASSUME NEW T, NEW s \in Seq(T), NEW i \in 2..Len(s)
  PROVE  /\ SubSeq(s, 1, i - 1) \in Seq(T) /\ SubSeq(s, i, Len(s)) \in Seq(T)
         /\ SubSeq(s, 1, i - 1) \o SubSeq(s, i, Len(s)) = s
<1> DEFINE n == Len(s)
           a == SubSeq(s, 1, i - 1)
           b == SubSeq(s, i, n)
           c == a \o b
<1>0. n \in Nat /\ i \in Nat /\ i >= 2 /\ i <= n
  OBVIOUS
<1>1. a \in Seq(T) /\ Len(a) = i - 1 /\ \A j \in 1..(i - 1) : a[j] = s[j]
  <2> DEFINE k == i - 1
  <2>1. 1 \in 1..(Len(s) + 1) /\ k \in (1 - 1)..Len(s) /\ k - 1 + 1 = k /\ \A j \in 1..k : 1 + j - 1 = j
    BY <1>0
  <2> HIDE DEF k
  <2>2. /\ SubSeq(s, 1, k) \in Seq(T) /\ Len(SubSeq(s, 1, k)) = k - 1 + 1
        /\ \A j \in 1..(k - 1 + 1) : SubSeq(s, 1, k)[j] = s[1 + j - 1]
    BY <2>1, SubSeqIs
  <2> QED BY <2>1, <2>2 DEF k
<1>2. b \in Seq(T) /\ Len(b) = n - i + 1 /\ \A j \in 1..(n - i + 1) : b[j] = s[i + j - 1]
  <2>1. i \in 1..(Len(s) + 1) /\ n \in (i - 1)..Len(s)
    BY <1>0
  <2> QED BY <2>1, SubSeqIs
<1> HIDE DEF a, b, n
<1>3. c \in Seq(T) /\ Len(c) = n /\ \A j \in 1..n : c[j] = IF j <= i - 1 THEN a[j] ELSE b[j - (i - 1)]
  <2>1. /\ c \in Seq(T) /\ Len(c) = Len(a) + Len(b)
        /\ \A j \in 1..(Len(a) + Len(b)) : c[j] = IF j <= Len(a) THEN a[j] ELSE b[j - Len(a)]
    BY <1>1, <1>2, ConcatProperties
  <2>2. Len(a) = i - 1 /\ Len(a) + Len(b) = n
    BY <1>0, <1>1, <1>2
  <2> HIDE DEF c
  <2> QED BY <2>1, <2>2
<1>4. ASSUME NEW j \in 1..n PROVE c[j] = s[j]
  <2>1. CASE j <= i - 1
    BY <1>0, <1>1, <1>3, <2>1
  <2>2. CASE ~(j <= i - 1)
    <3>1. j - (i - 1) \in 1..(n - i + 1) /\ i + (j - (i - 1)) - 1 = j
      BY <1>0, <2>2
    <3>2. b[j - (i - 1)] = s[i + (j - (i - 1)) - 1]
      BY <1>2, <3>1
    <3> QED BY <1>3, <2>2, <3>1, <3>2
  <2> QED BY <2>1, <2>2
<1> HIDE DEF c
<1>5. s \in Seq(T) /\ Len(s) = n
  BY DEF n
<1>6. c = s
  BY <1>3, <1>4, <1>5
<1> QED BY <1>1, <1>2, <1>6 DEF a, b, c, n

LEMMA OfResult == ASSUME NEW d, NEW o PROVE Result(d, o).d = d /\ Result(d, o).out = o
BY DEF Result

\* Cutting the waiting units at a delimiter loses none.
LEMMA SplitKeeps ==
  ASSUME NEW r, NEW b \in Seq(Goods), NEW p \in Positions, NEW next \in BOOLEAN, KeepsResult(r, b, p, next)
  PROVE  KeepsResult(SplitAtDelimiter(r), b, p, next)
<1>1. PICK d, o : r = Result(d, o) /\ Keeps(d, o, b, p, next)
  BY DEF KeepsResult
<1>2. r.d = d /\ r.out = o
  BY <1>1, OfResult
<1> DEFINE w == d.buffered
           at == {i \in 2..Len(w) : IsDelimiter(w[i])}
           i == CHOOSE j \in at : \A k \in at : j <= k
<1>3. d \in DepState /\ o \in Seq(Goods) /\ w \in Seq(Goods) /\ Len(w) \in Nat
  BY <1>1 DEF Keeps, DepState
<1>4. CASE d.frags # <<>> \/ at = {}
  <2>1. SplitAtDelimiter(r) = r
    BY <1>2, <1>4 DEF SplitAtDelimiter
  <2> QED BY <2>1
<1>5. CASE ~(d.frags # <<>> \/ at = {})
  <2> DEFINE x == SubSeq(w, 1, i - 1)
             y == SubSeq(w, i, Len(w))
             e == [d EXCEPT !.buffered = y]
  <2>1. SplitAtDelimiter(r) = Result(e, o \o x)
    BY <1>2, <1>5 DEF SplitAtDelimiter
  <2>2. i \in at
    <3>1. at \in SUBSET Nat /\ at # {}
      BY <1>3, <1>5
    <3> HIDE DEF at
    <3>2. \E j \in at : \A k \in at : j <= k
      BY <3>1, LeastExists
    <3> QED BY <3>2
  <2>3. i \in 2..Len(w)
    BY <2>2
  <2> HIDE DEF i
  <2>4. x \in Seq(Goods) /\ y \in Seq(Goods) /\ x \o y = w
    <3> HIDE DEF w
    <3> QED BY <1>3, <2>3, CutInTwo
  <2> HIDE DEF x, y
  <2>5. Rebuffered(e, d, y)
    BY <1>3, <2>4, Waiting
  <2>6. (o \o x) \o y = o \o w /\ o \o x \in Seq(Goods)
    <3>0. o \in Seq(Goods) /\ x \in Seq(Goods) /\ y \in Seq(Goods)
      BY <1>3, <2>4
    <3>1. (o \o x) \o y = o \o (x \o y)
      BY <3>0, ConcatAssoc
    <3> QED BY <1>3, <2>4, <3>1
  <2>7. Keeps(e, o \o x, b, p, next)
    BY <1>1, <2>5, <2>6 DEF Keeps, Adds, Rebuffered
  <2> HIDE DEF e
  <2> QED BY <2>1, <2>7, IsKept
<1> QED BY <1>4, <1>5

LEMMA KeepsLess ==
  ASSUME NEW r, NEW b, NEW p, NEW next \in BOOLEAN, NEW less \in BOOLEAN, KeepsResult(r, b, p, next), less => next
  PROVE  KeepsResult(r, b, p, less)
BY DEF KeepsResult, Keeps

LEMMA AV1Keeps ==
  ASSUME NEW d \in DepState, FragsOK(d.frags, d.lastSeq), NEW p \in Positions,
         NEW damage \in Damages, ~(Fragment(p) /\ damage = "broken"), NEW next \in BOOLEAN,
         next => Next1(d.frags, p) /\ damage = "none" /\ (d.frags # <<>> => Follows(Seqno(p), d.lastSeq))
  PROVE  KeepsResult(DepacketizeAV1(d, p, damage), d.buffered, p, next)
<1> DEFINE r == DepacketizeAV1(d, p, damage)
           lost == d.frags # <<>> /\ ~Follows(Seqno(p), d.lastSeq)
           e == IF lost THEN DropFragments(d) ELSE d
           d1 == [e EXCEPT !.lastSeq = Seqno(p)]
           late == Fragment(p) /\ ~Starts(p)
           q1 == ReceiveOBU(d1, p, damage)
<1>1. e \in DepState /\ e.frags = (IF lost THEN <<>> ELSE d.frags) /\ e.buffered = d.buffered
  <2>1. Becomes(DropFragments(d), d, <<>>, d.lastSeq)
    BY Emptied
  <2> QED BY <2>1 DEF Becomes
<1>2. d1 \in DepState /\ d1.frags = (IF lost THEN <<>> ELSE d.frags) /\ d1.buffered = d.buffered /\ d1.lastSeq = Seqno(p)
  <2> HIDE DEF e
  <2>1. Becomes(d1, e, e.frags, Seqno(p))
    BY <1>1, SeqnoType, Moved
  <2> QED BY <1>1, <2>1 DEF Becomes
<1>3. /\ (lost /\ late) => r = Result(d1, <<>>)
      /\ ~(lost /\ late) => r = q1 \/ r = SplitAtDelimiter(q1)
  BY DEF DepacketizeAV1
<1>4. next => ~lost
  OBVIOUS
<1>5. d.buffered \in Seq(Goods) /\ <<>> \in Seq(Goods)
  BY DEF DepState
<1> HIDE DEF d1, e, r, q1
<1>6. CASE lost /\ late
  <2>1. Keeps(d1, <<>>, d.buffered, p, next)
    BY <1>2, <1>4, <1>5, <1>6 DEF Keeps, FragsOK
  <2> QED BY <1>3, <1>6, <2>1, IsKept DEF r
<1>7. CASE ~(lost /\ late)
  <2>1. ASSUME Fragment(p), ~Starts(p), d1.frags # <<>>
        PROVE  Follows(Seqno(p), d.lastSeq) /\ FragsOK(d1.frags, d.lastSeq)
    BY <1>2, <2>1
  <2> DEFINE n == Next1(d1.frags, p) /\ damage = "none"
  <2>2. KeepsResult(q1, d1.buffered, p, n)
    BY <1>2, <2>1, ReceiveKeeps DEF q1
  <2>3. next => n
    BY <1>2, <1>4
  <2>4. n \in BOOLEAN
    BY DEF Next1
  <2> HIDE DEF n
  <2>5. KeepsResult(q1, d.buffered, p, next)
    BY <1>2, <2>2, <2>3, <2>4, KeepsLess
  <2>6. KeepsResult(SplitAtDelimiter(q1), d.buffered, p, next)
    BY <1>5, <2>5, SplitKeeps
  <2> QED BY <1>3, <1>7, <2>5, <2>6 DEF r
<1> QED BY <1>6, <1>7

-----------------------------------------------------------------------------
(* Packets in order                                                        *)

\* Packet p is complete in itself, and state d is what the packets before it left.
Ready(d, p) ==
  /\ Fragment(p) => Pure(p) /\ DepPackets[p].parts \in 2..MaxParts
  /\ p = 1 => d.frags = <<>>
  /\ p > 1 => d.lastSeq = Seqno(p - 1) /\ Held(d.frags, p - 1)

AddsResult(r, b, p) == \E d, o : r = Result(d, o) /\ d.lastSeq = Seqno(p) /\ Adds(d, o, b, p)

LEMMA IsAdded ==
  ASSUME NEW d, NEW o, NEW b, NEW p, d.lastSeq = Seqno(p), Adds(d, o, b, p), NEW r, r = Result(d, o)
  PROVE  AddsResult(r, b, p)
BY DEF AddsResult

LEMMA ReadyNext ==
  ASSUME NEW d, NEW p \in Positions, Ready(d, p)
  PROVE  /\ Next1(d.frags, p) /\ (d.frags # <<>> => Follows(Seqno(p), d.lastSeq))
         /\ ~Starts(p) => /\ p - 1 \in Positions /\ p = (p - 1) + 1 /\ Pure(p - 1)
                          /\ Follows(Seqno(p), d.lastSeq) /\ Seqno(p) # d.lastSeq
                          /\ d.lastSeq = Seqno(p - 1) /\ d.frags = Piece(p - 1)
<1>0. p \in Nat \ {0} /\ (p > 1 => p - 1 \in Positions /\ p = (p - 1) + 1)
  BY Sent DEF Positions
<1>1. CASE p = 1
  <2>1. Starts(p) /\ d.frags = <<>>
    BY <1>1, StartOf DEF Ready
  <2> QED BY <2>1 DEF Ready, Next1
<1>2. CASE p > 1
  <2> DEFINE q == p - 1
  <2>1. q \in Positions /\ p = q + 1 /\ d.lastSeq = Seqno(q) /\ Held(d.frags, q)
    BY <1>0, <1>2 DEF Ready
  <2> HIDE DEF q
  <2>2. Follows(Seqno(p), Seqno(q))
    BY <2>1, SeqnoNext
  <2>3. Seqno(p) # Seqno(q)
    BY <1>0, <2>1, SeqnoSame
  <2>4. ASSUME ~Starts(p) PROVE d.frags = Piece(q) /\ Pure(q)
    BY <2>1, <2>4, Before DEF Held
  <2>5. Next1(d.frags, p)
    BY <2>1, <2>4 DEF Next1, Ready
  <2> QED BY <2>1, <2>2, <2>3, <2>4, <2>5 DEF q
<1> QED BY <1>0, <1>1, <1>2

\* H.264 and HEVC
LEMMA ContinueAdds ==
  ASSUME NEW d \in DepState, NEW p \in Positions, Ready(d, p), Fragment(p), ~Starts(p), d.buffered = <<>>,
         NEW m, Becomes(m, d, d.frags, Seqno(p))
  PROVE  AddsResult(Continue(m, d.lastSeq, p, "none"), <<>>, p)
<1> DEFINE r == Continue(m, d.lastSeq, p, "none")
           q == p - 1
           c == Append(m.frags, Chunk(p))
<1>1. /\ q \in Positions /\ p = q + 1 /\ Pure(q) /\ Follows(Seqno(p), d.lastSeq) /\ Seqno(p) # d.lastSeq
      /\ d.frags = Piece(q)
  BY ReadyNext
<1> HIDE DEF q
<1>2. m \in DepState /\ m.frags = Piece(q) /\ m.buffered = <<>> /\ m.lastSeq = Seqno(p)
  BY <1>1 DEF Becomes
<1>3. /\ c = Piece(p) /\ m.frags # <<>> /\ c \in Seq(Chunks) /\ Pure(p)
      /\ Append(m.frags, Data(p, "none")) = c
  <2>1. DepPackets[p].kind = "part" /\ DepPackets[q].kind = "part" /\ Data(p, "none") = Chunk(p)
    BY <1>1 DEF Ready, Pure, Data
  <2> QED BY <1>1, <1>2, <2>1, PieceGrows, PieceType DEF Pure
<1>4. ~(Size(c) > MaxParts)
  <2>1. Size(c) = DepPackets[p].part
    BY <1>3, PieceSize
  <2> QED BY <2>1, Sent, DepacketizerAssumption DEF Ready
<1>5. CASE Ends(p)
  <2>1. r = Result(DropFragments(m), <<c>>)
    BY <1>1, <1>3, <1>4, <1>5 DEF Continue
  <2>2. Becomes(DropFragments(m), m, <<>>, m.lastSeq)
    BY <1>2, Emptied
  <2>3. New(p) = <<c>>
    BY <1>3, <1>5 DEF New
  <2>4. <<c>> \o <<>> = <<>> \o <<c>>
    OBVIOUS
  <2>5. Adds(DropFragments(m), <<c>>, <<>>, p)
    BY <1>2, <1>5, <2>2, <2>3, <2>4 DEF Becomes, Adds, Held, Ready
  <2>6. DropFragments(m).lastSeq = Seqno(p)
    BY <1>2, <2>2 DEF Becomes
  <2> QED BY <2>1, <2>5, <2>6, IsAdded
<1>6. CASE ~Ends(p)
  <2> DEFINE e == [m EXCEPT !.frags = c]
  <2>1. r = Result(e, <<>>)
    BY <1>1, <1>3, <1>4, <1>6 DEF Continue
  <2>2. Becomes(e, m, c, m.lastSeq)
    BY <1>2, <1>3, Refilled
  <2>3. New(p) = <<>> /\ <<>> \o <<>> = <<>>
    BY <1>6 DEF New
  <2> HIDE DEF e
  <2>4. Adds(e, <<>>, <<>>, p) /\ e.lastSeq = Seqno(p)
    BY <1>2, <1>3, <2>2, <2>3 DEF Becomes, Adds, Held, Ready
  <2> QED BY <2>1, <2>4, IsAdded
<1> QED BY <1>5, <1>6

LEMMA StartAdds ==
  ASSUME NEW d \in DepState, NEW p \in Positions, Ready(d, p), Fragment(p), Starts(p), d.buffered = <<>>,
         NEW m, Becomes(m, d, d.frags, Seqno(p))
  PROVE  ~Ends(p) /\ AddsResult(Result([m EXCEPT !.frags = <<Chunk(p)>>], <<>>), <<>>, p)
<1> DEFINE e == [m EXCEPT !.frags = <<Chunk(p)>>]
<1>1. ~Ends(p)
  BY DEF Ready, Starts, Ends
<1>2. <<Chunk(p)>> = Piece(p) /\ <<Chunk(p)>> \in Seq(Chunks)
  BY PieceType DEF Ready, Pure
<1>3. m \in DepState
  BY DEF Becomes
<1>4. Becomes(e, m, <<Chunk(p)>>, m.lastSeq)
  BY <1>2, <1>3, Refilled
<1>5. New(p) = <<>> /\ <<>> \o <<>> = <<>>
  BY <1>1 DEF New
<1> HIDE DEF e
<1>6. Adds(e, <<>>, <<>>, p) /\ e.lastSeq = Seqno(p)
  BY <1>2, <1>4, <1>5 DEF Becomes, Adds, Held, Ready
<1>7. AddsResult(Result(e, <<>>), <<>>, p)
  BY <1>6, IsAdded
<1> QED BY <1>1, <1>7 DEF e

LEMMA PlainAdds ==
  ASSUME NEW d \in DepState, NEW p \in Positions, ~Fragment(p), d.buffered = <<>>
  PROVE  AddsResult(Result([d EXCEPT !.lastSeq = Seqno(p)], Contained(p)), <<>>, p)
<1> DEFINE e == [d EXCEPT !.lastSeq = Seqno(p)]
           o == Contained(p)
<1>1. Becomes(e, d, d.frags, Seqno(p))
  BY SeqnoType, Moved
<1>2. o \in Seq(Goods) /\ New(p) = o /\ Held(d.frags, p)
  BY ContainedUnits, PlainEnds DEF Held
<1> HIDE DEF o, e
<1>3. o \o <<>> = <<>> \o o
  BY <1>2
<1>4. Adds(e, o, <<>>, p) /\ e.lastSeq = Seqno(p)
  BY <1>1, <1>2, <1>3 DEF Adds, Becomes
<1>5. AddsResult(Result(e, o), <<>>, p)
  BY <1>4, IsAdded
<1> QED BY <1>5 DEF e, o

LEMMA H264Adds ==
  ASSUME NEW d \in DepState, NEW p \in Positions, Ready(d, p), d.buffered = <<>>, ~TooManyUnits(p)
  PROVE  AddsResult(DepacketizeH264(d, p, "none", FALSE), <<>>, p)
<1> DEFINE r == DepacketizeH264(d, p, "none", FALSE)
           m == [d EXCEPT !.lastSeq = Seqno(p)]
<1>0. Becomes(m, d, d.frags, Seqno(p))
  BY SeqnoType, Moved
<1>1. CASE ~Fragment(p)
  <2>1. r = Result(m, Contained(p))
    BY <1>1 DEF DepacketizeH264, HandleSTAPA
  <2> QED BY <1>1, <2>1, PlainAdds
<1>2. CASE Fragment(p)
  <2>1. r = HandleFUA(d, p, "none", FALSE)
    BY <1>2 DEF DepacketizeH264
  <2>2. CASE Starts(p)
    <3>1. ~Ends(p) => r = Result([m EXCEPT !.frags = <<Chunk(p)>>], <<>>)
      BY <2>1, <2>2 DEF HandleFUA
    <3> HIDE DEF m
    <3>2. ~Ends(p) /\ AddsResult(Result([m EXCEPT !.frags = <<Chunk(p)>>], <<>>), <<>>, p)
      BY <1>0, <1>2, <2>2, StartAdds
    <3> QED BY <3>1, <3>2
  <2>3. CASE ~Starts(p)
    <3>1. r = Continue(m, d.lastSeq, p, "none")
      BY <2>1, <2>3 DEF HandleFUA
    <3> HIDE DEF m
    <3>2. AddsResult(Continue(m, d.lastSeq, p, "none"), <<>>, p)
      BY <1>0, <1>2, <2>3, ContinueAdds
    <3> QED BY <3>1, <3>2
  <2> QED BY <2>2, <2>3
<1> QED BY <1>1, <1>2

LEMMA HEVCAdds ==
  ASSUME NEW d \in DepState, NEW p \in Positions, Ready(d, p), d.buffered = <<>>
  PROVE  AddsResult(DepacketizeHEVC(d, p, "none"), <<>>, p)
<1> DEFINE r == DepacketizeHEVC(d, p, "none")
           m == [d EXCEPT !.lastSeq = Seqno(p)]
<1>0. Becomes(m, d, d.frags, Seqno(p))
  BY SeqnoType, Moved
<1>1. CASE ~Fragment(p)
  <2>1. r = Result(m, Contained(p))
    BY <1>1 DEF DepacketizeHEVC, HandleAggregationPacket
  <2> QED BY <1>1, <2>1, PlainAdds
<1>2. CASE Fragment(p)
  <2>1. r = HandleFragmentationUnit(d, p, "none")
    BY <1>2 DEF DepacketizeHEVC
  <2>2. CASE Starts(p)
    <3>1. ~Ends(p) => r = Result([m EXCEPT !.frags = <<Chunk(p)>>], <<>>)
      BY <2>1, <2>2 DEF HandleFragmentationUnit, Data
    <3> HIDE DEF m
    <3>2. ~Ends(p) /\ AddsResult(Result([m EXCEPT !.frags = <<Chunk(p)>>], <<>>), <<>>, p)
      BY <1>0, <1>2, <2>2, StartAdds
    <3> QED BY <3>1, <3>2
  <2>3. CASE ~Starts(p)
    <3>1. r = Continue(m, d.lastSeq, p, "none")
      BY <2>1, <2>3 DEF HandleFragmentationUnit, Data
    <3> HIDE DEF m
    <3>2. AddsResult(Continue(m, d.lastSeq, p, "none"), <<>>, p)
      BY <1>0, <1>2, <2>3, ContinueAdds
    <3> QED BY <3>1, <3>2
  <2> QED BY <2>2, <2>3
<1> QED BY <1>1, <1>2

-----------------------------------------------------------------------------
(* JPEG XS                                                                 *)

\* The fragments are the last ones of a frame, up to the last packet.
FrameOK(d) ==
  d.frags # <<>> => \/ d.frags \in Odds
                    \/ /\ d.seen
                       /\ \E q \in Positions : \E n \in 1..DepPackets[q].part :
                             /\ DepPackets[q].kind \notin {"bundle", "mixed"}
                             /\ d.lastSeq = Seqno(q) /\ d.frame = UnitOf(q) /\ d.frags = LastParts(q, n)

Cuts(d, o, b) == d \in DepState /\ FrameOK(d) /\ d.buffered = b /\ o \in Seq(Goods \cup Rests)

\* What a packet makes of a frame; next: the packets before it came in order.
CutResult(r, b, p, next) ==
  \E d, o : /\ r = Result(d, o) /\ Cuts(d, o, b)
            /\ next => d.lastSeq = Seqno(p) /\ d.frame = UnitOf(p) /\ Adds(d, o, <<>>, p)

LEMMA IsCut ==
  ASSUME NEW d, NEW o, NEW b, NEW p, NEW next, Cuts(d, o, b),
         next => d.lastSeq = Seqno(p) /\ d.frame = UnitOf(p) /\ Adds(d, o, <<>>, p),
         NEW r, r = Result(d, o)
  PROVE  CutResult(r, b, p, next)
BY DEF CutResult

LEMMA LastPartsType ==
  ASSUME NEW p \in Positions, DepPackets[p].kind \notin {"bundle", "mixed"}, NEW n \in 1..DepPackets[p].part
  PROVE  /\ LastParts(p, n) \in Seq(Chunks) /\ Len(LastParts(p, n)) = n
         /\ n = DepPackets[p].part => LastParts(p, n) = Piece(p)
         /\ Ends(p) => LastParts(p, n) \in Goods \cup Rests
<1> DEFINE u == UnitOf(p)
           m == DepPackets[p].part
<1>1. u \in Nat /\ u \in SentUnits /\ PartsOf(u) = DepPackets[p].parts /\ m \in Nat /\ n \in Nat /\ 1 <= n /\ n <= m
  BY UnitType, Sent
<1>2. LastParts(p, n) = [i \in 1..n |-> <<u, m - n + i>>]
  BY DEF LastParts
<1>3. Piece(p) = [i \in 1..m |-> <<u, i>>]
  BY DEF Piece
<1>4. Ends(p) => PartsOf(u) = m
  BY <1>1 DEF Ends
<1>5. ASSUME Ends(p), n # m PROVE LastParts(p, n) \in Rests
  <2> DEFINE k == m - n
  <2> HIDE DEF u, m
  <2>1. k \in 1..(PartsOf(u) - 1) /\ PartsOf(u) - k = n
    BY <1>1, <1>4, <1>5
  <2>2. RestOf(u, k) = [i \in 1..n |-> <<u, i + k>>]
    BY <2>1 DEF RestOf
  <2>3. \A i \in 1..n : m - n + i = i + k
    BY <1>1
  <2>4. LastParts(p, n) = RestOf(u, k)
    BY <1>2, <2>2, <2>3
  <2> HIDE DEF k
  <2> QED BY <1>1, <2>1, <2>4 DEF Rests
<1>6. n = m => LastParts(p, n) = Piece(p)
  <2> HIDE DEF u, m
  <2> QED BY <1>1, <1>2, <1>3
<1>7. LastParts(p, n) \in Seq(Chunks) /\ Len(LastParts(p, n)) = n
  <2> HIDE DEF u, m
  <2> QED BY <1>1, <1>2 DEF Chunks
<1>8. Ends(p) => Piece(p) \in Wholes
  BY PieceType
<1> QED BY <1>5, <1>6, <1>7, <1>8 DEF Goods

LEMMA LastPartsGrow ==
  ASSUME NEW p \in Positions, NEW q \in Positions, p = q + 1, ~Starts(p), Pure(q), DepPackets[p].kind # "mixed", NEW n \in 1..DepPackets[q].part
  PROVE  Append(LastParts(q, n), Chunk(p)) = LastParts(p, n + 1) /\ n + 1 \in 1..DepPackets[p].part
<1> DEFINE u == UnitOf(p)
           m == DepPackets[q].part
<1>1. m \in Nat /\ DepPackets[p].part = m + 1 /\ UnitOf(q) = u /\ n \in Nat /\ n <= m
  BY Sent, Before
<1>2. /\ LastParts(q, n) = [i \in 1..n |-> <<u, m - n + i>>] /\ Chunk(p) = <<u, m + 1>>
      /\ LastParts(p, n + 1) = [i \in 1..(n + 1) |-> <<u, (m + 1) - (n + 1) + i>>]
  BY <1>1 DEF LastParts, Chunk
<1> HIDE DEF u, m
<1>3. Append([i \in 1..n |-> <<u, m - n + i>>], <<u, m + 1>>) = [i \in 1..(n + 1) |-> <<u, (m + 1) - (n + 1) + i>>]
  <2>1. \A i \in 1..(n + 1) : (m + 1) - (n + 1) + i = m - n + i /\ (i \notin 1..n => m - n + i = m + 1)
    BY <1>1
  <2> QED BY <1>1, <2>1
<1>4. n + 1 \in 1..DepPackets[p].part
  BY <1>1
<1> QED BY <1>2, <1>3, <1>4

LEMMA FirstPart ==
  ASSUME NEW p \in Positions, DepPackets[p].kind \notin {"bundle", "mixed"}
  PROVE  <<Chunk(p)>> = LastParts(p, 1) /\ 1 \in 1..DepPackets[p].part
<1>1. DepPackets[p].part \in Nat /\ 1 <= DepPackets[p].part
  BY Sent
<1>2. DepPackets[p].part - 1 + 1 = DepPackets[p].part
  BY <1>1
<1> QED BY <1>1, <1>2 DEF Chunk, LastParts

LEMMA FrameCuts ==
  ASSUME NEW d \in DepState, FrameOK(d), NEW p \in Positions, DepPackets[p].kind \notin {"bundle", "mixed"}, NEW damage \in Damages,
         NEW next \in BOOLEAN,
         next => Ready(d, p) /\ damage = "none" /\ d.buffered = <<>> /\ (p = 1 => ~d.seen) /\ (p > 1 => d.frame = UnitOf(p - 1))
  PROVE  CutResult(DepacketizeJPEGXS(d, p, damage), d.buffered, p, next)
<1> DEFINE r == DepacketizeJPEGXS(d, p, damage)
           lost == d.seen /\ ~Follows(Seqno(p), d.lastSeq)
           first == Starts(p) \/ UnitOf(p) # d.frame
           e == IF lost \/ first THEN DropFragments(d) ELSE d
           d1 == [e EXCEPT !.lastSeq = Seqno(p), !.seen = TRUE, !.frame = IF first THEN UnitOf(p) ELSE @]
           frags == Append(d1.frags, Chunk(p))
<1>0. Seqno(p) \in Nat /\ UnitOf(p) \in Nat /\ <<>> \in Seq(Goods \cup Rests)
  BY SeqnoType, UnitType
<1>1. e \in DepState /\ e.frags = (IF lost \/ first THEN <<>> ELSE d.frags) /\ e.buffered = d.buffered /\ e.frame = d.frame
  <2>1. Becomes(DropFragments(d), d, <<>>, d.lastSeq)
    BY Emptied
  <2> QED BY <2>1 DEF Becomes
<1>2. /\ d1 \in DepState /\ d1.frags = (IF lost \/ first THEN <<>> ELSE d.frags) /\ d1.buffered = d.buffered
      /\ d1.lastSeq = Seqno(p) /\ d1.seen = TRUE /\ d1.frame = UnitOf(p)
  <2> HIDE DEF e, lost
  <2> QED BY <1>0, <1>1 DEF DepState
<1>3. /\ damage = "broken" => r = Result(d, <<>>)
      /\ damage # "broken" /\ lost /\ ~first => r = Result(d1, <<>>)
      /\ damage = "empty" /\ ~(lost /\ ~first) => r = Result(PassOver(d1, p), <<>>)
      /\ damage = "none" /\ ~(lost /\ ~first) /\ ~Ends(p) => r = Result([d1 EXCEPT !.frags = frags], <<>>)
      /\ damage = "none" /\ ~(lost /\ ~first) /\ Ends(p) => r = Result(DropFragments(d1), AssembleFrame(frags))
  BY DEF DepacketizeJPEGXS
<1>4. d.frags # <<>> /\ d.frags \notin Odds /\ ~lost /\ ~first =>
        \E q \in Positions : p = q + 1 /\ Pure(q) /\ \E n \in 1..DepPackets[q].part : d.frags = LastParts(q, n)
  <2> SUFFICES ASSUME d.frags # <<>>, d.frags \notin Odds, ~lost, ~first
               PROVE  \E q \in Positions : p = q + 1 /\ Pure(q) /\ \E n \in 1..DepPackets[q].part : d.frags = LastParts(q, n)
    OBVIOUS
  <2>1. PICK q \in Positions : /\ d.lastSeq = Seqno(q) /\ DepPackets[q].kind \notin {"bundle", "mixed"}
                               /\ \E n \in 1..DepPackets[q].part : d.frags = LastParts(q, n)
    BY DEF FrameOK
  <2>2. Follows(Seqno(p), Seqno(q))
    BY <2>1 DEF FrameOK
  <2>3. p = q + 1
    BY <2>1, <2>2, SeqnoNext
  <2>4. Pure(q)
    BY <2>1, <2>3, Before DEF Pure, Fragment
  <2> QED BY <2>1, <2>3, <2>4
<1>5. frags \in Odds \/ \E n \in 1..DepPackets[p].part : frags = LastParts(p, n)
  <2>1. CASE d1.frags = <<>>
    <3>1. frags = <<Chunk(p)>>
      <4> HIDE DEF d1
      <4> QED BY <2>1
    <3> QED BY <3>1, FirstPart
  <2>2. CASE d1.frags # <<>>
    <3>1. d1.frags = d.frags /\ ~lost /\ ~first /\ ~Starts(p)
      BY <1>2, <2>2
    <3>2. CASE d.frags \in Odds
      <4>1. Append(d.frags, Chunk(p)) \in Odds
        BY <3>2, DataType, OddAppended DEF Odds
      <4> QED BY <3>1, <4>1
    <3>3. CASE d.frags \notin Odds
      <4>1. PICK q \in Positions : p = q + 1 /\ Pure(q) /\ \E n \in 1..DepPackets[q].part : d.frags = LastParts(q, n)
        BY <1>4, <2>2, <3>1, <3>3
      <4>2. PICK n \in 1..DepPackets[q].part : d.frags = LastParts(q, n)
        BY <4>1
      <4>3. Append(d.frags, Chunk(p)) = LastParts(p, n + 1) /\ n + 1 \in 1..DepPackets[p].part
        BY <3>1, <4>1, <4>2, LastPartsGrow
      <4> QED BY <3>1, <4>3
    <3> QED BY <3>2, <3>3
  <2> QED BY <2>1, <2>2
<1>6. next => damage = "none" /\ ~lost /\ frags = Piece(p) /\ d.buffered = <<>>
  <2> SUFFICES ASSUME next PROVE damage = "none" /\ ~lost /\ frags = Piece(p) /\ d.buffered = <<>>
    OBVIOUS
  <2>1. Ready(d, p) /\ (p = 1 => ~d.seen) /\ (p > 1 => d.frame = UnitOf(p - 1)) /\ damage = "none" /\ d.buffered = <<>>
    OBVIOUS
  <2>2. ~lost
    <3>1. CASE p = 1
      BY <2>1, <3>1
    <3>2. CASE p > 1
      <4> DEFINE q == p - 1
      <4>1. q \in Positions /\ p = q + 1 /\ d.lastSeq = Seqno(q)
        BY <2>1, <3>2, Sent DEF Positions, Ready
      <4> HIDE DEF q
      <4> QED BY <4>1, SeqnoNext
    <3> QED BY <3>1, <3>2, Sent
  <2>3. CASE Starts(p)
    <3>1. d1.frags = <<>>
      BY <1>2, <2>3
    <3>2. frags = <<Chunk(p)>>
      <4> HIDE DEF d1
      <4> QED BY <3>1
    <3> QED BY <2>1, <2>2, <2>3, <3>2, PieceType
  <2>4. CASE ~Starts(p)
    <3> DEFINE q == p - 1
    <3>1. q \in Positions /\ p = q + 1 /\ d.frags = Piece(q) /\ p > 1 /\ Pure(q)
      BY <2>1, <2>4, ReadyNext, StartOf, Sent
    <3>2. UnitOf(q) = UnitOf(p) /\ d.frame = UnitOf(q)
      BY <2>1, <2>4, <3>1, Before
    <3>3. d1.frags = d.frags
      BY <1>2, <2>2, <2>4, <3>2
    <3> HIDE DEF q
    <3>4. frags = Append(Piece(q), Chunk(p))
      BY <3>1, <3>3
    <3> QED BY <2>1, <2>2, <2>4, <3>1, <3>4, PieceGrows
  <2> QED BY <2>3, <2>4
<1> HIDE DEF d1, e, r, frags, lost, first
<1>7. CASE damage = "broken"
  <2>1. Cuts(d, <<>>, d.buffered)
    BY <1>0 DEF Cuts
  <2> QED BY <1>3, <1>6, <1>7, <2>1, IsCut DEF r
<1>8. CASE damage # "broken" /\ lost /\ ~first
  <2>1. Cuts(d1, <<>>, d.buffered)
    BY <1>0, <1>2, <1>8 DEF Cuts, FrameOK
  <2> QED BY <1>3, <1>6, <1>8, <2>1, IsCut DEF r
<1>9. CASE damage = "empty" /\ ~(lost /\ ~first)
  <2> DEFINE e1 == PassOver(d1, p)
  <2>1. PICK f \in Seq(Chunks) : Becomes(e1, d1, f, d1.lastSeq) /\ (f = <<>> \/ f \in Odds)
    BY <1>2, PassedOver
  <2> HIDE DEF e1
  <2>2. Cuts(e1, <<>>, d.buffered)
    BY <1>0, <1>2, <2>1 DEF Cuts, FrameOK, Becomes
  <2>3. r = Result(e1, <<>>)
    BY <1>3, <1>9 DEF e1
  <2> QED BY <1>6, <1>9, <2>2, <2>3, IsCut DEF r
<1>10. /\ frags \in Seq(Chunks) /\ (Ends(p) => frags \in Goods \cup Rests)
       /\ frags \in Odds \/ \E n \in 1..DepPackets[p].part : frags = LastParts(p, n)
  <2>1. CASE frags \in Odds
    BY <2>1 DEF Odds, Goods
  <2>2. CASE \E n \in 1..DepPackets[p].part : frags = LastParts(p, n)
    BY <2>2, LastPartsType
  <2> QED BY <1>5, <2>1, <2>2
<1>11. CASE damage = "none" /\ ~(lost /\ ~first) /\ ~Ends(p)
  <2> DEFINE f == [d1 EXCEPT !.frags = frags]
  <2>1. Becomes(f, d1, frags, d1.lastSeq)
    BY <1>2, <1>10, Refilled
  <2> HIDE DEF f
  <2>2. Cuts(f, <<>>, d.buffered)
    BY <1>0, <1>2, <1>10, <2>1 DEF Cuts, FrameOK, Becomes
  <2>3. ASSUME next PROVE f.lastSeq = Seqno(p) /\ f.frame = UnitOf(p) /\ Adds(f, <<>>, <<>>, p)
    <3>1. New(p) = <<>> /\ <<>> \o <<>> = <<>>
      BY <1>11 DEF New
    <3>2. Fragment(p) => Pure(p)
      BY DEF Fragment, Pure
    <3> QED BY <1>2, <1>6, <2>1, <2>3, <3>1, <3>2 DEF Becomes, Adds, Held
  <2>4. r = Result(f, <<>>)
    BY <1>3, <1>11 DEF f
  <2> QED BY <2>2, <2>3, <2>4, IsCut DEF r
<1>12. CASE damage = "none" /\ ~(lost /\ ~first) /\ Ends(p)
  <2> DEFINE f == DropFragments(d1)
             o == AssembleFrame(frags)
  <2>1. Becomes(f, d1, <<>>, d1.lastSeq)
    BY <1>2, Emptied
  <2>2. o \in Seq(Goods \cup Rests)
    <3>1. frags \in Goods \cup Rests
      BY <1>10, <1>12
    <3>2. <<frags>> \in Seq(Goods \cup Rests)
      BY <3>1
    <3>3. o = <<>> \/ o = <<frags>>
      BY DEF AssembleFrame
    <3> HIDE DEF o
    <3> QED BY <1>0, <3>2, <3>3
  <2>3. ASSUME next PROVE New(p) = o
    <3>1. frags = Piece(p) /\ Size(frags) = DepPackets[p].part
      <4>1. frags = Piece(p) /\ DepPackets[p].part \in Nat
        BY <1>6, <2>3, Sent
      <4>2. Piece(p) \in Seq(Chunks) /\ Len(Piece(p)) = DepPackets[p].part
        BY PieceType
      <4>3. \A i \in 1..Len(Piece(p)) : Piece(p)[i][2] # 0
        BY <4>1, <4>2 DEF Piece
      <4> QED BY <4>1, <4>2, <4>3, SizeIs
    <3>2. ~(Size(frags) > MaxParts)
      <4>1. CASE Fragment(p)
        BY <2>3, <3>1, <4>1, Sent, DepacketizerAssumption DEF Ready
      <4>2. CASE ~Fragment(p)
        BY <3>1, <4>2, PlainEnds, DepacketizerAssumption DEF Starts
      <4> QED BY <4>1, <4>2
    <3>3. o = <<Piece(p)>>
      BY <3>1, <3>2 DEF AssembleFrame
    <3>4. CASE Fragment(p)
      BY <1>12, <3>3, <3>4 DEF New
    <3>5. CASE ~Fragment(p)
      <4>1. Starts(p) /\ New(p) = Contained(p) /\ DepPackets[p].units = <<UnitOf(p)>> /\ DepPackets[p].part = 1
        BY <3>5, PlainEnds, UnitType, Sent DEF Starts
      <4>2. Piece(p) = <<<<UnitOf(p), 1>>>>
        BY <4>1 DEF Piece
      <4>3. Contained(p) = <<<<<<UnitOf(p), 1>>>>>>
        BY <4>1 DEF Contained
      <4> QED BY <3>3, <4>1, <4>2, <4>3
    <3> QED BY <3>4, <3>5
  <2> HIDE DEF f, o
  <2>4. Cuts(f, o, d.buffered)
    BY <1>2, <2>1, <2>2 DEF Cuts, FrameOK, Becomes
  <2>5. ASSUME next PROVE f.lastSeq = Seqno(p) /\ f.frame = UnitOf(p) /\ Adds(f, o, <<>>, p)
    <3>1. o \o <<>> = <<>> \o o
      BY <2>2
    <3> QED BY <1>2, <1>6, <1>12, <2>1, <2>3, <2>5, <3>1 DEF Becomes, Adds, Held
  <2>6. r = Result(f, o)
    BY <1>3, <1>12 DEF f, o
  <2> QED BY <2>4, <2>5, <2>6, IsCut DEF r
<1> QED BY <1>7, <1>8, <1>9, <1>11, <1>12 DEF Damages

-----------------------------------------------------------------------------
(* What the packets so far complete                                        *)

\* g holds the concatenations of the first sequences of s.
Joining(g, s, i) == IF i = 1 THEN s[i] ELSE g[i - 1] \o s[i]
Joins(g, s, n) == g = [i \in 1..n |-> Joining(g, s, i)]

LEMMA JoinsUpTo ==
  ASSUME NEW s, NEW n \in Nat
  PROVE  \E g : g = [i \in 1..n |-> Joining(g, s, i)]
<1> DEFINE Good == {k \in Nat : \E g : g = [i \in 1..k |-> Joining(g, s, i)]}
<1>1. 0 \in Good
  <2> DEFINE g == [i \in 1..0 |-> 0]
  <2>1. g = [i \in 1..0 |-> Joining(g, s, i)]
    OBVIOUS
  <2> QED BY <2>1
<1>2. ASSUME NEW k \in Nat, k \in Good PROVE k + 1 \in Good
  <2>1. PICK g : g = [i \in 1..k |-> Joining(g, s, i)]
    BY <1>2
  <2> DEFINE h == [i \in 1..(k + 1) |-> Joining(g, s, i)]
  <2>2. \A i \in 1..k : h[i] = g[i]
    BY <2>1
  <2>3. ASSUME NEW i \in 1..(k + 1) PROVE Joining(g, s, i) = Joining(h, s, i)
    <3>1. i # 1 => i - 1 \in 1..k
      OBVIOUS
    <3> HIDE DEF h
    <3> QED BY <2>2, <3>1 DEF Joining
  <2>4. h = [i \in 1..(k + 1) |-> Joining(h, s, i)]
    BY <2>3
  <2> HIDE DEF h
  <2> QED BY <2>4
<1> HIDE DEF Good
<1>3. \A k \in Nat : k \in Good
  BY <1>1, <1>2, SetInduction
<1> QED BY <1>3 DEF Good

LEMMA FlattenIs ==
  ASSUME NEW s, Len(s) \in Nat \ {0}
  PROVE  \E g : Joins(g, s, Len(s)) /\ FlattenSeq(s) = g[Len(s)]
<1> DEFINE h == CHOOSE g : g = [i \in 1..Len(s) |-> Joining(g, s, i)]
<1>1. h = [i \in 1..Len(s) |-> Joining(h, s, i)]
  BY JoinsUpTo
<1>2. FlattenSeq(s) = h[Len(s)]
  BY DEF FlattenSeq, Joining
<1> HIDE DEF h
<1> QED BY <1>1, <1>2 DEF Joins

LEMMA JoinsAgree ==
  ASSUME NEW s, NEW t, NEW n \in Nat \ {0}, NEW l \in Nat, NEW m \in Nat, n <= l, n <= m,
         NEW g, Joins(g, s, l), NEW h, Joins(h, t, m), \A i \in 1..n : s[i] = t[i]
  PROVE  g[n] = h[n]
<1> DEFINE Good == {k \in Nat : k + 1 <= n => g[k + 1] = h[k + 1]}
<1>1. 0 \in Good
  <2>1. 1 \in 1..l /\ 1 \in 1..m /\ 1 \in 1..n /\ 0 + 1 = 1
    OBVIOUS
  <2>2. g[1] = Joining(g, s, 1) /\ h[1] = Joining(h, t, 1)
    BY <2>1 DEF Joins
  <2>3. g[1] = h[1]
    BY <2>1, <2>2 DEF Joining
  <2> QED BY <2>1, <2>3
<1>2. ASSUME NEW k \in Nat, k \in Good PROVE k + 1 \in Good
  <2> DEFINE j == k + 1
  <2>0. j \in Nat
    OBVIOUS
  <2>1. SUFFICES ASSUME j + 1 <= n PROVE g[j + 1] = h[j + 1]
    BY <2>0
  <2>2. g[j] = h[j] /\ j + 1 \in 1..l /\ j + 1 \in 1..m /\ j + 1 \in 1..n /\ (j + 1) - 1 = j /\ j + 1 # 1
    BY <1>2, <2>1
  <2> HIDE DEF j
  <2>3. g[j + 1] = Joining(g, s, j + 1) /\ h[j + 1] = Joining(h, t, j + 1)
    BY <2>2 DEF Joins
  <2> QED BY <2>2, <2>3 DEF Joining
<1> HIDE DEF Good
<1>3. n - 1 \in Nat /\ n - 1 \in Good
  BY <1>1, <1>2, SetInduction
<1>4. (n - 1) + 1 = n
  OBVIOUS
<1> QED BY <1>3, <1>4 DEF Good

LEMMA FlattenAppend ==
  ASSUME NEW T, NEW s \in Seq(Seq(T)), NEW x \in Seq(T)
  PROVE  FlattenSeq(Append(s, x)) = FlattenSeq(s) \o x
<1> DEFINE t == Append(s, x)
           n == Len(s)
<1>1. n \in Nat /\ Len(t) = n + 1 /\ t[n + 1] = x /\ \A i \in 1..n : s[i] = t[i]
  BY AppendProperties
<1> HIDE DEF t
<1>3. PICK h : Joins(h, t, n + 1) /\ FlattenSeq(t) = h[n + 1]
  <2>1. Len(t) \in Nat \ {0}
    BY <1>1
  <2> QED BY <1>1, <2>1, FlattenIs
<1>4. CASE n = 0
  <2>1. s = <<>> /\ FlattenSeq(s) = s
    BY <1>4, EmptySeq DEF FlattenSeq
  <2>2. h[1] = x
    BY <1>1, <1>3, <1>4 DEF Joins, Joining
  <2>3. FlattenSeq(t) = <<>> \o x
    BY <1>3, <1>4, <2>2, EmptyConcat
  <2> QED BY <2>1, <2>3 DEF t
<1>5. CASE n # 0
  <2>0. n \in Nat \ {0} /\ n + 1 \in Nat /\ n <= n /\ n <= n + 1
    BY <1>1, <1>5
  <2>1. PICK g : Joins(g, s, n) /\ FlattenSeq(s) = g[n]
    BY <2>0, FlattenIs
  <2> HIDE DEF n
  <2>2. g[n] = h[n]
    BY <1>1, <1>3, <2>0, <2>1, JoinsAgree
  <2>3. n + 1 \in 1..(n + 1) /\ n + 1 # 1 /\ (n + 1) - 1 = n
    BY <2>0
  <2>4. h[n + 1] = h[n] \o t[n + 1]
    BY <1>3, <2>3 DEF Joins, Joining
  <2>5. FlattenSeq(t) = FlattenSeq(s) \o x
    BY <1>1, <1>3, <2>1, <2>2, <2>4
  <2> QED BY <2>5 DEF t
<1> QED BY <1>4, <1>5

\* The units that packet p completes, and those that the first n packets do.
Completes(p) == IF Ends(p) THEN DepPackets[p].units ELSE <<>>
Done(n) == FlattenSeq([p \in 1..n |-> Completes(p)])

LEMMA CompletesType == ASSUME NEW p \in Positions PROVE Completes(p) \in Seq(Nat)
BY Sent DEF Completes

LEMMA DoneNext ==
  /\ Done(0) = <<>>
  /\ \A n \in 0..(Len(DepPackets) - 1) : Done(n + 1) = Done(n) \o Completes(n + 1)
<1>1. Done(0) = <<>>
  BY DEF Done, FlattenSeq
<1>2. ASSUME NEW n \in 0..(Len(DepPackets) - 1) PROVE Done(n + 1) = Done(n) \o Completes(n + 1)
  <2> DEFINE s == [p \in 1..n |-> Completes(p)]
             t == [p \in 1..(n + 1) |-> Completes(p)]
             x == Completes(n + 1)
  <2>0. n \in Nat /\ 1..(n + 1) \subseteq Positions
    BY DepacketizerAssumption DEF Positions
  <2>1. \A p \in 1..(n + 1) : Completes(p) \in Seq(Nat)
    BY <2>0, CompletesType
  <2>2. s \in Seq(Seq(Nat)) /\ x \in Seq(Nat) /\ t \in Seq(Seq(Nat)) /\ Len(s) = n /\ Len(t) = n + 1
    BY <2>0, <2>1
  <2>3. t = Append(s, x)
    <3>1. \A i \in 1..n : t[i] = s[i]
      BY <2>0
    <3>2. t[n + 1] = x
      BY <2>0
    <3> HIDE DEF s, t, x
    <3> QED BY <2>0, <2>2, <3>1, <3>2
  <2> HIDE DEF s, t, x
  <2>4. FlattenSeq(t) = FlattenSeq(s) \o x
    BY <2>2, <2>3, FlattenAppend
  <2> QED BY <2>4 DEF s, t, x, Done
<1> QED BY <1>1, <1>2

-----------------------------------------------------------------------------
(* The units that were handed on                                           *)

UnitsOf(s) == [i \in 1..Len(s) |-> s[i][1][1]]

LEMMA UnitsOfConcat ==
  ASSUME NEW T, NEW s \in Seq(T), NEW t \in Seq(T)
  PROVE  UnitsOf(s \o t) = UnitsOf(s) \o UnitsOf(t)
<1> DEFINE c == s \o t
           a == UnitsOf(s)
           b == UnitsOf(t)
           u == UnitsOf(c)
           U == {x[1][1] : x \in T}
           m == Len(s)
           n == Len(t)
<1>1. /\ c \in Seq(T) /\ Len(c) = m + n /\ m \in Nat /\ n \in Nat
      /\ \A i \in 1..(m + n) : c[i] = IF i <= m THEN s[i] ELSE t[i - m]
  BY ConcatProperties
<1>2. a \in Seq(U) /\ Len(a) = m /\ \A i \in 1..m : a[i] = s[i][1][1]
  BY DEF UnitsOf
<1>3. b \in Seq(U) /\ Len(b) = n /\ \A i \in 1..n : b[i] = t[i][1][1]
  BY DEF UnitsOf
<1>4. u \in Seq(U) /\ Len(u) = m + n /\ \A i \in 1..(m + n) : u[i] = c[i][1][1]
  BY <1>1 DEF UnitsOf
<1> HIDE DEF a, b, c, u, U, m, n
<1> DEFINE v == a \o b
<1>5. v \in Seq(U) /\ Len(v) = m + n /\ \A i \in 1..(m + n) : v[i] = IF i <= m THEN a[i] ELSE b[i - m]
  BY <1>2, <1>3, ConcatProperties
<1> HIDE DEF v
<1>6. \A i \in 1..(m + n) : u[i] = v[i]
  <2> TAKE i \in 1..(m + n)
  <2>1. CASE i <= m
    <3>1. i \in 1..m
      BY <1>1, <2>1
    <3>2. u[i] = s[i][1][1] /\ v[i] = s[i][1][1]
      BY <1>1, <1>2, <1>4, <1>5, <2>1, <3>1
    <3> QED BY <3>2
  <2>2. CASE ~(i <= m)
    <3>1. i - m \in 1..n
      BY <1>1, <2>2
    <3>2. u[i] = t[i - m][1][1] /\ v[i] = t[i - m][1][1]
      BY <1>1, <1>3, <1>4, <1>5, <2>2, <3>1
    <3> QED BY <3>2
  <2> QED BY <2>1, <2>2
<1>7. u = v
  BY <1>4, <1>5, <1>6, SeqEqual
<1> QED BY <1>7 DEF u, v, a, b, c

LEMMA UnitsOfNew == ASSUME NEW p \in Positions, DepPackets[p].kind # "mixed" PROVE UnitsOf(New(p)) = Completes(p)
<1>1. CASE ~Ends(p)
  BY <1>1 DEF New, Completes, UnitsOf
<1>2. CASE Ends(p) /\ Fragment(p)
  <2>1. DepPackets[p].units = <<UnitOf(p)>> /\ DepPackets[p].part \in Nat /\ 1 <= DepPackets[p].part
    BY <1>2, UnitType, Sent DEF Fragment
  <2>2. Piece(p)[1][1] = UnitOf(p)
    BY <2>1 DEF Piece
  <2>3. New(p) = <<Piece(p)>> /\ Completes(p) = <<UnitOf(p)>>
    BY <1>2, <2>1 DEF New, Completes
  <2> HIDE DEF Piece
  <2>4. UnitsOf(<<Piece(p)>>) = <<Piece(p)[1][1]>>
    BY DEF UnitsOf
  <2> QED BY <2>2, <2>3, <2>4
<1>3. CASE Ends(p) /\ ~Fragment(p)
  <2> DEFINE m == DepPackets[p].units
  <2>1. m \in Seq(Nat) /\ New(p) = Contained(p) /\ Completes(p) = m
    BY <1>3, Sent DEF New, Completes
  <2>2. Contained(p) = [i \in 1..Len(m) |-> <<<<m[i], 1>>>>]
    BY DEF Contained
  <2> HIDE DEF m
  <2>3. UnitsOf([i \in 1..Len(m) |-> <<<<m[i], 1>>>>]) = m
    BY <2>1 DEF UnitsOf
  <2> QED BY <2>1, <2>2, <2>3
<1> QED BY <1>1, <1>2, <1>3

-----------------------------------------------------------------------------
(* One packet                                                              *)

\* State d is one a depacketizer of codec c can be in.
Fits(c, d) ==
  /\ d \in DepState /\ (c # "av1" => d.buffered = <<>>)
  /\ IF c = "jpegxs" THEN FrameOK(d) ELSE FragsOK(d.frags, d.lastSeq)

\* It is the one after exactly the first n packets.
InLine(c, d, n) ==
  /\ n \in 0..Len(DepPackets)
  /\ n = 0 => d.frags = <<>> /\ ~d.seen
  /\ n > 0 => d.lastSeq = Seqno(n) /\ Held(d.frags, n) /\ (c = "jpegxs" => d.frame = UnitOf(n))

Hands(e, o, c, b, p, next) ==
  /\ Fits(c, e) /\ o \in Seq(MayLeave(c))
  /\ next => InLine(c, e, p) /\ o \o e.buffered = b \o New(p)
HandsResult(r, c, b, p, next) == \E e, o : r = Result(e, o) /\ Hands(e, o, c, b, p, next)

LEMMA IsHanded ==
  ASSUME NEW e, NEW o, NEW c, NEW b, NEW p, NEW next, Hands(e, o, c, b, p, next), NEW r, r = Result(e, o)
  PROVE  HandsResult(r, c, b, p, next)
BY DEF HandsResult

LEMMA InLineReady ==
  ASSUME NEW c, NEW d, NEW n, InLine(c, d, n), NEW p \in Positions, p = n + 1, InLimits(c, p)
  PROVE  /\ Ready(d, p) /\ (p = 1 => ~d.seen) /\ (c = "jpegxs" /\ p > 1 => d.frame = UnitOf(p - 1))
<1>1. n \in Nat /\ p - 1 = n /\ (p = 1 <=> n = 0) /\ (p > 1 <=> n > 0)
  BY Sent DEF InLine
<1>2. CASE n = 0
  BY <1>1, <1>2 DEF InLine, Ready, InLimits, Pure
<1>3. CASE n > 0
  <2>1. d.lastSeq = Seqno(n) /\ Held(d.frags, n) /\ (c = "jpegxs" => d.frame = UnitOf(n))
    BY <1>3 DEF InLine
  <2>2. p - 1 = n /\ ~(p = 1)
    BY <1>1, <1>3
  <2>3. Ready(d, p)
    BY <2>1, <2>2 DEF Ready, InLimits, Pure
  <2> QED BY <2>1, <2>2, <2>3
<1> QED BY <1>1, <1>2, <1>3

LEMMA InLineNow ==
  ASSUME NEW c, NEW e, NEW p \in Positions, e.lastSeq = Seqno(p), Held(e.frags, p), c = "jpegxs" => e.frame = UnitOf(p)
  PROVE  InLine(c, e, p)
BY Sent DEF InLine

\* A result that is whole whatever arrived, and adds to the units if it came in order.
LEMMA WholeHands ==
  ASSUME NEW c, c # "jpegxs", NEW d, Fits(c, d), d.buffered = <<>>, NEW p \in Positions, NEW next \in BOOLEAN, NEW r,
         WholeResult(r, <<>>), next => AddsResult(r, <<>>, p)
  PROVE  HandsResult(r, c, d.buffered, p, next)
<1>1. PICK e, o : r = Result(e, o) /\ Whole(e, o, <<>>)
  BY DEF WholeResult
<1>2. r.d = e /\ r.out = o
  BY <1>1, OfResult
<1>3. ASSUME next PROVE e.lastSeq = Seqno(p) /\ Adds(e, o, <<>>, p)
  <2>1. PICK f, q : r = Result(f, q) /\ f.lastSeq = Seqno(p) /\ Adds(f, q, <<>>, p)
    BY <1>3 DEF AddsResult
  <2>2. f = e /\ q = o
    BY <1>2, <2>1, OfResult
  <2> QED BY <2>1, <2>2
<1>4. ASSUME next PROVE InLine(c, e, p) /\ o \o e.buffered = d.buffered \o New(p)
  BY <1>3, <1>4, InLineNow DEF Adds
<1>5. Fits(c, e) /\ o \in Seq(MayLeave(c))
  BY <1>1 DEF Whole, Fits, MayLeave
<1>6. Hands(e, o, c, d.buffered, p, next)
  BY <1>4, <1>5 DEF Hands
<1> QED BY <1>1, <1>6, IsHanded

LEMMA DepacketizeHands ==
  ASSUME NEW c \in {"h264", "hevc", "av1", "jpegxs"}, NEW d, Fits(c, d), NEW p \in Positions,
         NEW damage \in Damages, NEW expired \in BOOLEAN, NEW n, NEW next \in BOOLEAN,
         next => InLine(c, d, n) /\ p = n + 1 /\ InLimits(c, p) /\ damage = "none" /\ ~expired,
         DepPackets[p].kind = "bundle" => c # "jpegxs", DepPackets[p].kind = "mixed" => c = "av1"
  PROVE  HandsResult(Depacketize(c, d, p, damage, expired), c, d.buffered, p, next)
<1> DEFINE r == Depacketize(c, d, p, damage, expired)
<1>0. d \in DepState /\ (c # "av1" => d.buffered = <<>>)
  BY DEF Fits
<1>1. next => /\ Ready(d, p) /\ damage = "none" /\ expired = FALSE /\ (p = 1 => ~d.seen)
              /\ (c = "jpegxs" /\ p > 1 => d.frame = UnitOf(p - 1))
  BY InLineReady
<1>2. CASE c = "h264"
  <2>1. r = DepacketizeH264(d, p, damage, expired) /\ d.buffered = <<>> /\ FragsOK(d.frags, d.lastSeq)
    BY <1>0, <1>2 DEF Depacketize, Fits
  <2>2. WholeResult(r, <<>>)
    BY <1>0, <2>1, H264Whole
  <2>3. next => AddsResult(r, <<>>, p)
    <3>1. next => ~TooManyUnits(p)
      BY <1>2 DEF InLimits
    <3> QED BY <1>0, <1>1, <2>1, <3>1, H264Adds
  <2> QED BY <1>2, <2>1, <2>2, <2>3, WholeHands
<1>3. CASE c = "hevc"
  <2>1. r = DepacketizeHEVC(d, p, damage) /\ d.buffered = <<>> /\ FragsOK(d.frags, d.lastSeq)
    BY <1>0, <1>3 DEF Depacketize, Fits
  <2>2. WholeResult(r, <<>>)
    BY <1>0, <2>1, HEVCWhole
  <2>3. next => AddsResult(r, <<>>, p)
    BY <1>0, <1>1, <2>1, HEVCAdds
  <2> QED BY <1>3, <2>1, <2>2, <2>3, WholeHands
<1>4. CASE c = "av1" /\ Fragment(p) /\ damage = "broken"
  <2>1. r = Result(d, <<>>) /\ ~next
    BY <1>1, <1>4 DEF Depacketize, DepacketizeAV1
  <2>2. <<>> \in Seq(MayLeave(c))
    OBVIOUS
  <2>3. Hands(d, <<>>, c, d.buffered, p, next)
    BY <2>1, <2>2 DEF Hands
  <2> QED BY <2>1, <2>3, IsHanded
<1>6. CASE c = "av1" /\ ~(Fragment(p) /\ damage = "broken")
  <2>1. r = DepacketizeAV1(d, p, damage) /\ FragsOK(d.frags, d.lastSeq)
    BY <1>6 DEF Depacketize, Fits
  <2>2. next => Next1(d.frags, p) /\ damage = "none" /\ (d.frags # <<>> => Follows(Seqno(p), d.lastSeq))
    BY <1>1, ReadyNext
  <2>3. KeepsResult(r, d.buffered, p, next)
    BY <1>0, <1>6, <2>1, <2>2, AV1Keeps
  <2>4. PICK e, o : r = Result(e, o) /\ Keeps(e, o, d.buffered, p, next)
    BY <2>3 DEF KeepsResult
  <2>5. Fits(c, e) /\ o \in Seq(MayLeave(c))
    BY <1>6, <2>4 DEF Keeps, Fits, MayLeave
  <2>6. ASSUME next PROVE InLine(c, e, p) /\ o \o e.buffered = d.buffered \o New(p)
    BY <1>6, <2>4, <2>6, InLineNow DEF Keeps, Adds
  <2>7. Hands(e, o, c, d.buffered, p, next)
    BY <2>5, <2>6 DEF Hands
  <2> QED BY <2>4, <2>7, IsHanded
<1>5. CASE c = "jpegxs"
  <2>1. r = DepacketizeJPEGXS(d, p, damage) /\ d.buffered = <<>> /\ FrameOK(d) /\ DepPackets[p].kind \notin {"bundle", "mixed"}
    BY <1>0, <1>5 DEF Depacketize, Fits
  <2>2. CutResult(r, d.buffered, p, next)
    BY <1>0, <1>1, <1>5, <2>1, FrameCuts
  <2>3. PICK e, o : /\ r = Result(e, o) /\ Cuts(e, o, d.buffered)
                    /\ next => e.lastSeq = Seqno(p) /\ e.frame = UnitOf(p) /\ Adds(e, o, <<>>, p)
    BY <2>2 DEF CutResult
  <2>4. Fits(c, e) /\ o \in Seq(MayLeave(c))
    BY <1>5, <2>1, <2>3 DEF Cuts, Fits, MayLeave
  <2>5. ASSUME next PROVE InLine(c, e, p) /\ o \o e.buffered = d.buffered \o New(p)
    BY <1>5, <2>1, <2>3, <2>5, InLineNow DEF Adds
  <2>6. Hands(e, o, c, d.buffered, p, next)
    BY <2>4, <2>5 DEF Hands
  <2> QED BY <2>3, <2>6, IsHanded
<1> QED BY <1>2, <1>3, <1>4, <1>5, <1>6

-----------------------------------------------------------------------------
(* The invariant and the refinement                                        *)

DepInv ==
  /\ codec \in {"h264", "hevc", "av1", "jpegxs"} /\ Fits(codec, dep)
  /\ output \in Seq(MayLeave(codec)) /\ inOrder \in Int
  /\ inOrder >= 0 => /\ InLine(codec, dep, inOrder)
                     /\ UnitsOf(output \o dep.buffered) = Done(inOrder)

LEMMA NewFits ==
  ASSUME NEW c, NEW l \in Nat, NEW d, d = [NewDepacketizer EXCEPT !.lastSeq = l]
  PROVE  Fits(c, d) /\ d.frags = <<>> /\ d.buffered = <<>> /\ ~d.seen
<1> DEFINE n == NewDepacketizer
<1>1. n \in DepState /\ n.frags = <<>> /\ n.buffered = <<>> /\ n.seen = FALSE
  <2>1. <<>> \in Seq(Chunks) /\ <<>> \in Seq(Goods)
    OBVIOUS
  <2> QED BY <2>1 DEF NewDepacketizer, DepState
<1> HIDE DEF n
<1>2. Becomes([n EXCEPT !.lastSeq = l], n, n.frags, l)
  BY <1>1, Moved
<1>3. d \in DepState /\ d.frags = <<>> /\ d.buffered = <<>> /\ ~d.seen
  BY <1>1, <1>2 DEF Becomes, n
<1>4. Fits(c, d)
  BY <1>3 DEF Fits, FrameOK, FragsOK
<1> QED BY <1>3, <1>4

LEMMA DepInvInit == DepInit => DepInv
<1> SUFFICES ASSUME DepInit PROVE DepInv
  OBVIOUS
<1>1. /\ codec \in {"h264", "hevc", "av1", "jpegxs"} /\ dep = NewDepacketizer
      /\ output = <<>> /\ inOrder = 0
  BY DepacketizerAssumption DEF DepInit
<1>2. NewDepacketizer = [NewDepacketizer EXCEPT !.lastSeq = 0]
  BY DEF NewDepacketizer
<1>3. Fits(codec, dep) /\ dep.frags = <<>> /\ dep.buffered = <<>> /\ ~dep.seen
  BY <1>1, <1>2, NewFits
<1>4. InLine(codec, dep, inOrder)
  BY <1>1, <1>3, DepacketizerAssumption DEF InLine
<1>5. output \o dep.buffered = <<>> /\ UnitsOf(<<>>) = <<>> /\ output \in Seq(MayLeave(codec))
  BY <1>1, <1>3 DEF UnitsOf
<1> QED BY <1>1, <1>3, <1>4, <1>5, DoneNext DEF DepInv

\* A step only adds to what was handed on, and only what may be.
HandedOn ==
  /\ codec' = codec
  /\ \E o \in Seq(MayLeave(codec)) : output' = output \o o

LEMMA ReceiveStep ==
  ASSUME DepInv, NEW p \in Positions, NEW damage \in Damages, NEW expired \in BOOLEAN,
         ReceivePacket(p, damage, expired)
  PROVE  DepInv' /\ HandedOn
<1> DEFINE next == p = inOrder + 1 /\ damage = "none" /\ ~expired /\ InLimits(codec, p)
           r == Depacketize(codec, dep, p, damage, expired)
           M == MayLeave(codec)
<1>1. /\ DepPackets[p].kind = "bundle" => codec # "jpegxs"
      /\ DepPackets[p].kind = "mixed" => codec = "av1"
      /\ dep' = r.d /\ output' = output \o r.out /\ codec' = codec
      /\ inOrder' = IF next THEN p ELSE -1
  BY DEF ReceivePacket
<1>2. /\ codec \in {"h264", "hevc", "av1", "jpegxs"} /\ Fits(codec, dep)
      /\ output \in Seq(M) /\ inOrder \in Int
  BY DEF DepInv
<1>3. p \in Nat /\ 1 <= p /\ p <= Len(DepPackets) /\ next \in BOOLEAN
  BY Sent
<1>4. ASSUME next PROVE InLine(codec, dep, inOrder) /\ UnitsOf(output \o dep.buffered) = Done(inOrder)
  BY <1>2, <1>3, <1>4 DEF DepInv
<1>5. HandsResult(r, codec, dep.buffered, p, next)
  BY <1>1, <1>2, <1>3, <1>4, DepacketizeHands
<1>6. PICK e, o : r = Result(e, o) /\ Hands(e, o, codec, dep.buffered, p, next)
  BY <1>5 DEF HandsResult
<1>7. r.d = e /\ r.out = o
  BY <1>6, OfResult
<1> HIDE DEF r
<1>8. /\ dep' = e /\ output' = output \o o /\ Fits(codec, e) /\ o \in Seq(M)
      /\ next => InLine(codec, e, p) /\ o \o e.buffered = dep.buffered \o New(p)
  BY <1>1, <1>6, <1>7 DEF Hands
<1> HIDE DEF M
<1>9. output' \in Seq(M)
  BY <1>2, <1>8, ConcatProperties
<1>10. HandedOn
  BY <1>1, <1>8 DEF HandedOn, M
<1>11. ASSUME next PROVE UnitsOf(output' \o e.buffered) = Done(p)
  <2> DEFINE w == dep.buffered
             v == e.buffered
             new == New(p)
  <2>0. DepPackets[p].kind # "mixed"
    BY <1>11 DEF InLimits, Fragment
  <2>1. w \in Seq(M) /\ v \in Seq(M) /\ new \in Seq(M)
    <3>1. Goods \subseteq M
      BY DEF M, MayLeave
    <3>2. w \in Seq(Goods) /\ v \in Seq(Goods) /\ new \in Seq(Goods)
      BY <1>2, <1>8, <2>0, NewType DEF Fits, DepState
    <3> HIDE DEF w, v, new
    <3> QED BY <3>1, <3>2
  <2>2. o \o v = w \o new
    BY <1>8, <1>11
  <2> HIDE DEF w, v, new
  <2>3. (output \o o) \o v = (output \o w) \o new /\ output \o w \in Seq(M)
    <3>1. (output \o o) \o v = output \o (o \o v)
      BY <1>2, <1>8, <2>1, ConcatAssoc
    <3>2. output \o (w \o new) = (output \o w) \o new
      BY <1>2, <2>1, ConcatAssoc
    <3>3. output \o w \in Seq(M)
      BY <1>2, <2>1, ConcatProperties
    <3> QED BY <2>2, <3>1, <3>2, <3>3
  <2>4. UnitsOf((output \o w) \o new) = UnitsOf(output \o w) \o UnitsOf(new)
    BY <2>1, <2>3, UnitsOfConcat
  <2>5. UnitsOf(output \o w) = Done(inOrder) /\ UnitsOf(new) = Completes(p)
    BY <1>4, <1>11, <2>0, UnitsOfNew DEF w, new
  <2>6. Done(p) = Done(inOrder) \o Completes(p)
    <3>1. inOrder \in 0..(Len(DepPackets) - 1) /\ p = inOrder + 1
      BY <1>2, <1>3, <1>11, Numbers
    <3> QED BY <3>1, DoneNext
  <2>7. UnitsOf((output \o o) \o v) = Done(p)
    BY <2>3, <2>4, <2>5, <2>6
  <2> QED BY <1>8, <2>7 DEF v
<1>12. inOrder' \in Int /\ (inOrder' >= 0 => next /\ inOrder' = p)
  BY <1>1, <1>3
<1> HIDE DEF next
<1>13. inOrder' >= 0 => InLine(codec', dep', inOrder') /\ UnitsOf(output' \o (dep').buffered) = Done(inOrder')
  BY <1>1, <1>8, <1>11, <1>12
<1>14. DepInv'
  BY <1>1, <1>2, <1>8, <1>9, <1>12, <1>13 DEF DepInv, M
<1> QED BY <1>10, <1>14

LEMMA ResetStep == ASSUME DepInv, ResetDepacketizer PROVE DepInv' /\ HandedOn
<1> DEFINE l == IF codec = "h264" THEN dep.lastSeq ELSE 0
<1>1. /\ dep' = [NewDepacketizer EXCEPT !.lastSeq = l] /\ inOrder' = -1
      /\ codec' = codec /\ output' = output
  BY DEF ResetDepacketizer
<1>2. codec \in {"h264", "hevc", "av1", "jpegxs"} /\ output \in Seq(MayLeave(codec)) /\ l \in Nat
  BY DEF DepInv, Fits, DepState
<1> HIDE DEF l
<1>3. Fits(codec, dep')
  BY <1>1, <1>2, NewFits
<1>4. output = output \o <<>> /\ <<>> \in Seq(MayLeave(codec))
  BY <1>2, EmptyConcat
<1>5. inOrder' \in Int /\ ~(inOrder' >= 0)
  BY <1>1
<1> QED BY <1>1, <1>2, <1>3, <1>4, <1>5 DEF DepInv, HandedOn

LEMMA DepStep == ASSUME DepInv, [DepNext]_depVars PROVE DepInv' /\ (HandedOn \/ UNCHANGED <<output, codec>>)
<1>1. CASE \E p \in Positions : ReceivePacket(p, "none", FALSE)
  BY <1>1, ReceiveStep DEF Damages
<1>2. CASE \E p \in Positions : ReceivePacket(p, "broken", FALSE)
  BY <1>2, ReceiveStep DEF Damages
<1>6. CASE \E p \in Positions : ReceivePacket(p, "empty", FALSE)
  BY <1>6, ReceiveStep DEF Damages
<1>3. CASE \E p \in Positions : ReceivePacket(p, "none", TRUE)
  BY <1>3, ReceiveStep DEF Damages
<1>4. CASE ResetDepacketizer
  BY <1>4, ResetStep
<1>5. CASE UNCHANGED depVars
  BY <1>5 DEF depVars, DepInv
<1> QED BY <1>1, <1>2, <1>3, <1>4, <1>5, <1>6 DEF DepNext

LEMMA HandedOnIs ==
  ASSUME DepInv, HandedOn
  PROVE  Promise!HandOn
<1> DEFINE M == MayLeave(codec)
           n == Len(output)
<1>1. PICK o \in Seq(M) : output' = output \o o
  BY DEF HandedOn
<1>2. output \in Seq(M) /\ codec' = codec
  BY DEF DepInv, HandedOn
<1>3. \A x \in M : Promise!Acceptable(x)
  <2> SUFFICES ASSUME NEW x \in M PROVE Promise!Acceptable(x)
    OBVIOUS
  <2>1. CASE x \in Wholes
    BY <2>1 DEF Wholes, WholeUnit, Promise!Acceptable, Promise!Whole
  <2>2. CASE codec = "jpegxs" /\ x \in Rests
    <3>1. PICK u \in SentUnits : \E k \in 1..(PartsOf(u) - 1) : x = RestOf(u, k)
      BY <2>2 DEF Rests
    <3> QED BY <2>2, <3>1 DEF RestOf, Promise!Acceptable, Promise!EndOf
  <2>3. CASE x \in Odds
    BY <2>3 DEF Odds, Promise!Acceptable, Promise!Marred
  <2> QED BY <2>1, <2>2, <2>3 DEF MayLeave, Goods
<1> HIDE DEF M
<1>4. /\ n \in Nat /\ Len(o) \in Nat /\ Len(output') = n + Len(o) /\ output' \in Seq(M)
      /\ \A i \in 1..(n + Len(o)) : output'[i] = IF i <= n THEN output[i] ELSE o[i - n]
  BY <1>1, <1>2, ConcatProperties
<1>5. SubSeq(output', 1, n) = output
  <2>1. /\ SubSeq(output', 1, n) \in Seq(M) /\ Len(SubSeq(output', 1, n)) = n - 1 + 1
        /\ \A i \in 1..(n - 1 + 1) : SubSeq(output', 1, n)[i] = output'[1 + i - 1]
    <3>1. 1 \in 1..(Len(output') + 1) /\ n \in (1 - 1)..Len(output')
      BY <1>4
    <3> QED BY <1>4, <3>1, SubSeqIs
  <2>2. \A i \in 1..n : SubSeq(output', 1, n)[i] = output[i]
    BY <1>4, <2>1
  <2>3. Len(SubSeq(output', 1, n)) = n
    BY <1>4, <2>1
  <2> QED BY <1>2, <2>1, <2>2, <2>3, SeqEqual
<1>6. \A i \in (n + 1)..Len(output') : output'[i] \in M
  BY <1>4
<1> QED BY <1>2, <1>3, <1>4, <1>5, <1>6 DEF Promise!HandOn, M

\* Whatever the network loses, repeats, reorders or damages, the depacketizers
\* implement Reassembly: a fragment is only added to the ones right before it
\* (h264_depacketizer.go:229, av1_depacketizer.go:68, jpegxs_depacketizer.go:73),
\* so every unit handed on is one of the sender's, or the end of one for JPEG XS,
\* unless a fragment without data or a mixed packet went into this very unit.
\* Without loss every complete unit came out or waits in temporalUnitBuf.
THEOREM Depacketizers_Sound == DepSpec => Depacketizes
<1>1. DepInit => DepInv /\ Promise!AInit
  BY DepInvInit DEF DepInit, Promise!AInit
<1>2. DepInv /\ [DepNext]_depVars => DepInv'
  BY DepStep
<1>3. DepInv => CleanIsComplete
  <2> SUFFICES ASSUME DepInv, inOrder >= 0 PROVE CleanIsComplete
    BY DEF CleanIsComplete
  <2>1. UnitsOf(output \o dep.buffered) = Done(inOrder) /\ inOrder \in Int
        /\ (IF inOrder > 0 THEN inOrder ELSE 0) = inOrder
    BY DEF DepInv
  <2> QED BY <2>1 DEF CleanIsComplete, Done, UnitsOf, Completes
<1>4. DepInv /\ [DepNext]_depVars => [Promise!HandOn]_<<output, codec = "jpegxs">>
  BY DepStep, HandedOnIs
<1> QED BY <1>1, <1>2, <1>3, <1>4, PTL DEF DepSpec, Depacketizes, Reassembles, Promise!ASpec

-----------------------------------------------------------------------------
(* What a detector says of the first packet of a picture                   *)

ScanStep(c, v, k, h) ==
  CASE c = "h264" -> H264Scan(v, k, h)
    [] c = "hevc" -> HEVCScan(v, k)
    [] c = "av1" -> AV1Scan(v, k)
    [] c = "jpegxs" -> JPEGXSScan(v, k)
Scanning(g, c, units, d, h, i) ==
  IF i = 0 THEN Verdict(FALSE, FALSE, d) ELSE ScanStep(c, g[i - 1], units[i], h)
Scans(g, c, units, d, h, n) == g = [i \in 0..n |-> Scanning(g, c, units, d, h, i)]

LEMMA ScanExists ==
  ASSUME NEW c, NEW units, NEW d, NEW h, NEW n \in Nat
  PROVE  \E g : Scans(g, c, units, d, h, n)
<1> DEFINE Good == {k \in Nat : \E g : g = [i \in 0..k |-> Scanning(g, c, units, d, h, i)]}
<1>1. 0 \in Good
  <2> DEFINE g == [i \in 0..0 |-> Verdict(FALSE, FALSE, d)]
  <2>1. g = [i \in 0..0 |-> Scanning(g, c, units, d, h, i)]
    BY DEF Scanning
  <2> QED BY <2>1
<1>2. ASSUME NEW k \in Nat, k \in Good PROVE k + 1 \in Good
  <2>1. PICK g : g = [i \in 0..k |-> Scanning(g, c, units, d, h, i)]
    BY <1>2
  <2> DEFINE f == [i \in 0..(k + 1) |-> Scanning(g, c, units, d, h, i)]
  <2>2. \A i \in 0..k : f[i] = g[i]
    BY <2>1
  <2>3. ASSUME NEW i \in 0..(k + 1) PROVE Scanning(g, c, units, d, h, i) = Scanning(f, c, units, d, h, i)
    <3>1. i # 0 => i - 1 \in 0..k
      OBVIOUS
    <3> HIDE DEF f
    <3> QED BY <2>2, <3>1 DEF Scanning
  <2>4. f = [i \in 0..(k + 1) |-> Scanning(f, c, units, d, h, i)]
    BY <2>3
  <2> HIDE DEF f
  <2> QED BY <2>4
<1> HIDE DEF Good
<1>3. \A k \in Nat : k \in Good
  BY <1>1, <1>2, SetInduction
<1> QED BY <1>3 DEF Good, Scans

\* One unit of a packet.
LEMMA ScanStepStarts ==
  ASSUME NEW c \in {"h264", "hevc", "av1", "jpegxs"}, NEW v, NEW k, NEW h, v.start \/ k \in Openers(c)
  PROVE  ScanStep(c, v, k, h).start
<1>1. CASE c = "h264"
  BY <1>1 DEF ScanStep, H264Scan, Verdict, Openers
<1>2. CASE c = "hevc"
  BY <1>2 DEF ScanStep, HEVCScan, Verdict, Openers
<1>3. CASE c = "av1"
  BY <1>3 DEF ScanStep, AV1Scan, Verdict, Openers
<1>4. CASE c = "jpegxs"
  BY <1>4 DEF ScanStep, JPEGXSScan, Verdict, Openers
<1> QED BY <1>1, <1>2, <1>3, <1>4

LEMMA ScanStarts ==
  ASSUME NEW c \in {"h264", "hevc", "av1", "jpegxs"}, NEW units, NEW d, NEW h, NEW n \in Nat \ {0}, NEW g,
         Scans(g, c, units, d, h, n), units[1] \in Openers(c)
  PROVE  g[n].start
<1> DEFINE Good == {k \in Nat : k + 1 <= n => g[k + 1].start}
<1>0. \A i \in 1..n : g[i] = ScanStep(c, g[i - 1], units[i], h)
  <2> TAKE i \in 1..n
  <2>1. i \in 0..n /\ i # 0
    OBVIOUS
  <2> QED BY <2>1 DEF Scans, Scanning
<1>1. 0 \in Good
  <2>1. 1 \in 1..n /\ 0 + 1 = 1
    OBVIOUS
  <2>2. g[1] = ScanStep(c, g[1 - 1], units[1], h)
    BY <1>0, <2>1
  <2>3. g[1].start
    BY <2>2, ScanStepStarts
  <2> QED BY <2>1, <2>3
<1>2. ASSUME NEW k \in Nat, k \in Good PROVE k + 1 \in Good
  <2> DEFINE j == k + 1
  <2>0. j \in Nat
    OBVIOUS
  <2>1. SUFFICES ASSUME j + 1 <= n PROVE g[j + 1].start
    BY <2>0
  <2>2. g[j].start /\ j + 1 \in 1..n /\ (j + 1) - 1 = j
    BY <1>2, <2>1
  <2> HIDE DEF j
  <2>3. g[j + 1] = ScanStep(c, g[j], units[j + 1], h)
    BY <1>0, <2>2
  <2> QED BY <2>2, <2>3, ScanStepStarts
<1> HIDE DEF Good
<1>3. n - 1 \in Nat /\ n - 1 \in Good
  BY <1>1, <1>2, SetInduction
<1>4. (n - 1) + 1 = n
  OBVIOUS
<1> QED BY <1>3, <1>4 DEF Good

LEMMA H264Starts ==
  ASSUME NEW units, NEW d, Len(units) \in Nat \ {0}, units[1] \in Openers("h264")
  PROVE  H264StartCodes(units, d).start
<1> DEFINE h == \E i \in DOMAIN units : units[i] \in H264VCL
           n == Len(units)
           f == CHOOSE g : g = [i \in 0..n |-> IF i = 0 THEN Verdict(FALSE, FALSE, d)
                                               ELSE H264Scan(g[i - 1], units[i], h)]
<1>1. f = [i \in 0..n |-> IF i = 0 THEN Verdict(FALSE, FALSE, d) ELSE H264Scan(f[i - 1], units[i], h)]
  <2>0. n \in Nat
    OBVIOUS
  <2> HIDE DEF h, n
  <2>1. \E g : Scans(g, "h264", units, d, h, n)
    BY <2>0, ScanExists
  <2>2. \E g : g = [i \in 0..n |-> IF i = 0 THEN Verdict(FALSE, FALSE, d) ELSE H264Scan(g[i - 1], units[i], h)]
    BY <2>1 DEF Scans, Scanning, ScanStep
  <2> QED BY <2>2
<1>2. H264StartCodes(units, d) = f[n]
  BY DEF H264StartCodes, Scanned
<1> HIDE DEF f, h
<1>3. Scans(f, "h264", units, d, h, n)
  BY <1>1 DEF Scans, Scanning, ScanStep
<1> QED BY <1>2, <1>3, ScanStarts

LEMMA HEVCStarts ==
  ASSUME NEW units, NEW d, Len(units) \in Nat \ {0}, units[1] \in Openers("hevc")
  PROVE  HEVCStartCodes(units, d).start
<1> DEFINE n == Len(units)
           f == CHOOSE g : g = [i \in 0..n |-> IF i = 0 THEN Verdict(FALSE, FALSE, d)
                                               ELSE HEVCScan(g[i - 1], units[i])]
<1>1. f = [i \in 0..n |-> IF i = 0 THEN Verdict(FALSE, FALSE, d) ELSE HEVCScan(f[i - 1], units[i])]
  <2>1. \E g : Scans(g, "hevc", units, d, TRUE, n)
    BY ScanExists
  <2> HIDE DEF n
  <2>2. \E g : g = [i \in 0..n |-> IF i = 0 THEN Verdict(FALSE, FALSE, d) ELSE HEVCScan(g[i - 1], units[i])]
    BY <2>1 DEF Scans, Scanning, ScanStep
  <2> QED BY <2>2
<1>2. HEVCStartCodes(units, d) = f[n]
  BY DEF HEVCStartCodes, Scanned
<1> HIDE DEF f
<1>3. Scans(f, "hevc", units, d, TRUE, n)
  BY <1>1 DEF Scans, Scanning, ScanStep
<1> QED BY <1>2, <1>3, ScanStarts

LEMMA AV1Is ==
  ASSUME NEW units, NEW d, Len(units) \in Nat
  PROVE  \E f : Scans(f, "av1", units, d, TRUE, Len(units)) /\ AV1Boundaries(units, d) = f[Len(units)]
<1> DEFINE n == Len(units)
           f == CHOOSE g : g = [i \in 0..n |-> IF i = 0 THEN Verdict(FALSE, FALSE, d)
                                               ELSE AV1Scan(g[i - 1], units[i])]
<1>1. f = [i \in 0..n |-> IF i = 0 THEN Verdict(FALSE, FALSE, d) ELSE AV1Scan(f[i - 1], units[i])]
  <2>1. \E g : Scans(g, "av1", units, d, TRUE, n)
    BY ScanExists
  <2> HIDE DEF n
  <2>2. \E g : g = [i \in 0..n |-> IF i = 0 THEN Verdict(FALSE, FALSE, d) ELSE AV1Scan(g[i - 1], units[i])]
    BY <2>1 DEF Scans, Scanning, ScanStep
  <2> QED BY <2>2
<1>2. AV1Boundaries(units, d) = f[n]
  BY DEF AV1Boundaries, Scanned
<1> HIDE DEF f
<1>3. Scans(f, "av1", units, d, TRUE, n)
  BY <1>1 DEF Scans, Scanning, ScanStep
<1> QED BY <1>2, <1>3

LEMMA AV1Starts ==
  ASSUME NEW units, NEW d, Len(units) \in Nat \ {0}, units[1] \in Openers("av1")
  PROVE  AV1Boundaries(units, d).start
<1>1. PICK f : Scans(f, "av1", units, d, TRUE, Len(units)) /\ AV1Boundaries(units, d) = f[Len(units)]
  BY AV1Is
<1> QED BY <1>1, ScanStarts

\* A unit behind a start code is read as reserved data and starts nothing.
LEMMA ReservedStartsNot ==
  ASSUME NEW d
  PROVE  ~AV1Boundaries(<<"reserved">>, d).start
<1> DEFINE units == <<"reserved">>
<1>0. Len(units) = 1 /\ units[1] = "reserved"
  OBVIOUS
<1> HIDE DEF units
<1>1. PICK f : Scans(f, "av1", units, d, TRUE, Len(units)) /\ AV1Boundaries(units, d) = f[Len(units)]
  <2>1. Len(units) \in Nat
    BY <1>0
  <2> QED BY <2>1, AV1Is
<1>2. f = [i \in 0..1 |-> Scanning(f, "av1", units, d, TRUE, i)]
  BY <1>0, <1>1 DEF Scans
<1>3. f[0] = Scanning(f, "av1", units, d, TRUE, 0) /\ f[1] = Scanning(f, "av1", units, d, TRUE, 1)
  <2>1. 0 \in 0..1 /\ 1 \in 0..1
    OBVIOUS
  <2> QED BY <1>2, <2>1
<1>4. f[0] = Verdict(FALSE, FALSE, d) /\ f[1] = AV1Scan(f[1 - 1], "reserved")
  BY <1>0, <1>3 DEF Scanning, ScanStep
<1>5. f[0].start = FALSE /\ 1 - 1 = 0
  BY <1>4 DEF Verdict
<1>6. ~f[1].start
  <2> DEFINE v == f[0]
  <2>1. f[1] = AV1Scan(v, "reserved") /\ v.start = FALSE
    BY <1>4, <1>5
  <2> HIDE DEF v
  <2>2. "reserved" \notin AV1Header \cup AV1Frame /\ "reserved" \notin {"TD", "SEQ"}
    BY DEF AV1Header, AV1Frame
  <2>3. AV1Scan(v, "reserved").start = (v.start \/ FALSE)
    BY <2>2 DEF AV1Scan, Verdict
  <2> QED BY <2>1, <2>3
<1> QED BY <1>0, <1>1, <1>6 DEF units

LEMMA JPEGXSStarts ==
  ASSUME NEW units, NEW marker, NEW d, Len(units) \in Nat \ {0}, units[1] \in Openers("jpegxs")
  PROVE  JPEGXSBoundaries(units, marker, d).start
<1> DEFINE n == Len(units)
           f == CHOOSE g : g = [i \in 0..n |-> IF i = 0 THEN Verdict(FALSE, FALSE, d)
                                               ELSE JPEGXSScan(g[i - 1], units[i])]
<1>1. f = [i \in 0..n |-> IF i = 0 THEN Verdict(FALSE, FALSE, d) ELSE JPEGXSScan(f[i - 1], units[i])]
  <2>0. n \in Nat
    OBVIOUS
  <2> HIDE DEF n
  <2>1. \E g : Scans(g, "jpegxs", units, d, TRUE, n)
    BY <2>0, ScanExists
  <2>2. \E g : g = [i \in 0..n |-> IF i = 0 THEN Verdict(FALSE, FALSE, d) ELSE JPEGXSScan(g[i - 1], units[i])]
    BY <2>1 DEF Scans, Scanning, ScanStep
  <2> QED BY <2>2
<1>2. Scanned(JPEGXSScan, units, d) = f[n]
  BY DEF Scanned
<1> HIDE DEF f
<1>3. Scans(f, "jpegxs", units, d, TRUE, n)
  BY <1>1 DEF Scans, Scanning, ScanStep
<1>4. f[n].start
  BY <1>3, ScanStarts
<1> DEFINE s == f[n]
<1>5. JPEGXSBoundaries(units, marker, d)
        = IF marker /\ s.d.frameStarted THEN Verdict(s.start, TRUE, [s.d EXCEPT !.frameStarted = FALSE]) ELSE s
  BY <1>2 DEF JPEGXSBoundaries
<1>6. s.start
  BY <1>4
<1> HIDE DEF s
<1> QED BY <1>5, <1>6 DEF Verdict

\* Packet p begins a picture.
Begins(p) ==
  /\ Len(p.units) \in Nat \ {0} /\ p.first = p.units[1]
  /\ p.part = "whole" \/ (p.part = "first" /\ feed.source = "raw")

LEMMA BeginsStarts ==
  ASSUME NEW p, NEW d, Begins(p), Opens(p), feed.codec \in {"h264", "hevc", "av1", "jpegxs"},
         ~(feed.codec = "av1" /\ feed.source = "nal"), ~(Len(p.units) >= MaxNALUnits)
  PROVE  DetectBoundaries(p, d).start
<1>0. Len(p.units) \in Nat \ {0} /\ p.units[1] \in Openers(feed.codec) /\ p.first = p.units[1]
  BY DEF Begins, Opens
<1>1. CASE feed.codec = "jpegxs"
  <2>1. DetectBoundaries(p, d) = JPEGXSBoundaries(p.units, p.marker, d)
    BY <1>1 DEF DetectBoundaries
  <2> QED BY <1>0, <1>1, <2>1, JPEGXSStarts
<1>2. CASE feed.codec = "av1"
  <2>1. DetectBoundaries(p, d) = AV1Boundaries(p.units, d)
    BY <1>2 DEF DetectBoundaries, ParseOBUs
  <2> QED BY <1>0, <1>2, <2>1, AV1Starts
<1>3. CASE feed.codec = "h264" /\ feed.source # "raw"
  <2>1. DetectBoundaries(p, d) = H264StartCodes(p.units, d)
    BY <1>3 DEF DetectBoundaries, Begins
  <2> QED BY <1>0, <1>3, <2>1, H264Starts
<1>4. CASE feed.codec = "hevc" /\ feed.source # "raw"
  <2>1. DetectBoundaries(p, d) = HEVCStartCodes(p.units, d)
    BY <1>4 DEF DetectBoundaries, Begins
  <2> QED BY <1>0, <1>4, <2>1, HEVCStarts
<1>5. CASE feed.codec = "h264" /\ feed.source = "raw"
  <2>1. PICK k : k = p.first
    OBVIOUS
  <2>2. DetectBoundaries(p, d) = H264Unit(k, d) /\ k \in {"AUD", "IDR"} \cup H264ParameterSets
    BY <1>0, <1>5, <2>1 DEF DetectBoundaries, Begins, Openers, FragmentVerdict
  <2>3. H264Unit(k, d).start
    BY <2>2 DEF H264Unit, Verdict
  <2> QED BY <2>2, <2>3
<1>6. CASE feed.codec = "hevc" /\ feed.source = "raw"
  <2>1. PICK k : k = p.first
    OBVIOUS
  <2>2. k \in {"AUD", "IRAP"} \cup HEVCParameterSets
    BY <1>0, <1>6, <2>1 DEF Openers
  <2>3. CASE p.part = "whole"
    <3>1. DetectBoundaries(p, d) = HEVCUnit(k, d)
      BY <1>6, <2>1, <2>3 DEF DetectBoundaries
    <3>2. HEVCUnit(k, d).start
      BY <2>2 DEF HEVCUnit, Verdict
    <3> QED BY <3>1, <3>2
  <2>4. CASE p.part = "first"
    <3>1. DetectBoundaries(p, d) = HEVCFragment(k, d)
      BY <1>6, <2>1, <2>4 DEF DetectBoundaries, FragmentVerdict
    <3>2. k \in HEVCVCL \cup {"AUD"}
      BY <1>6, <2>1, <2>2, <2>4 DEF Opens, HEVCVCL
    <3>3. HEVCFragment(k, d).start
      BY <3>2 DEF HEVCFragment, Verdict
    <3> QED BY <3>1, <3>3
  <2> QED BY <2>3, <2>4 DEF Begins
<1> QED BY <1>1, <1>2, <1>3, <1>4, <1>5, <1>6

LEMMA FlattenBegins ==
  ASSUME NEW T, NEW s \in Seq(Seq(T)), s # <<>>
  PROVE  \E r \in Seq(T) : FlattenSeq(s) = s[1] \o r
<1> DEFINE Good == {t \in Seq(Seq(T)) : t # <<>> => \E r \in Seq(T) : FlattenSeq(t) = t[1] \o r}
<1>1. <<>> \in Good
  OBVIOUS
<1>2. ASSUME NEW t \in Seq(Seq(T)), NEW x \in Seq(T), t \in Good PROVE Append(t, x) \in Good
  <2> DEFINE a == Append(t, x)
  <2>1. a \in Seq(Seq(T)) /\ (t # <<>> => a[1] = t[1]) /\ (t = <<>> => a[1] = x)
    OBVIOUS
  <2>2. FlattenSeq(a) = FlattenSeq(t) \o x
    BY FlattenAppend
  <2>3. CASE t = <<>>
    <3>1. FlattenSeq(t) = <<>>
      BY <2>3 DEF FlattenSeq
    <3> HIDE DEF a
    <3>2. FlattenSeq(a) = x \o <<>> /\ <<>> \in Seq(T) /\ a[1] = x
      BY <2>1, <2>2, <2>3, <3>1, EmptyConcat
    <3>3. \E r \in Seq(T) : FlattenSeq(a) = a[1] \o r
      BY <3>2
    <3>4. a \in Good
      BY <2>1, <3>3
    <3> QED BY <3>4 DEF a
  <2>4. CASE t # <<>>
    <3>1. PICK r \in Seq(T) : FlattenSeq(t) = t[1] \o r
      BY <1>2, <2>4
    <3> DEFINE e == t[1]
               q == r \o x
    <3>2. e \in Seq(T) /\ q \in Seq(T)
      BY <2>4
    <3> HIDE DEF a, e
    <3>3. (e \o r) \o x = e \o q
      BY <3>2, ConcatAssoc
    <3> HIDE DEF q
    <3>4. FlattenSeq(a) = a[1] \o q
      BY <2>1, <2>2, <2>4, <3>1, <3>3 DEF e
    <3>5. a \in Good
      BY <2>1, <3>2, <3>4
    <3> QED BY <3>5 DEF a
  <2> QED BY <2>3, <2>4
<1> HIDE DEF Good
<1>3. \A t \in Seq(Seq(T)) : t \in Good
  BY <1>1, <1>2, SeqInduction
<1> QED BY <1>3 DEF Good

-----------------------------------------------------------------------------
(* Frames and keyframes                                                    *)

PacketSet == [picture : Nat, units : Seq(STRING) \ {<<>>}, first : STRING,
              part : {"whole", "middle", "first", "last"}, key : BOOLEAN, marker : BOOLEAN]

\* The kinds of units in a keyframe, and in a picture that is none.
KindsIn(c, key) == {k \in STRING : IF key THEN InKeyframe(c, k) ELSE InOther(k)}

LEMMA KindsAre ==
  ASSUME NEW c \in {"h264", "hevc"}, NEW k
  PROVE  /\ k \in KindsIn(c, TRUE) => (k \in Slices(c) <=> k \in {"IDR", "I", "IRAP"})
         /\ k \in KindsIn(c, FALSE) => k \notin {"IDR", "I", "IRAP", "VPS", "SPS", "PPS"}
BY DEF KindsIn, InKeyframe, InOther, KeySlices, H264ParameterSets, HEVCParameterSets

\* The units a frame is typed by: those of its first packet and others.
LEMMA ParsedUnits ==
  ASSUME NEW T, NEW packets, packets \in Seq(PacketSet), packets # <<>>, feed.codec \in {"h264", "hevc"},
         feed.source # "raw", \A j \in DOMAIN packets : packets[j].units \in Seq(T) /\ packets[j].units # <<>>,
         packets[1].part = "whole"
  PROVE  \E r \in Seq(T) : ParseNALUnits(packets) = packets[1].units \o r
<1> DEFINE s == [i \in DOMAIN packets |-> StartCodeUnits(packets[i])]
           u == packets[1].units
<1>1. \A i \in DOMAIN packets : StartCodeUnits(packets[i]) \in Seq(T)
  BY DEF StartCodeUnits
<1>2. s \in Seq(Seq(T)) /\ s # <<>> /\ s[1] = u /\ u \in Seq(T) /\ u # <<>>
  <2>1. Len(packets) \in Nat /\ DOMAIN packets = 1..Len(packets) /\ 1 \in DOMAIN packets
    OBVIOUS
  <2>2. StartCodeUnits(packets[1]) = u
    BY DEF StartCodeUnits
  <2>3. s = [i \in 1..Len(packets) |-> StartCodeUnits(packets[i])] /\ s[1] = u
    BY <2>1, <2>2
  <2>4. s \in Seq(Seq(T)) /\ Len(s) = Len(packets)
    BY <1>1, <2>1, <2>3
  <2> QED BY <2>1, <2>3, <2>4
<1> HIDE DEF s, u
<1>3. PICK r \in Seq(T) : FlattenSeq(s) = u \o r
  BY <1>2, FlattenBegins
<1>4. u \o r # <<>>
  BY <1>2
<1>5. ParseNALUnits(packets) = FlattenSeq(s)
  BY <1>3, <1>4 DEF ParseNALUnits, s
<1> QED BY <1>3, <1>5 DEF u

\* The first unit of s that is in S.
LEMMA FirstInIs ==
  ASSUME NEW T, NEW s \in Seq(T), NEW S, NEW default, NEW i \in DOMAIN s, s[i] \in S
  PROVE  FirstIn(s, S, default) \in S \cap T
<1> DEFINE at == {j \in DOMAIN s : s[j] \in S}
           m == CHOOSE j \in at : \A k \in at : j <= k
<1>1. at \subseteq Nat /\ at # {}
  OBVIOUS
<1>2. m \in at
  <2>1. \E j \in at : \A k \in at : j <= k
    <3> HIDE DEF at
    <3> QED BY <1>1, LeastExists
  <2> QED BY <2>1
<1>3. FirstIn(s, S, default) = s[m]
  BY <1>1 DEF FirstIn
<1> QED BY <1>2, <1>3

LEMMA KeyType ==
  ASSUME NEW u, feed.codec \in {"h264", "hevc"}, NEW key \in BOOLEAN, u \in Seq(KindsIn(feed.codec, key)),
         NEW i \in DOMAIN u, u[i] \in Slices(feed.codec)
  PROVE  IsKeyframe(GetFrameType(u)) <=> key
<1> DEFINE has == {u[j] : j \in DOMAIN u}
           T == KindsIn(feed.codec, key)
<1>0. u[i] \in T /\ has \subseteq T /\ u[i] \in has
  OBVIOUS
<1>1. CASE feed.codec = "h264"
  <2>1. GetFrameType(u) = H264FrameType(u) /\ Slices(feed.codec) = H264VCL
    BY <1>1 DEF GetFrameType, Slices
  <2> DEFINE e == IF "SPS" \in has THEN "SPS" ELSE IF "PPS" \in has THEN "PPS" ELSE "P"
             k == FirstIn(u, H264VCL, e)
  <2>2. H264FrameType(u) = IF "IDR" \in has THEN "IDR" ELSE k
    BY DEF H264FrameType
  <2>3. k \in H264VCL /\ k \in T
    <3> HIDE DEF e
    <3> QED BY <2>1, FirstInIs
  <2> HIDE DEF k, has, T
  <2>4. CASE key
    <3>1. k \in {"IDR", "I"}
      BY <1>1, <2>1, <2>3, <2>4, KindsAre DEF T, H264VCL
    <3> QED BY <2>1, <2>2, <2>4, <3>1 DEF IsKeyframe
  <2>5. CASE ~key
    <3>1. k \notin {"IDR", "I"} /\ "IDR" \notin has
      BY <1>0, <1>1, <2>3, <2>5, KindsAre DEF T
    <3> QED BY <2>1, <2>2, <2>5, <3>1 DEF IsKeyframe
  <2> QED BY <2>4, <2>5
<1>2. CASE feed.codec = "hevc"
  <2>1. GetFrameType(u) = HEVCFrameType(u) /\ Slices(feed.codec) = HEVCVCL
    BY <1>2 DEF GetFrameType, Slices
  <2>2. "IRAP" \in has <=> key
    <3> HIDE DEF has, T
    <3>1. CASE key
      BY <1>0, <1>2, <2>1, <3>1, KindsAre DEF T, HEVCVCL
    <3>2. CASE ~key
      BY <1>0, <1>2, <3>2, KindsAre DEF T
    <3> QED BY <3>1, <3>2
  <2>3. CASE key
    <3>1. HEVCFrameType(u) = "IDR"
      BY <2>2, <2>3 DEF HEVCFrameType
    <3> QED BY <2>1, <2>3, <3>1 DEF IsKeyframe
  <2>4. CASE ~key
    <3>1. HEVCFrameType(u) \in {"SPS", "PPS", "P", "B"}
      BY <2>2, <2>4 DEF HEVCFrameType
    <3> QED BY <2>1, <2>4, <3>1 DEF IsKeyframe
  <2> QED BY <2>3, <2>4
<1> QED BY <1>1, <1>2

LEMMA FrameKey ==
  ASSUME NEW packets, packets \in Seq(PacketSet), packets # <<>>, feed.codec \in {"h264", "hevc"}, feed.source # "raw",
         NEW key \in BOOLEAN,
         \A j \in DOMAIN packets : packets[j].units \in Seq(KindsIn(feed.codec, key)) /\ packets[j].units # <<>>,
         packets[1].part = "whole", packets[1].key => SRTKeyframe(packets[1].units),
         NEW i \in DOMAIN packets[1].units, packets[1].units[i] \in Slices(feed.codec)
  PROVE  CompleteFrame(packets).key <=> \E j \in DOMAIN packets[1].units : packets[1].units[j] \in {"IDR", "I", "IRAP"}
<1> DEFINE p == packets[1]
           m == p.units
           T == KindsIn(feed.codec, key)
           t == GetFrameType(ParseNALUnits(packets))
<1>1. PICK r \in Seq(T) : ParseNALUnits(packets) = m \o r
  BY ParsedUnits
<1>2. m \in Seq(T) /\ 1 \in DOMAIN packets
  OBVIOUS
<1> DEFINE u == m \o r
<1>3. u \in Seq(T) /\ i \in DOMAIN u /\ u[i] = m[i]
  BY <1>2
<1> HIDE DEF u, T
<1>4. IsKeyframe(t) <=> key
  <2>1. u \in Seq(KindsIn(feed.codec, key)) /\ i \in DOMAIN u /\ u[i] \in Slices(feed.codec)
    BY <1>3 DEF T
  <2>2. IsKeyframe(GetFrameType(u)) <=> key
    BY <2>1, KeyType
  <2> QED BY <1>1, <2>2 DEF u
<1>5. CompleteFrame(packets).key <=> p.key \/ IsKeyframe(t)
  BY DEF CompleteFrame
<1>6. CASE key
  <2>1. m[i] \in KindsIn(feed.codec, TRUE)
    <3>1. m[i] \in T /\ key = TRUE
      BY <1>2, <1>6
    <3> QED BY <3>1 DEF T
  <2>2. m[i] \in {"IDR", "I", "IRAP"}
    BY <2>1, KindsAre
  <2> QED BY <1>4, <1>5, <1>6, <2>2
<1>7. CASE ~key
  <2>1. \A j \in DOMAIN m : m[j] \notin {"IDR", "I", "IRAP", "VPS", "SPS", "PPS"}
    <3> TAKE j \in DOMAIN m
    <3>1. m[j] \in T /\ key = FALSE
      BY <1>2, <1>7
    <3>2. m[j] \in KindsIn(feed.codec, FALSE)
      BY <3>1 DEF T
    <3> QED BY <3>2, KindsAre
  <2>2. ~SRTKeyframe(m)
    BY <2>1 DEF SRTKeyframe, H264ParameterSets, HEVCParameterSets
  <2>3. ~p.key
    BY <2>2
  <2> QED BY <1>4, <1>5, <1>7, <2>1, <2>3
<1> QED BY <1>6, <1>7

-----------------------------------------------------------------------------
(* The invariant: where one picture ends and the next begins               *)

SenderSet == [picture : Nat, rest : Seq(STRING), part : {"whole", "cut", "first", "last"}]

DetShape ==
  /\ feed.codec \in DOMAIN UnitLists /\ feed.source \in Sources
  /\ feed.source = "ts" => feed.codec \in {"h264", "hevc"}
  /\ sender \in SenderSet /\ videoOutput \in Seq(PacketSet) /\ currentFrame \in Seq(PacketSet)
  /\ clean \in BOOLEAN

\* The sender stands before a unit.
Fresh == sender.part = "whole" /\ sender.rest # <<>>

\* Packet q may come after p in a frame.
MayFollow(p, q) == q.picture = p.picture \/ ~Opens(q)

\* Between packets of two pictures there is one that begins a picture: between the
\* frame under way and the channel, in the channel, and behind it.
Lined ==
  /\ \A i \in 2..Len(videoOutput) :
       videoOutput[i].picture = videoOutput[i - 1].picture \/ Begins(videoOutput[i])
  /\ \A i \in 2..Len(currentFrame) : MayFollow(currentFrame[i - 1], currentFrame[i])
  /\ currentFrame # <<>> /\ videoOutput # <<>> =>
       videoOutput[1].picture = currentFrame[Len(currentFrame)].picture \/ Begins(videoOutput[1])
  /\ \/ Fresh
     \/ /\ videoOutput # <<>> => videoOutput[Len(videoOutput)].picture = sender.picture
        /\ videoOutput = <<>> /\ currentFrame # <<>> => currentFrame[Len(currentFrame)].picture = sender.picture
  /\ feed.codec = "av1" /\ feed.source = "nal" => currentFrame = <<>>

\* The packets the assembler has or will get.
InHand == {videoOutput[i] : i \in DOMAIN videoOutput} \cup {currentFrame[i] : i \in DOMAIN currentFrame}

\* Packet p is one of a picture that is a keyframe exactly if keys says so.
OfKind(p, keys) ==
  p.units \in Seq(KindsIn(feed.codec, keys[p.picture])) /\ (p.key => SRTKeyframe(p.units))

\* Each picture is a keyframe or not as a whole, and what is still to come of it too.
KeyedBy(keys) ==
  /\ keys \in [Nat -> BOOLEAN]
  /\ sender.rest \in Seq(KindsIn(feed.codec, keys[sender.picture]))
  /\ \A p \in InHand : p.picture <= sender.picture /\ OfKind(p, keys)
Keyed == feed.source = "ts" => \E keys : KeyedBy(keys)

\* What FramesArePictures says of one frame.
GoodFrame(f) ==
  LET p == f.packets[1]
  IN  /\ \A j \in 2..Len(f.packets) : MayFollow(f.packets[j - 1], f.packets[j])
      /\ feed.source = "ts" /\ p.part = "whole" /\ p.units \in UnitLists[feed.codec] /\ OnePicture(f)
         => f.key <=> \E j \in DOMAIN p.units : p.units[j] \in {"IDR", "I", "IRAP"}

DetInv == DetShape /\ (clean => Lined /\ Keyed) /\ FramesArePictures

LEMMA CodecIs ==
  ASSUME DetShape
  PROVE  /\ feed.codec \in {"h264", "hevc", "av1", "jpegxs"} /\ feed.source \in {"ts", "nal", "raw"}
         /\ \A units \in UnitLists[feed.codec] : units \in Seq(STRING) /\ units # <<>>
  BY DetectorAssumption DEF DetShape

LEMMA Retyped ==
  ASSUME NEW S, NEW T, NEW s \in Seq(S), \A i \in DOMAIN s : s[i] \in T
  PROVE  s \in Seq(T)
<1>1. s = [i \in 1..Len(s) |-> s[i]] /\ Len(s) \in Nat /\ \A i \in 1..Len(s) : s[i] \in T
  OBVIOUS
<1> QED BY <1>1

LEMMA InHandType == ASSUME DetShape, NEW p \in InHand PROVE p \in PacketSet /\ p.picture \in Nat
<1>1. videoOutput \in Seq(PacketSet) /\ currentFrame \in Seq(PacketSet)
  BY DEF DetShape
<1>2. p \in PacketSet
  BY <1>1 DEF InHand
<1> QED BY <1>2 DEF PacketSet

LEMMA ComesOfKind ==
  ASSUME DetShape, feed.source = "ts", NEW units \in UnitLists[feed.codec]
  PROVE  /\ \E i \in DOMAIN units : units[i] \in Slices(feed.codec)
         /\ \E key \in BOOLEAN : units \in Seq(KindsIn(feed.codec, key))
<1>1. feed.codec \in DOMAIN UnitLists /\ feed.codec \in {"h264", "hevc"} /\ units \in Seq(STRING)
  BY CodecIs DEF DetShape
<1>2. /\ \E i \in DOMAIN units : units[i] \in Slices(feed.codec)
      /\ \/ \A i \in DOMAIN units : InKeyframe(feed.codec, units[i])
         \/ \A i \in DOMAIN units : InOther(units[i])
  BY <1>1, PictureAssumption
<1>3. CASE \A i \in DOMAIN units : InKeyframe(feed.codec, units[i])
  <2>1. \A i \in DOMAIN units : units[i] \in KindsIn(feed.codec, TRUE)
    BY <1>1, <1>3 DEF KindsIn
  <2>2. units \in Seq(KindsIn(feed.codec, TRUE))
    BY <1>1, <2>1, Retyped
  <2> QED BY <1>2, <2>2
<1>4. CASE \A i \in DOMAIN units : InOther(units[i])
  <2>1. \A i \in DOMAIN units : units[i] \in KindsIn(feed.codec, FALSE)
    BY <1>1, <1>4 DEF KindsIn
  <2>2. units \in Seq(KindsIn(feed.codec, FALSE))
    BY <1>1, <2>1, Retyped
  <2> QED BY <1>2, <2>2
<1> QED BY <1>2, <1>3, <1>4

LEMMA DetInvInit == DetInit => DetInv
<1> SUFFICES ASSUME DetInit PROVE DetInv
  OBVIOUS
<1>1. /\ sender = [picture |-> 0, rest |-> <<>>, part |-> "whole"]
      /\ videoOutput = <<>> /\ currentFrame = <<>> /\ finished = <<>> /\ clean = TRUE
      /\ feed.source = "ts" => feed.codec \in {"h264", "hevc"}
  BY DEF DetInit
<1>2. feed.codec \in DOMAIN UnitLists /\ feed.source \in Sources
  BY DEF DetInit
<1>3. DetShape
  <2>1. sender \in SenderSet
    BY <1>1 DEF SenderSet
  <2>2. videoOutput \in Seq(PacketSet) /\ currentFrame \in Seq(PacketSet) /\ clean \in BOOLEAN
    BY <1>1
  <2> QED BY <1>1, <1>2, <2>1, <2>2 DEF DetShape
<1>4. Lined
  BY <1>1 DEF Lined
<1>5. Keyed
  <2> DEFINE keys == [n \in Nat |-> TRUE]
  <2>1. KeyedBy(keys)
    BY <1>1 DEF KeyedBy, InHand
  <2> QED BY <2>1 DEF Keyed
<1>6. FramesArePictures
  BY <1>1 DEF FramesArePictures
<1> QED BY <1>3, <1>4, <1>5, <1>6 DEF DetInv

LEMMA NextPictureStep == ASSUME DetInv, NextPicture PROVE DetInv'
<1>1. PICK units \in UnitLists[feed.codec] : sender' = [picture |-> sender.picture + 1, rest |-> units, part |-> "whole"]
  BY DEF NextPicture
<1>2. /\ clean /\ feed' = feed /\ videoOutput' = videoOutput /\ currentFrame' = currentFrame
      /\ finished' = finished /\ clean' = clean /\ sender.rest = <<>>
  BY DEF NextPicture
<1>3. DetShape /\ Lined /\ Keyed /\ FramesArePictures
  BY <1>2 DEF DetInv
<1>4. sender.picture \in Nat
  BY <1>3 DEF DetShape, SenderSet
<1>5. units \in Seq(STRING) /\ units # <<>>
  BY <1>3, CodecIs
<1>6. /\ sender' \in SenderSet /\ (sender').picture = sender.picture + 1 /\ (sender').rest = units
      /\ (sender').part = "whole"
  BY <1>1, <1>4, <1>5 DEF SenderSet
<1>7. DetShape'
  BY <1>2, <1>3, <1>6 DEF DetShape
<1>8. Lined'
  <2>1. Fresh'
    BY <1>5, <1>6 DEF Fresh
  <2>2. \A p, q : (MayFollow(p, q)' <=> MayFollow(p, q)) /\ (Begins(p)' <=> Begins(p))
    BY <1>2 DEF MayFollow, Opens, Begins
  <2> QED BY <1>2, <1>3, <2>1, <2>2 DEF Lined
<1>9. Keyed'
  <2> SUFFICES ASSUME feed.source = "ts" PROVE \E keys : KeyedBy(keys)'
    BY <1>2 DEF Keyed
  <2>1. PICK keys : KeyedBy(keys)
    BY <1>3 DEF Keyed
  <2>2. PICK key \in BOOLEAN : units \in Seq(KindsIn(feed.codec, key))
    BY <1>3, ComesOfKind
  <2>3. PICK n : n = sender.picture + 1
    OBVIOUS
  <2>30. PICK more : more = [keys EXCEPT ![n] = key]
    OBVIOUS
  <2>31. n \in Nat /\ keys \in [Nat -> BOOLEAN]
    BY <1>4, <2>1, <2>3 DEF KeyedBy
  <2>4. more \in [Nat -> BOOLEAN] /\ more[n] = key /\ \A i \in Nat : i # n => more[i] = keys[i]
    BY <2>30, <2>31
  <2>5. ASSUME NEW p \in InHand PROVE p.picture <= n /\ p.picture \in Nat /\ p.picture # n
    <3>1. p.picture \in Nat
      BY <1>3, InHandType
    <3>2. p.picture <= sender.picture
      BY <2>1 DEF KeyedBy
    <3> QED BY <1>4, <2>3, <3>1, <3>2
  <2>6. \A p \in InHand : p.picture <= n /\ OfKind(p, more)
    BY <2>1, <2>4, <2>5 DEF KeyedBy, OfKind
  <2>7. InHand' = InHand /\ \A p : OfKind(p, more)' <=> OfKind(p, more)
    BY <1>2 DEF InHand, OfKind, SRTKeyframe
  <2>8. KeyedBy(more)'
    BY <1>2, <1>6, <2>2, <2>3, <2>4, <2>6, <2>7 DEF KeyedBy
  <2> QED BY <2>8
<1>10. FramesArePictures'
  BY <1>2, <1>3 DEF FramesArePictures, Opens
<1> QED BY <1>7, <1>8, <1>9, <1>10 DEF DetInv

-----------------------------------------------------------------------------
(* The adapters                                                            *)

\* The sender goes on with a picture.
Goes(q) ==
  /\ q \in PacketSet /\ q.picture = sender.picture /\ (Fresh => Begins(q))
  /\ sender' \in SenderSet /\ (sender').picture = sender.picture
  /\ feed.source = "ts" =>
       /\ \A key \in BOOLEAN : sender.rest \in Seq(KindsIn(feed.codec, key)) =>
            q.units \in Seq(KindsIn(feed.codec, key)) /\ (sender').rest \in Seq(KindsIn(feed.codec, key))
       /\ q.key => SRTKeyframe(q.units)

LEMMA SendStep == ASSUME DetInv, NEW q, Goes(q), Offer(q) PROVE DetInv'
<1>1. /\ clean /\ feed' = feed /\ currentFrame' = currentFrame /\ finished' = finished
      /\ videoOutput' = IF Full THEN videoOutput ELSE Append(videoOutput, q)
      /\ clean' = (clean /\ ~Full)
  BY DEF Offer
<1>2. DetShape /\ Lined /\ Keyed /\ FramesArePictures
  BY <1>1 DEF DetInv
<1>3. videoOutput \in Seq(PacketSet) /\ currentFrame \in Seq(PacketSet) /\ q \in PacketSet
  BY <1>2 DEF DetShape, Goes
<1>4. DetShape'
  <2>1. videoOutput' \in Seq(PacketSet) /\ clean' \in BOOLEAN
    BY <1>1, <1>3
  <2> QED BY <1>1, <1>2, <2>1 DEF DetShape, Goes
<1>5. FramesArePictures'
  BY <1>1, <1>2 DEF FramesArePictures, Opens
<1>6. CASE Full
  BY <1>1, <1>4, <1>5, <1>6 DEF DetInv
<1>7. CASE ~Full
  <2> DEFINE vo == videoOutput
             n == Len(vo)
             ao == Append(vo, q)
  <2>1. /\ videoOutput' = ao /\ n \in Nat /\ Len(ao) = n + 1 /\ ao # <<>> /\ ao[n + 1] = q
        /\ \A i \in 1..n : ao[i] = vo[i]
    BY <1>1, <1>3, <1>7
  <2> HIDE DEF ao
  <2>2. vo # <<>> => n # 0
    BY <1>3
  <2>3. \A p : Begins(p)' <=> Begins(p)
    BY <1>1 DEF Begins
  <2>31. \A p, r : MayFollow(p, r)' <=> MayFollow(p, r)
    BY <1>1 DEF MayFollow, Opens
  <2>4. q.picture = sender.picture /\ (sender').picture = sender.picture /\ (Fresh => Begins(q))
    BY DEF Goes
  <2>5. Lined'
    <3>1. ASSUME NEW i \in 2..(n + 1) PROVE ao[i].picture = ao[i - 1].picture \/ Begins(ao[i])
      <4>1. CASE i \in 2..n
        <5>1. i \in 1..n /\ i - 1 \in 1..n /\ i \in 2..Len(videoOutput)
          BY <2>1, <4>1
        <5> QED BY <1>2, <2>1, <5>1 DEF Lined
      <4>2. CASE i = n + 1
        <5>1. n \in 1..n /\ vo # <<>> /\ i - 1 = n
          BY <1>3, <2>1, <4>2
        <5>2. ao[i] = q /\ ao[i - 1] = vo[n]
          BY <2>1, <4>2, <5>1
        <5>3. Fresh \/ vo[n].picture = sender.picture
          BY <1>2, <5>1 DEF Lined
        <5> QED BY <2>4, <5>2, <5>3
      <4> QED BY <2>1, <4>1, <4>2
    <3>2. currentFrame # <<>> => ao[1].picture = currentFrame[Len(currentFrame)].picture \/ Begins(ao[1])
      <4>1. CASE vo # <<>>
        <5>1. ao[1] = vo[1]
          BY <2>1, <2>2, <4>1
        <5> QED BY <1>2, <4>1, <5>1 DEF Lined
      <4>2. CASE vo = <<>>
        <5>1. ao[1] = q
          BY <2>1, <4>2
        <5> QED BY <1>2, <2>4, <4>2, <5>1 DEF Lined
      <4> QED BY <4>1, <4>2
    <3>3. ao[Len(ao)].picture = (sender').picture
      BY <2>1, <2>4
    <3>4. \A i \in 2..Len(currentFrame) : MayFollow(currentFrame[i - 1], currentFrame[i])
      BY <1>2 DEF Lined
    <3>5. feed.codec = "av1" /\ feed.source = "nal" => currentFrame = <<>>
      BY <1>2 DEF Lined
    <3> QED BY <1>1, <2>1, <2>3, <2>31, <3>1, <3>2, <3>3, <3>4, <3>5 DEF Lined
  <2>6. Keyed'
    <3> SUFFICES ASSUME feed.source = "ts" PROVE \E keys : KeyedBy(keys)'
      BY <1>1 DEF Keyed
    <3>1. PICK keys : KeyedBy(keys)
      BY <1>2 DEF Keyed
    <3>2. sender.picture \in Nat /\ keys[sender.picture] \in BOOLEAN
      BY <1>2, <3>1 DEF DetShape, SenderSet, KeyedBy
    <3>3. /\ q.units \in Seq(KindsIn(feed.codec, keys[sender.picture])) /\ (q.key => SRTKeyframe(q.units))
          /\ (sender').rest \in Seq(KindsIn(feed.codec, keys[sender.picture]))
      BY <3>1, <3>2 DEF Goes, KeyedBy
    <3>4. OfKind(q, keys) /\ q.picture <= sender.picture
      BY <2>4, <3>2, <3>3 DEF OfKind
    <3>5. \A p \in InHand' : p \in InHand \/ p = q
      <4> SUFFICES ASSUME NEW p \in InHand' PROVE p \in InHand \/ p = q
        OBVIOUS
      <4>1. CASE \E i \in DOMAIN currentFrame : p = currentFrame[i]
        BY <4>1 DEF InHand
      <4>2. CASE \E i \in DOMAIN ao : p = ao[i]
        <5>1. PICK i \in 1..(n + 1) : p = ao[i]
          <6>1. DOMAIN ao = 1..(n + 1)
            BY <1>3, <2>1 DEF ao
          <6> QED BY <4>2, <6>1
        <5>2. i \in 1..n \/ i = n + 1
          BY <2>1
        <5>3. i \in 1..n => p = vo[i] /\ i \in DOMAIN vo
          BY <1>3, <2>1, <5>1
        <5> QED BY <2>1, <5>1, <5>2, <5>3 DEF InHand
      <4> QED BY <1>1, <2>1, <4>1, <4>2 DEF InHand
    <3>6. \A p : OfKind(p, keys)' <=> OfKind(p, keys)
      BY <1>1 DEF OfKind, SRTKeyframe
    <3>7. KeyedBy(keys)'
      BY <1>1, <2>4, <3>1, <3>3, <3>4, <3>5, <3>6 DEF KeyedBy
    <3> QED BY <3>7
  <2> QED BY <1>4, <1>5, <2>5, <2>6 DEF DetInv
<1> QED BY <1>6, <1>7

\* A packet of the next n units, and what is left.
LEMMA NextUnits ==
  ASSUME NEW T, NEW s \in Seq(T), NEW n \in 1..Len(s), NEW m \in {n, n + 1}
  PROVE  /\ SubSeq(s, 1, n) \in Seq(T) /\ SubSeq(s, 1, n) # <<>> /\ SubSeq(s, m, Len(s)) \in Seq(T)
         /\ SubSeq(s, 1, n)[1] = s[1] /\ Len(SubSeq(s, 1, n)) = n
<1> DEFINE a == SubSeq(s, 1, n)
           l == Len(s)
           b == SubSeq(s, m, l)
<1>1. l \in Nat /\ n \in Nat /\ 1 \in 1..(l + 1) /\ n \in (1 - 1)..l /\ m \in 1..(l + 1) /\ l \in (m - 1)..l
      /\ n - 1 + 1 = n /\ 1 \in 1..n /\ 1 + 1 - 1 = 1
  OBVIOUS
<1>2. a \in Seq(T) /\ Len(a) = n - 1 + 1 /\ \A i \in 1..(n - 1 + 1) : a[i] = s[1 + i - 1]
  BY <1>1, SubSeqIs
<1>3. b \in Seq(T)
  BY <1>1, SubSeqIs
<1>4. a[1] = s[1] /\ Len(a) = n
  BY <1>1, <1>2
<1> HIDE DEF a, b, l
<1>5. a # <<>>
  BY <1>1, <1>4
<1> QED BY <1>2, <1>3, <1>4, <1>5 DEF a, b, l

LEMMA RawStep == ASSUME DetInv, ProcessPacket PROVE DetInv'
<1>1. DetShape /\ sender \in SenderSet /\ sender.picture \in Nat /\ sender.rest \in Seq(STRING) /\ sender.rest # <<>>
  BY DEF DetInv, DetShape, SenderSet, ProcessPacket
<1>2. feed.source = "raw" /\ feed.source # "ts"
  BY DEF ProcessPacket
<1>3. PICK h : h = Head(sender.rest)
  OBVIOUS
<1>4. h \in STRING /\ h = sender.rest[1] /\ Tail(sender.rest) \in Seq(STRING)
  <2>1. \A s \in Seq(STRING) : s # <<>> => Head(s) \in STRING /\ Head(s) = s[1] /\ Tail(s) \in Seq(STRING)
    OBVIOUS
  <2> QED BY <1>1, <1>3, <2>1
<1>5. <<h>> \in Seq(STRING) \ {<<>>} /\ Len(<<h>>) = 1 /\ <<h>>[1] = h
  BY <1>4
<1>6. PICK part \in {"whole", "first", "last"}, key \in BOOLEAN, marker \in BOOLEAN :
        /\ part = "last" <=> sender.part = "first"
        /\ Offer(Packet(<<h>>, h, part, key, marker))
        /\ sender' = [sender EXCEPT !.part = part, !.rest = IF part = "first" THEN @ ELSE Tail(@)]
  BY <1>3 DEF ProcessPacket
<1>7. PICK q : q = Packet(<<h>>, h, part, key, marker)
  OBVIOUS
<1>8. q \in PacketSet /\ q.picture = sender.picture /\ q.units = <<h>> /\ q.first = h /\ q.part = part
  BY <1>1, <1>4, <1>5, <1>7 DEF Packet, PacketSet
<1>9. sender' \in SenderSet /\ (sender').picture = sender.picture
  BY <1>1, <1>4, <1>6 DEF SenderSet
<1>10. Fresh => Begins(q)
  BY <1>2, <1>4, <1>5, <1>6, <1>8 DEF Fresh, Begins
<1>11. Goes(q)
  BY <1>2, <1>8, <1>9, <1>10 DEF Goes
<1> QED BY <1>6, <1>7, <1>11, SendStep

LEMMA NALStep == ASSUME DetInv, HandleNALUnits PROVE DetInv'
<1>1. DetShape /\ sender \in SenderSet /\ sender.picture \in Nat /\ sender.rest \in Seq(STRING) /\ sender.rest # <<>>
  BY DEF DetInv, DetShape, SenderSet, HandleNALUnits
<1>2. feed.source = "nal" /\ feed.source # "ts"
  BY DEF HandleNALUnits
<1>3. PICK n, l, s, h : /\ l = Len(sender.rest) /\ n = (IF feed.codec = "jpegxs" THEN l ELSE 1)
                        /\ s = sender.rest /\ h = Head(s)
  OBVIOUS
<1>4. s \in Seq(STRING) /\ s # <<>> /\ l = Len(s) /\ l \in Nat \ {0} /\ n \in 1..Len(s) /\ h = s[1] /\ h \in STRING
  BY <1>1, <1>3
<1>5. PICK u, r : u = SubSeq(s, 1, n) /\ r = SubSeq(s, n + 1, Len(s))
  OBVIOUS
<1>6. u \in Seq(STRING) \ {<<>>} /\ r \in Seq(STRING) /\ u[1] = s[1] /\ Len(u) = n
  <2>1. n + 1 \in {n, n + 1}
    OBVIOUS
  <2>2. SubSeq(s, 1, n) \in Seq(STRING) /\ SubSeq(s, 1, n) # <<>> /\ SubSeq(s, n + 1, Len(s)) \in Seq(STRING)
        /\ SubSeq(s, 1, n)[1] = s[1] /\ Len(SubSeq(s, 1, n)) = n
    BY <1>4, <2>1, NextUnits
  <2> QED BY <1>5, <2>2
<1>7. Offer(Packet(u, h, "whole", FALSE, FALSE)) /\ sender' = [sender EXCEPT !.rest = r]
  BY <1>3, <1>5 DEF HandleNALUnits
<1>8. PICK q : q = Packet(u, h, "whole", FALSE, FALSE)
  OBVIOUS
<1>9. q \in PacketSet /\ q.picture = sender.picture /\ q.units = u /\ q.first = h /\ q.part = "whole"
  BY <1>1, <1>4, <1>6, <1>8 DEF Packet, PacketSet
<1>10. sender' \in SenderSet /\ (sender').picture = sender.picture
  BY <1>1, <1>6, <1>7 DEF SenderSet
<1>11. Fresh => Begins(q)
  <2>1. Len(u) \in Nat \ {0} /\ u[1] = h
    BY <1>4, <1>6
  <2> QED BY <1>3, <1>4, <1>9, <2>1 DEF Fresh, Begins
<1>12. Goes(q)
  BY <1>2, <1>9, <1>10, <1>11 DEF Goes
<1> QED BY <1>7, <1>8, <1>12, SendStep

LEMMA TSStep == ASSUME DetInv, ProcessTSPacket PROVE DetInv'
<1>1. DetShape /\ sender \in SenderSet /\ sender.picture \in Nat /\ sender.rest \in Seq(STRING) /\ sender.rest # <<>>
      /\ sender.part \in {"whole", "cut", "first", "last"}
  BY DEF DetInv, DetShape, SenderSet, ProcessTSPacket
<1>2. feed.source = "ts" /\ feed.codec \in DOMAIN UnitLists
  BY <1>1 DEF ProcessTSPacket, DetShape
<1>3. PICK s : s = sender.rest
  OBVIOUS
<1>4. PICK n, cut, part, u, first, key :
        /\ n \in 1..Len(s) /\ cut \in BOOLEAN /\ part = (IF sender.part = "cut" THEN "middle" ELSE "whole")
        /\ u = SubSeq(s, 1, n)
        /\ first \in (IF part = "middle" THEN Misread[feed.codec] ELSE {Head(u)})
        /\ Offer(Packet(u, first, part, key, FALSE))
        /\ key = (s \in UnitLists[feed.codec] /\ part = "whole" /\ SRTKeyframe(u))
        /\ sender' = [sender EXCEPT !.rest = SubSeq(@, IF cut THEN n ELSE n + 1, Len(@)),
                                    !.part = IF cut THEN "cut" ELSE "whole"]
  BY <1>3, Zenon DEF ProcessTSPacket
<1>5. PICK m, r, on : m = (IF cut THEN n ELSE n + 1) /\ r = SubSeq(s, m, Len(s)) /\ on = (IF cut THEN "cut" ELSE "whole")
  OBVIOUS
<1>6. sender' = [sender EXCEPT !.rest = r, !.part = on] /\ m \in {n, n + 1} /\ on \in {"whole", "cut"}
  BY <1>3, <1>4, <1>5
<1>7. ASSUME NEW T, s \in Seq(T) PROVE u \in Seq(T) \ {<<>>} /\ r \in Seq(T) /\ u[1] = s[1] /\ Len(u) = n
  <2>1. /\ SubSeq(s, 1, n) \in Seq(T) /\ SubSeq(s, 1, n) # <<>> /\ SubSeq(s, m, Len(s)) \in Seq(T)
        /\ SubSeq(s, 1, n)[1] = s[1] /\ Len(SubSeq(s, 1, n)) = n
    <3>1. n \in 1..Len(s)
      BY <1>4
    <3> QED BY <1>6, <1>7, <3>1, NextUnits
  <2> QED BY <1>4, <1>5, <2>1
<1>8. u \in Seq(STRING) \ {<<>>} /\ r \in Seq(STRING) /\ u[1] = s[1] /\ Len(u) = n /\ s \in Seq(STRING)
  BY <1>1, <1>3, <1>7
<1>9. key \in BOOLEAN /\ (key => SRTKeyframe(u))
  BY <1>4
<1>10. first \in STRING /\ (part = "whole" => first = u[1]) /\ part \in {"whole", "middle", "first", "last"}
  <2>1. Misread[feed.codec] \subseteq STRING
    BY <1>2, DetectorAssumption
  <2>2. Head(u) = u[1] /\ u[1] \in STRING
    BY <1>8
  <2> QED BY <1>4, <2>1, <2>2
<1>11. PICK q : q = Packet(u, first, part, key, FALSE)
  OBVIOUS
<1>12. q \in PacketSet /\ q.picture = sender.picture /\ q.units = u /\ q.first = first /\ q.part = part /\ q.key = key
  BY <1>1, <1>8, <1>9, <1>10, <1>11 DEF Packet, PacketSet
<1>13. sender' \in SenderSet /\ (sender').picture = sender.picture /\ (sender').rest = r
  BY <1>1, <1>6, <1>8 DEF SenderSet
<1>14. Fresh => Begins(q)
  <2>1. Len(u) \in Nat \ {0}
    BY <1>8
  <2> QED BY <1>3, <1>4, <1>8, <1>10, <1>12, <2>1 DEF Fresh, Begins
<1>15. \A k \in BOOLEAN : sender.rest \in Seq(KindsIn(feed.codec, k)) =>
         q.units \in Seq(KindsIn(feed.codec, k)) /\ (sender').rest \in Seq(KindsIn(feed.codec, k))
  BY <1>3, <1>7, <1>12, <1>13
<1>16. Goes(q)
  BY <1>9, <1>12, <1>13, <1>14, <1>15 DEF Goes
<1> QED BY <1>4, <1>11, <1>16, SendStep

-----------------------------------------------------------------------------
(* The assembler                                                           *)

LEMMA CompleteGood ==
  ASSUME DetShape, Keyed, NEW pk \in Seq(PacketSet), pk # <<>>,
         \A j \in DOMAIN pk : pk[j] \in InHand, \A j \in 2..Len(pk) : MayFollow(pk[j - 1], pk[j])
  PROVE  GoodFrame(CompleteFrame(pk))
<1>1. PICK f : f = CompleteFrame(pk)
  OBVIOUS
<1>2. f.packets = pk /\ 1 \in DOMAIN pk
  BY <1>1 DEF CompleteFrame
<1>3. ASSUME feed.source = "ts", pk[1].part = "whole", pk[1].units \in UnitLists[feed.codec], OnePicture(f)
      PROVE  f.key <=> \E j \in DOMAIN pk[1].units : pk[1].units[j] \in {"IDR", "I", "IRAP"}
  <2>1. PICK keys : KeyedBy(keys)
    BY <1>3 DEF Keyed
  <2>2. PICK key : key = keys[pk[1].picture]
    OBVIOUS
  <2>3. pk[1] \in InHand /\ pk[1].picture \in Nat
    BY <1>2, InHandType
  <2>4. key \in BOOLEAN
    BY <2>1, <2>2, <2>3 DEF KeyedBy
  <2>5. \A j \in DOMAIN pk : pk[j].units \in Seq(KindsIn(feed.codec, key)) /\ (pk[j].key => SRTKeyframe(pk[j].units))
    <3>1. \A j \in DOMAIN pk : pk[j].picture = pk[1].picture
      BY <1>2, <1>3 DEF OnePicture
    <3> QED BY <2>1, <2>2, <3>1 DEF KeyedBy, OfKind
  <2>6. \A j \in DOMAIN pk : pk[j].units # <<>>
    <3>1. \A j \in DOMAIN pk : pk[j] \in PacketSet
      OBVIOUS
    <3> QED BY <3>1 DEF PacketSet
  <2>7. PICK i \in DOMAIN pk[1].units : pk[1].units[i] \in Slices(feed.codec)
    BY <1>3, ComesOfKind
  <2>8. feed.codec \in {"h264", "hevc"} /\ feed.source # "raw"
    BY <1>3 DEF DetShape
  <2> QED BY <1>1, <1>2, <1>3, <2>4, <2>5, <2>6, <2>7, <2>8, FrameKey
<1>4. GoodFrame(f)
  BY <1>2, <1>3 DEF GoodFrame
<1> QED BY <1>1, <1>4

\* What is left of a sequence when its head is taken.
LEMMA TailIs ==
  ASSUME NEW T, NEW s \in Seq(T), s # <<>>
  PROVE  /\ Tail(s) \in Seq(T) /\ Len(s) \in Nat \ {0} /\ Len(Tail(s)) = Len(s) - 1
         /\ \A i \in 1..(Len(s) - 1) : Tail(s)[i] = s[i + 1]
         /\ Head(s) = s[1] /\ s[1] \in T /\ 1 \in DOMAIN s
OBVIOUS

LEMMA AppendIs ==
  ASSUME NEW T, NEW s \in Seq(T), NEW x \in T
  PROVE  /\ Append(s, x) \in Seq(T) /\ DOMAIN Append(s, x) = 1..(Len(s) + 1) /\ Append(s, x)[Len(s) + 1] = x
         /\ \A j \in 1..Len(s) : Append(s, x)[j] = s[j]
         /\ Append(s, x) # <<>>
OBVIOUS

\* The frame under way, once it has taken the packet.
LEMMA FrameGrows ==
  ASSUME DetShape, Lined, Keyed, videoOutput # <<>>, NEW p, p = videoOutput[1], Len(p.units) < MaxNALUnits,
         NEW v, v = DetectBoundaries(p, detector), NEW now,
         now = IF v.start THEN <<p>> ELSE IF currentFrame = <<>> THEN <<>> ELSE Append(currentFrame, p)
  PROVE  /\ now \in Seq(PacketSet) /\ \A j \in DOMAIN now : now[j] \in InHand
         /\ \A j \in 2..Len(now) : MayFollow(now[j - 1], now[j])
         /\ now # <<>> => now[Len(now)].picture = p.picture
         /\ feed.codec = "av1" /\ feed.source = "nal" => now = <<>>
<1>1. videoOutput \in Seq(PacketSet) /\ currentFrame \in Seq(PacketSet)
  BY DEF DetShape
<1>2. 1 \in DOMAIN videoOutput /\ p \in PacketSet
  BY <1>1
<1>3. p \in InHand
  BY <1>2 DEF InHand
<1>4. Len(p.units) \in Nat \ {0} /\ MaxNALUnits \in Nat
  BY <1>2, DetectorAssumption DEF PacketSet
<1>5. ASSUME feed.codec = "av1", feed.source = "nal" PROVE ~v.start /\ currentFrame = <<>>
  <2>1. currentFrame = <<>>
    BY <1>5 DEF Lined
  <2>2. ~(Len(p.units) >= MaxNALUnits)
    BY <1>4
  <2>3. DetectBoundaries(p, detector) = AV1Boundaries(<<"reserved">>, detector)
    BY <1>5, <2>2 DEF DetectBoundaries, ParseOBUs
  <2> QED BY <2>1, <2>3, ReservedStartsNot
<1>6. CASE v.start
  <2>1. now = <<p>> /\ Len(<<p>>) = 1 /\ <<p>>[1] = p /\ DOMAIN <<p>> = {1}
    BY <1>6
  <2> QED BY <1>2, <1>3, <1>5, <1>6, <2>1
<1>7. CASE ~v.start /\ currentFrame = <<>>
  BY <1>7
<1>8. CASE ~v.start /\ currentFrame # <<>>
  <2>1. ~(Begins(p) /\ Opens(p))
    <3>1. feed.codec \in {"h264", "hevc", "av1", "jpegxs"} /\ ~(feed.codec = "av1" /\ feed.source = "nal")
      BY <1>5, <1>8, CodecIs
    <3>2. ~(Len(p.units) >= MaxNALUnits)
      BY <1>4
    <3> QED BY <1>8, <3>1, <3>2, BeginsStarts
  <2>2. MayFollow(currentFrame[Len(currentFrame)], p)
    BY <1>8, <2>1 DEF Lined, MayFollow
  <2>3. \A j \in DOMAIN currentFrame : currentFrame[j] \in InHand
    BY DEF InHand
  <2>30. \A j \in 2..Len(currentFrame) : MayFollow(currentFrame[j - 1], currentFrame[j])
    BY DEF Lined
  <2>4. PICK cf, n : cf = currentFrame /\ n = Len(cf)
    OBVIOUS
  <2>5. now = Append(cf, p) /\ cf \in Seq(PacketSet) /\ cf # <<>> /\ n \in Nat \ {0} /\ DOMAIN cf = 1..n
    BY <1>1, <1>8, <2>4
  <2>6. /\ now \in Seq(PacketSet) /\ DOMAIN now = 1..(n + 1) /\ now[n + 1] = p /\ Len(now) = n + 1
        /\ \A j \in 1..n : now[j] = cf[j]
    <3>1. /\ Append(cf, p) \in Seq(PacketSet) /\ DOMAIN Append(cf, p) = 1..(Len(cf) + 1)
          /\ Append(cf, p)[Len(cf) + 1] = p /\ \A j \in 1..Len(cf) : Append(cf, p)[j] = cf[j]
      BY <1>2, <2>5, AppendIs
    <3>2. Len(Append(cf, p)) = Len(cf) + 1
      BY <1>2, <2>5
    <3> QED BY <2>4, <2>5, <3>1, <3>2, Zenon
  <2>7. \A j \in DOMAIN now : now[j] \in InHand
    <3> TAKE j \in DOMAIN now
    <3>1. j \in 1..n \/ j = n + 1
      BY <2>5, <2>6
    <3> QED BY <1>3, <2>3, <2>4, <2>5, <2>6, <3>1
  <2>8. \A j \in 2..Len(now) : MayFollow(now[j - 1], now[j])
    <3> TAKE j \in 2..Len(now)
    <3>1. CASE j \in 2..n
      <4>1. j \in 1..n /\ j - 1 \in 1..n
        BY <2>5, <3>1
      <4>2. now[j] = cf[j] /\ now[j - 1] = cf[j - 1]
        BY <2>6, <4>1
      <4> QED BY <2>30, <2>4, <3>1, <4>2
    <3>2. CASE j = n + 1
      <4>1. j - 1 = n /\ n \in 1..n
        BY <2>5, <3>2
      <4>2. now[j] = p /\ now[j - 1] = cf[n]
        BY <2>6, <3>2, <4>1
      <4> QED BY <2>2, <2>4, <4>2
    <3> QED BY <2>5, <2>6, <3>1, <3>2
  <2> QED BY <1>5, <1>8, <2>6, <2>7, <2>8
<1> QED BY <1>6, <1>7, <1>8

LEMMA AssembleStep == ASSUME DetInv, AssemblePacket PROVE DetInv'
<1>p. PICK p : p = Head(videoOutput)
  OBVIOUS
<1>v. PICK v : v = DetectBoundaries(p, detector)
  OBVIOUS
<1>l. PICK late \in BOOLEAN :
        LET orphan == ~v.start /\ currentFrame = <<>>
            before == IF v.start /\ currentFrame # <<>> THEN <<CompleteFrame(currentFrame)>> ELSE <<>>
            now == IF v.start THEN <<p>> ELSE IF orphan THEN <<>> ELSE Append(currentFrame, p)
            done == ~orphan /\ (v.end \/ late)
        IN  /\ finished' = before \o IF done THEN <<CompleteFrame(now)>> ELSE <<>>
            /\ currentFrame' = IF done THEN <<>> ELSE now
            /\ clean' = (clean /\ Len(p.units) < MaxNALUnits)
  BY <1>p, <1>v, Zenon DEF AssemblePacket
<1>n. PICK now : now = IF v.start THEN <<p>> ELSE IF ~v.start /\ currentFrame = <<>> THEN <<>> ELSE Append(currentFrame, p)
  OBVIOUS
<1>d. PICK done : done = (~(~v.start /\ currentFrame = <<>>) /\ (v.end \/ late))
  OBVIOUS
<1>1. /\ finished' = (IF v.start /\ currentFrame # <<>> THEN <<CompleteFrame(currentFrame)>> ELSE <<>>)
                       \o IF done THEN <<CompleteFrame(now)>> ELSE <<>>
      /\ currentFrame' = IF done THEN <<>> ELSE now
      /\ clean' = (clean /\ Len(p.units) < MaxNALUnits)
  BY <1>l, <1>n, <1>d, Zenon
<1>0. now = IF v.start THEN <<p>> ELSE IF currentFrame = <<>> THEN <<>> ELSE Append(currentFrame, p)
  BY <1>n
<1>2. /\ videoOutput # <<>> /\ videoOutput' = Tail(videoOutput) /\ feed' = feed /\ sender' = sender
  BY DEF AssemblePacket
<1>3. DetShape /\ videoOutput \in Seq(PacketSet) /\ currentFrame \in Seq(PacketSet) /\ clean \in BOOLEAN
  BY DEF DetInv, DetShape
<1>4. /\ Tail(videoOutput) \in Seq(PacketSet) /\ Len(videoOutput) \in Nat \ {0}
      /\ Len(Tail(videoOutput)) = Len(videoOutput) - 1
      /\ \A i \in 1..(Len(videoOutput) - 1) : Tail(videoOutput)[i] = videoOutput[i + 1]
      /\ p = videoOutput[1] /\ p \in PacketSet /\ 1 \in DOMAIN videoOutput
  BY <1>p, <1>2, <1>3, TailIs
<1>5. now \in Seq(PacketSet) /\ currentFrame' \in {<<>>, now}
  BY <1>0, <1>1, <1>3, <1>4
<1>6. DetShape'
  <2>1. currentFrame' \in Seq(PacketSet) /\ clean' \in BOOLEAN
    BY <1>1, <1>3, <1>5
  <2> QED BY <1>2, <1>3, <1>4, <2>1 DEF DetShape
<1>7. CASE ~clean'
  BY <1>6, <1>7 DEF DetInv, FramesArePictures
<1>8. CASE clean'
  <2>1. clean /\ Len(p.units) < MaxNALUnits /\ Lined /\ Keyed
    BY <1>1, <1>8 DEF DetInv
  <2>2. /\ \A j \in DOMAIN now : now[j] \in InHand
        /\ \A j \in 2..Len(now) : MayFollow(now[j - 1], now[j])
        /\ now # <<>> => now[Len(now)].picture = p.picture
        /\ feed.codec = "av1" /\ feed.source = "nal" => now = <<>>
    <3>1. DetShape /\ Lined /\ Keyed /\ videoOutput # <<>> /\ p = videoOutput[1] /\ Len(p.units) < MaxNALUnits
      BY <1>2, <1>3, <1>4, <2>1
    <3> QED BY <1>0, <1>v, <3>1, FrameGrows
  <2>3. FramesArePictures'
    <3>1. /\ \A j \in DOMAIN currentFrame : currentFrame[j] \in InHand
          /\ \A j \in 2..Len(currentFrame) : MayFollow(currentFrame[j - 1], currentFrame[j])
      BY <2>1 DEF Lined, InHand
    <3>2. PICK x : x = CompleteFrame(currentFrame)
      OBVIOUS
    <3>3. PICK y : y = CompleteFrame(now)
      OBVIOUS
    <3>4. currentFrame # <<>> => GoodFrame(x)
      BY <1>3, <2>1, <3>1, <3>2, CompleteGood
    <3>5. now # <<>> => GoodFrame(y)
      BY <1>3, <1>5, <2>1, <2>2, <3>3, CompleteGood
    <3>6. done => now # <<>>
      <4>1. Append(currentFrame, p) # <<>>
        BY <1>3, <1>4, AppendIs
      <4> QED BY <1>0, <1>d, <4>1
    <3>7. PICK b, a : /\ b = IF v.start /\ currentFrame # <<>> THEN <<x>> ELSE <<>>
                      /\ a = IF done THEN <<y>> ELSE <<>>
      OBVIOUS
    <3>8. finished' = b \o a
      BY <1>1, <3>2, <3>3, <3>7
    <3>9. \A i \in DOMAIN b : GoodFrame(b[i])
      BY <3>4, <3>7
    <3>10. \A i \in DOMAIN a : GoodFrame(a[i])
      BY <3>5, <3>6, <3>7
    <3>11. \A i \in DOMAIN (b \o a) : (\E j \in DOMAIN b : (b \o a)[i] = b[j]) \/ (\E j \in DOMAIN a : (b \o a)[i] = a[j])
      BY <3>7
    <3>12. PICK g : g = b \o a
      OBVIOUS
    <3>13. finished' = g /\ \A i \in DOMAIN g : GoodFrame(g[i])
      BY <3>8, <3>9, <3>10, <3>11, <3>12
    <3>14. \A f : GoodFrame(f)' <=> GoodFrame(f)
      BY <1>2 DEF GoodFrame, MayFollow, Opens, OnePicture
    <3>15. \A i \in DOMAIN g : GoodFrame(g[i])'
      BY <3>13, <3>14
    <3> QED BY <3>13, <3>15 DEF FramesArePictures, GoodFrame, MayFollow
  <2>4. Lined'
    <3>1. PICK vo, n, to : vo = videoOutput /\ n = Len(vo) /\ to = Tail(videoOutput)
      OBVIOUS
    <3>2. /\ n \in Nat \ {0} /\ to \in Seq(PacketSet) /\ Len(to) = n - 1 /\ \A i \in 1..(n - 1) : to[i] = vo[i + 1]
          /\ p = vo[1] /\ videoOutput' = to
      BY <1>2, <1>4, <3>1
    <3>3. \A q, r : (Begins(q)' <=> Begins(q)) /\ (MayFollow(q, r)' <=> MayFollow(q, r))
      BY <1>2 DEF Begins, MayFollow, Opens
    <3>4. \A i \in 2..n : vo[i].picture = vo[i - 1].picture \/ Begins(vo[i])
      BY <2>1, <3>1 DEF Lined
    <3>5. \A i \in 2..(n - 1) : to[i].picture = to[i - 1].picture \/ Begins(to[i])
      <4> TAKE i \in 2..(n - 1)
      <4>1. i \in 1..(n - 1) /\ i - 1 \in 1..(n - 1) /\ i + 1 \in 2..n /\ i + 1 - 1 = i /\ i - 1 + 1 = i
        BY <3>2
      <4>2. to[i] = vo[i + 1] /\ to[i - 1] = vo[i]
        BY <3>2, <4>1
      <4> QED BY <3>4, <4>1, <4>2
    <3>6. to # <<>> => n - 1 \in Nat \ {0} /\ to[1] = vo[2] /\ to[n - 1] = vo[n]
      <4> SUFFICES ASSUME to # <<>> PROVE n - 1 \in Nat \ {0} /\ to[1] = vo[2] /\ to[n - 1] = vo[n]
        OBVIOUS
      <4>1. Len(to) # 0 /\ Len(to) \in Nat
        BY <3>2
      <4>2. n - 1 \in Nat \ {0} /\ 1 \in 1..(n - 1) /\ n - 1 \in 1..(n - 1) /\ n - 1 + 1 = n /\ 1 + 1 = 2
        BY <3>2, <4>1
      <4> QED BY <3>2, <4>2
    <3>7. to = <<>> => n = 1
      BY <3>2
    <3>8. to # <<>> => to[1].picture = p.picture \/ Begins(to[1])
      <4>1. to # <<>> => 2 \in 2..n /\ 2 - 1 = 1
        BY <3>2, <3>6
      <4> QED BY <3>2, <3>4, <3>6, <4>1
    <3>9. Fresh' <=> Fresh
      BY <1>2 DEF Fresh
    <3>10. Fresh \/ vo[n].picture = sender.picture
      BY <1>2, <2>1, <3>1 DEF Lined
    <3>11. currentFrame' # <<>> => currentFrame' = now /\ (currentFrame')[Len(currentFrame')].picture = p.picture
      BY <1>5, <2>2
    <3>12. \A i \in 2..Len(currentFrame') : MayFollow((currentFrame')[i - 1], (currentFrame')[i])
      BY <1>5, <2>2
    <3>13. feed.codec = "av1" /\ feed.source = "nal" => currentFrame' = <<>>
      BY <1>5, <2>2
    <3>14. \A i \in 2..Len(videoOutput') :
             (videoOutput')[i].picture = (videoOutput')[i - 1].picture \/ Begins((videoOutput')[i])
      BY <3>2, <3>5
    <3>15. \/ Fresh
           \/ /\ to # <<>> => to[Len(to)].picture = sender.picture
              /\ to = <<>> /\ currentFrame' # <<>> => (currentFrame')[Len(currentFrame')].picture = sender.picture
      BY <3>2, <3>6, <3>7, <3>10, <3>11
    <3> QED BY <1>2, <3>2, <3>3, <3>5, <3>8, <3>9, <3>11, <3>12, <3>13, <3>15 DEF Lined
  <2>5. Keyed'
    <3> SUFFICES ASSUME feed.source = "ts" PROVE \E keys : KeyedBy(keys)'
      BY <1>2 DEF Keyed
    <3>1. PICK keys : KeyedBy(keys)
      BY <2>1 DEF Keyed
    <3>2. ASSUME NEW q \in InHand' PROVE q \in InHand
      <4>1. CASE \E i \in DOMAIN videoOutput' : q = (videoOutput')[i]
        <5>1. PICK i \in DOMAIN Tail(videoOutput) : q = Tail(videoOutput)[i]
          BY <1>2, <4>1
        <5>2. DOMAIN Tail(videoOutput) = 1..(Len(videoOutput) - 1) /\ DOMAIN videoOutput = 1..Len(videoOutput)
          BY <1>3, <1>4
        <5>3. i \in 1..(Len(videoOutput) - 1) /\ i + 1 \in DOMAIN videoOutput
          BY <1>4, <5>1, <5>2
        <5>4. q = videoOutput[i + 1]
          BY <1>4, <5>1, <5>3
        <5> QED BY <5>3, <5>4 DEF InHand
      <4>2. CASE \E i \in DOMAIN currentFrame' : q = (currentFrame')[i]
        BY <1>5, <2>2, <4>2
      <4> QED BY <4>1, <4>2 DEF InHand
    <3>3. \A q : OfKind(q, keys)' <=> OfKind(q, keys)
      BY <1>2 DEF OfKind, SRTKeyframe
    <3>4. KeyedBy(keys)'
      BY <1>2, <3>1, <3>2, <3>3 DEF KeyedBy
    <3> QED BY <3>4
  <2> QED BY <1>6, <2>3, <2>4, <2>5 DEF DetInv
<1> QED BY <1>7, <1>8

LEMMA DetInvStep == DetInv /\ [DetNext]_detVars => DetInv'
<1> SUFFICES ASSUME DetInv, [DetNext]_detVars PROVE DetInv'
  OBVIOUS
<1>1. CASE NextPicture
  BY <1>1, NextPictureStep
<1>2. CASE ProcessTSPacket
  BY <1>2, TSStep
<1>3. CASE HandleNALUnits
  BY <1>3, NALStep
<1>4. CASE ProcessPacket
  BY <1>4, RawStep
<1>5. CASE AssemblePacket
  BY <1>5, AssembleStep
<1>6. CASE UNCHANGED detVars
  <2>1. /\ feed' = feed /\ sender' = sender /\ videoOutput' = videoOutput /\ currentFrame' = currentFrame
        /\ finished' = finished /\ clean' = clean
    BY <1>6 DEF detVars
  <2>2. DetShape' <=> DetShape
    BY <2>1 DEF DetShape
  <2>3. Lined' <=> Lined
    BY <2>1 DEF Lined, Fresh, Begins, MayFollow, Opens
  <2>4. Keyed' <=> Keyed
    <3>1. InHand' = InHand /\ \A p, keys : OfKind(p, keys)' <=> OfKind(p, keys)
      BY <2>1 DEF InHand, OfKind, SRTKeyframe
    <3>2. \A keys : KeyedBy(keys)' <=> KeyedBy(keys)
      BY <2>1, <3>1 DEF KeyedBy
    <3> QED BY <2>1, <3>2 DEF Keyed
  <2>5. FramesArePictures' <=> FramesArePictures
    BY <2>1 DEF FramesArePictures, Opens
  <2> QED BY <2>1, <2>2, <2>3, <2>4, <2>5 DEF DetInv
<1> QED BY <1>1, <1>2, <1>3, <1>4, <1>5, <1>6 DEF DetNext

\* As long as no packet is lost or refused, a frame completeFrame hands on
\* (assembler.go:202) goes on from one picture to the next only where the next
\* begins with a unit that does not open a frame by itself, whichever adapter and
\* codec, however the packets are cut and whenever a frame is closed for its age:
\* at delimiters, parameter sets and IDR or random access slices every detector
\* starts a frame (h264_detector.go:154, hevc_detector.go:173, av1_detector.go:45,
\* jpegxs_detector.go:37).  A frame of one picture that came in one transport
\* packet is marked a keyframe exactly if the picture is one.
THEOREM Frames_Sound == DetSpec => []FramesArePictures
<1>1. DetInit => DetInv
  BY DetInvInit
<1>2. DetInv /\ [DetNext]_detVars => DetInv'
  BY DetInvStep
<1>3. DetInv => FramesArePictures
  BY DEF DetInv
<1> QED BY <1>1, <1>2, <1>3, PTL DEF DetSpec
===============================================================================
