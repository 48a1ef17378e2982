--------------------------- MODULE BuffersProofs ---------------------------
(***************************************************************************)
(* Proofs about the buffers.  The pool of ring buffers shares no buffer,   *)
(* for any number of streams and buffers; the ring and the sized buffer    *)
(* implement ByteFIFO, and their previews show the newest bytes, for every *)
(* size; the GOP buffer keeps its books right and what it keeps decodable, *)
(* for any frames, limits and pressures.                                   *)
(***************************************************************************)
EXTENDS RingBuffers, BufferPool, FrameGate, CommonLemmas

-----------------------------------------------------------------------------
(* The pool                                                                *)

\* Buffers are numbered as they are made; who uses one or puts it back has one.
PoolShape ==
  /\ allocated \in Nat
  /\ held \in [PoolStreams -> 0..allocated]
  /\ user \in [PoolUsers -> [at : {"using", "putting", "done"}, buffer : 0..allocated,
                             stream : PoolStreams]]
  /\ \A u \in PoolUsers : user[u].at # "done" => user[u].buffer # 0
  /\ freeList \in Seq(1..allocated)

LEMMA PoolInitially == PoolInit => PoolShape /\ NoBufferShared
<1> SUFFICES ASSUME PoolInit PROVE PoolShape /\ NoBufferShared
  OBVIOUS
<1>1. PoolSize \div 2 \in Nat /\ (CHOOSE s \in PoolStreams : TRUE) \in PoolStreams
  BY PoolAssumption
<1>2. freeList \in Seq(1..allocated) /\ \A i \in DOMAIN freeList : freeList[i] = i
  BY <1>1 DEF PoolInit
<1>3. PoolShape
  BY <1>1, <1>2 DEF PoolInit, PoolShape
<1>4. (\A s \in PoolStreams : held[s] = 0) /\ (\A u \in PoolUsers : user[u].at = "done")
  BY DEF PoolInit
<1>5. ASSUME NEW b \in 1..allocated PROVE OneStream(b) /\ NotFree(b)
  BY <1>2, <1>3, <1>4 DEF PoolShape, OneStream, NotFree, Uses, Free
<1> QED
  BY <1>3, <1>5 DEF NoBufferShared

\* What makes a buffer good after a step: who uses it, where it is held and where
\* it lies in the free list.
LEMMA PoolSame ==
  ASSUME NEW b, OneStream(b), NotFree(b),
         \A u \in PoolUsers : Uses(u, b)' => Uses(u, b) /\ user'[u] = user[u],
         \A s \in PoolStreams : held'[s] = b => held[s] = b,
         \A i \in DOMAIN freeList' : freeList'[i] = b => Free(b),
         \A i, j \in DOMAIN freeList' : freeList'[i] = b /\ freeList'[j] = b => i = j
  PROVE  OneStream(b)' /\ NotFree(b)'
<1>1. OneStream(b)'
  BY DEF OneStream
<1>2. Free(b)' => Free(b)
  BY DEF Free
<1>3. \A u \in PoolUsers : OthersHave(u, b)' => OthersHave(u, b)
  BY DEF OthersHave, Uses
<1> QED
  BY <1>1, <1>2, <1>3 DEF NotFree

LEMMA PoolStep == PoolShape /\ NoBufferShared /\ [PoolNext]_poolVars => PoolShape' /\ NoBufferShared'
<1> SUFFICES ASSUME PoolShape, NoBufferShared, [PoolNext]_poolVars PROVE PoolShape' /\ NoBufferShared'
  OBVIOUS
<1> DEFINE Good(b) == OneStream(b) /\ NotFree(b)
<1>0. \A b \in 1..allocated : b \in spoiled \/ Good(b)
  BY DEF NoBufferShared
<1>S. /\ allocated \in Nat /\ held \in [PoolStreams -> 0..allocated]
      /\ user \in [PoolUsers -> [at : {"using", "putting", "done"}, buffer : 0..allocated,
                                 stream : PoolStreams]]
      /\ \A u \in PoolUsers : user[u].at # "done" => user[u].buffer # 0
      /\ freeList \in Seq(1..allocated)
  BY DEF PoolShape
<1>1. ASSUME NEW u \in PoolUsers, NEW s \in PoolStreams, PoolGet(u, s), held[s] # 0
      PROVE  PoolShape' /\ NoBufferShared'
  <2>1. /\ user' = [user EXCEPT ![u] = [at |-> "using", buffer |-> held[s], stream |-> s]]
        /\ UNCHANGED <<held, freeList, allocated, spoiled>>
    BY <1>1 DEF PoolGet, Gets
  <2>2. PoolShape'
    BY <1>1, <1>S, <2>1 DEF PoolShape
  <2>3. ASSUME NEW b \in 1..allocated, Good(b) PROVE Good(b)'
    <3>1. \A v \in PoolUsers : v # u => user'[v] = user[v]
      BY <1>S, <2>1
    <3>2. user'[u] = [at |-> "using", buffer |-> held[s], stream |-> s]
      BY <1>S, <2>1
    <3>3. CASE held[s] # b
      <4>1. \A v \in PoolUsers : Uses(v, b)' => Uses(v, b) /\ user'[v] = user[v]
        BY <3>1, <3>2, <3>3 DEF Uses
      <4> QED
        BY <2>1, <2>3, <4>1, PoolSame DEF NotFree, Free
    <3>4. CASE held[s] = b
      <4>1. \A v \in PoolUsers : Uses(v, b) => user[v].stream = s /\ user[v].at # "putting"
        BY <2>3, <3>4 DEF OneStream, NotFree
      <4>2. \A v \in PoolUsers : Uses(v, b)' => user'[v].stream = s /\ user'[v].at # "putting"
        BY <3>1, <3>2, <4>1 DEF Uses
      <4>3. OneStream(b)'
        BY <2>1, <2>3, <3>4, <4>2 DEF OneStream
      <4>4. ~Free(b) /\ (Free(b)' <=> Free(b))
        BY <2>1, <2>3, <3>4 DEF NotFree, Free
      <4> QED
        BY <2>1, <2>3, <4>2, <4>3, <4>4 DEF NotFree
    <3> QED
      BY <3>3, <3>4
  <2> QED
    BY <1>0, <2>1, <2>2, <2>3 DEF NoBufferShared
<1>2. ASSUME NEW u \in PoolUsers, NEW s \in PoolStreams, PoolGet(u, s), held[s] = 0, freeList # <<>>
      PROVE  PoolShape' /\ NoBufferShared'
  <2>1. /\ Head(freeList) = freeList[1] /\ 1 \in DOMAIN freeList /\ freeList[1] \in 1..allocated
        /\ Tail(freeList) \in Seq(1..allocated)
        /\ Len(Tail(freeList)) = Len(freeList) - 1
        /\ \A i \in DOMAIN Tail(freeList) : i + 1 \in DOMAIN freeList /\ Tail(freeList)[i] = freeList[i + 1]
    BY <1>2, <1>S
  <2>2. PICK f \in 1..allocated : f = freeList[1]
    BY <2>1
  <2>3. /\ user' = [user EXCEPT ![u] = [at |-> "using", buffer |-> f, stream |-> s]]
        /\ held' = [held EXCEPT ![s] = f]
        /\ freeList' = Tail(freeList) /\ UNCHANGED <<allocated, spoiled>>
    BY <1>2, <2>1, <2>2 DEF PoolGet, Gets
  <2>4. PoolShape'
    BY <1>2, <1>S, <2>1, <2>3 DEF PoolShape
  <2>5. /\ \A v \in PoolUsers : v # u => user'[v] = user[v]
        /\ user'[u] = [at |-> "using", buffer |-> f, stream |-> s]
        /\ \A t \in PoolStreams : t # s => held'[t] = held[t]
        /\ held'[s] = f /\ user[u].at = "done"
    BY <1>2, <1>S, <2>3 DEF PoolGet
  <2>6. /\ \A i \in DOMAIN freeList' : i + 1 \in DOMAIN freeList /\ freeList'[i] = freeList[i + 1]
        /\ DOMAIN freeList' \subseteq Nat \ {0}
    BY <2>1, <2>3
  <2>7. ASSUME NEW b \in 1..allocated, Good(b) PROVE Good(b)'
    <3>1. \A i, j \in DOMAIN freeList' : freeList'[i] = b /\ freeList'[j] = b => i = j
      BY <2>6, <2>7 DEF NotFree
    <3>2. CASE b # f
      <4>1. \A v \in PoolUsers : Uses(v, b)' => Uses(v, b) /\ user'[v] = user[v]
        BY <2>5, <3>2 DEF Uses
      <4>2. \A t \in PoolStreams : held'[t] = b => held[t] = b
        BY <2>5, <3>2
      <4>3. \A i \in DOMAIN freeList' : freeList'[i] = b => Free(b)
        BY <2>6 DEF Free
      <4> QED
        BY <2>7, <3>1, <4>1, <4>2, <4>3, PoolSame
    <3>3. CASE b = f
      <4>1. Free(b)
        BY <2>1, <2>2, <3>3 DEF Free
      <4>2. (\A v \in PoolUsers : ~Uses(v, b)) /\ (\A t \in PoolStreams : held[t] # b)
        BY <2>7, <4>1 DEF NotFree
      <4>3. /\ \A v \in PoolUsers : Uses(v, b)' => user'[v].stream = s /\ user'[v].at # "putting"
            /\ \A t \in PoolStreams : held'[t] = b => t = s
        BY <2>5, <4>2 DEF Uses
      <4>4. ~Free(b)'
        <5> SUFFICES ASSUME NEW i \in DOMAIN freeList', freeList'[i] = b PROVE FALSE
          BY DEF Free
        <5>1. i + 1 \in DOMAIN freeList /\ freeList[i + 1] = b /\ i + 1 # 1
          BY <2>6
        <5> QED
          BY <2>1, <2>2, <2>7, <3>3, <5>1 DEF NotFree
      <4> QED
        BY <3>1, <4>3, <4>4 DEF OneStream, NotFree
    <3> QED
      BY <3>2, <3>3
  <2> QED
    BY <1>0, <2>3, <2>4, <2>7 DEF NoBufferShared
<1>3. ASSUME NEW u \in PoolUsers, NEW s \in PoolStreams, PoolGet(u, s), held[s] = 0, freeList = <<>>
      PROVE  PoolShape' /\ NoBufferShared'
  <2>1. /\ user' = [user EXCEPT ![u] = [at |-> "using", buffer |-> allocated + 1, stream |-> s]]
        /\ held' = [held EXCEPT ![s] = allocated + 1] /\ allocated' = allocated + 1
        /\ freeList' = <<>> /\ UNCHANGED spoiled
    BY <1>3 DEF PoolGet, Gets
  <2>2. PoolShape'
    BY <1>S, <2>1 DEF PoolShape
  <2>3. /\ \A v \in PoolUsers : v # u => user'[v] = user[v]
        /\ user'[u] = [at |-> "using", buffer |-> allocated + 1, stream |-> s]
        /\ \A t \in PoolStreams : t # s => held'[t] = held[t]
        /\ held'[s] = allocated + 1 /\ DOMAIN freeList' = {}
    BY <1>S, <2>1
  <2>4. ASSUME NEW b \in 1..allocated, Good(b) PROVE Good(b)'
    <3>1. \A v \in PoolUsers : Uses(v, b)' => Uses(v, b) /\ user'[v] = user[v]
      BY <1>S, <2>3 DEF Uses
    <3>2. \A t \in PoolStreams : held'[t] = b => held[t] = b
      BY <1>S, <2>3
    <3> QED
      BY <2>3, <2>4, <3>1, <3>2, PoolSame
  <2>5. ASSUME NEW b, b = allocated + 1 PROVE Good(b)'
    <3>1. \A v \in PoolUsers : ~Uses(v, b)
      BY <1>S, <2>5 DEF Uses
    <3>2. \A t \in PoolStreams : held[t] # b
      BY <1>S, <2>5
    <3>3. /\ \A v \in PoolUsers : Uses(v, b)' => user'[v].stream = s /\ user'[v].at # "putting"
          /\ \A t \in PoolStreams : held'[t] = b => t = s
      BY <2>3, <3>1, <3>2 DEF Uses
    <3> QED
      BY <2>3, <3>3 DEF OneStream, NotFree, Free
  <2>6. 1..allocated' = 1..allocated \cup {allocated + 1}
    BY <1>S, <2>1
  <2> QED
    BY <1>0, <2>1, <2>2, <2>4, <2>5, <2>6 DEF NoBufferShared
<1>4. ASSUME NEW u \in PoolUsers, PoolPut(u) PROVE PoolShape' /\ NoBufferShared'
  <2>0. PICK p \in 1..allocated, r \in PoolStreams : p = user[u].buffer /\ r = user[u].stream
    BY <1>4, <1>S DEF PoolPut
  <2>1. /\ user' = [user EXCEPT ![u].at = "putting"] /\ held' = [held EXCEPT ![r] = 0]
        /\ UNCHANGED <<freeList, allocated>>
        /\ spoiled \subseteq spoiled' /\ user[u].at # "putting"
        /\ user[u].at = "done" \/ OthersHave(u, p) => p \in spoiled'
    BY <1>4, <2>0 DEF PoolPut
  <2>2. PoolShape'
    <3>1. user' \in [PoolUsers -> [at : {"using", "putting", "done"}, buffer : 0..allocated,
                                    stream : PoolStreams]]
      BY <1>S, <2>1
    <3>2. \A v \in PoolUsers : user'[v].buffer = user[v].buffer
      BY <1>S, <2>1
    <3>3. \A v \in PoolUsers : v # u => user'[v].at = user[v].at
      BY <1>S, <2>1
    <3>4. \A v \in PoolUsers : user'[v].at # "done" => user'[v].buffer # 0
      <4>1. user[u].buffer # 0
        BY <1>4 DEF PoolPut
      <4>2. \A v \in PoolUsers : user[v].at # "done" => user[v].buffer # 0
        BY <1>S
      <4> QED
        BY <3>2, <3>3, <4>1, <4>2, Zenon
    <3>5. held' \in [PoolStreams -> 0..allocated]
      BY <1>S, <2>1
    <3> QED
      BY <1>S, <2>1, <3>1, <3>4, <3>5 DEF PoolShape
  <2>3. /\ \A v \in PoolUsers : v # u => user'[v] = user[v]
        /\ user'[u].at = "putting" /\ user'[u].buffer = p /\ user'[u].stream = r
        /\ \A t \in PoolStreams : held'[t] = held[t] \/ held'[t] = 0
        /\ held'[r] = 0
    BY <1>S, <2>0, <2>1
  <2>4. ASSUME NEW b \in 1..allocated, Good(b), b \notin spoiled' PROVE Good(b)'
    <3>1. \A t \in PoolStreams : held'[t] = b => held[t] = b /\ t # r
      BY <2>3
    <3>2. CASE b # p
      <4>1. \A v \in PoolUsers : Uses(v, b)' => Uses(v, b) /\ user'[v] = user[v]
        BY <2>3, <3>2 DEF Uses
      <4> QED
        BY <2>1, <2>4, <3>1, <4>1, PoolSame DEF NotFree, Free
    <3>3. CASE b = p
      <4>1. Uses(u, b) /\ ~OthersHave(u, b)
        BY <2>0, <2>1, <2>4, <3>3 DEF Uses
      <4>2. /\ \A v \in PoolUsers : v # u => ~Uses(v, b) /\ ~Uses(v, b)'
            /\ \A t \in PoolStreams : held[t] = b => t = r
            /\ ~Free(b)
        BY <2>0, <2>3, <2>4, <4>1 DEF Uses, OthersHave, OneStream, NotFree
      <4>3. /\ \A t \in PoolStreams : held'[t] # b
            /\ ~Free(b)' /\ ~OthersHave(u, b)'
        BY <2>1, <3>1, <4>2 DEF Free, OthersHave, Uses
      <4> QED
        BY <2>1, <2>4, <4>2, <4>3 DEF OneStream, NotFree
    <3> QED
      BY <3>2, <3>3
  <2> QED
    BY <1>0, <2>1, <2>2, <2>4 DEF NoBufferShared
<1>5. ASSUME NEW u \in PoolUsers, PoolReturn(u) PROVE PoolShape' /\ NoBufferShared'
  <2>0. PICK p \in 1..allocated : p = user[u].buffer
    BY <1>5, <1>S DEF PoolReturn
  <2>1. /\ user[u].at = "putting" /\ user' = [user EXCEPT ![u].at = "done"]
        /\ UNCHANGED <<held, allocated, spoiled>>
        /\ freeList' \in {freeList, Append(freeList, p)}
    BY <1>5, <2>0 DEF PoolReturn
  <2>2. Append(freeList, p) \in Seq(1..allocated)
    BY <1>S, <2>0
  <2>3. PoolShape'
    BY <1>S, <2>0, <2>1, <2>2 DEF PoolShape
  <2>4. (\A v \in PoolUsers : v # u => user'[v] = user[v]) /\ user'[u].at = "done"
    BY <1>S, <2>1
  <2>5. ASSUME NEW b \in 1..allocated, Good(b) PROVE Good(b)'
    <3>1. \A v \in PoolUsers : Uses(v, b)' => v # u /\ Uses(v, b) /\ user'[v] = user[v]
      BY <2>4 DEF Uses
    <3>2. CASE freeList' = freeList
      BY <2>1, <2>5, <3>1, <3>2, PoolSame DEF NotFree, Free
    <3>3. CASE freeList' = Append(freeList, p)
      <4>1. /\ DOMAIN freeList' = DOMAIN freeList \cup {Len(freeList) + 1}
            /\ Len(freeList) + 1 \notin DOMAIN freeList
            /\ freeList'[Len(freeList) + 1] = p
            /\ \A i \in DOMAIN freeList : freeList'[i] = freeList[i]
        BY <1>S, <2>0, <3>3
      <4>2. CASE b # p
        <5>1. \A i \in DOMAIN freeList' : freeList'[i] = b => i \in DOMAIN freeList /\ freeList[i] = b
          BY <4>1, <4>2
        <5> QED
          BY <2>1, <2>5, <3>1, <5>1, PoolSame DEF NotFree, Free
      <4>3. CASE b = p
        <5>1. Uses(u, b)
          BY <2>0, <2>1, <4>3 DEF Uses
        <5>2. /\ \A v \in PoolUsers : v # u => ~Uses(v, b)
              /\ \A t \in PoolStreams : held[t] # b
              /\ ~Free(b)
          BY <2>1, <2>5, <5>1 DEF NotFree, OthersHave, Uses
        <5>3. /\ \A v \in PoolUsers : ~Uses(v, b)'
              /\ \A t \in PoolStreams : held'[t] # b
              /\ \A i \in DOMAIN freeList' : freeList'[i] = b => i = Len(freeList) + 1
          BY <2>1, <3>1, <4>1, <5>2 DEF Free
        <5> QED
          BY <5>3 DEF OneStream, NotFree
      <4> QED
        BY <4>2, <4>3
    <3> QED
      BY <2>1, <3>2, <3>3
  <2> QED
    BY <1>0, <2>1, <2>3, <2>5 DEF NoBufferShared
<1>6. ASSUME NEW s \in PoolStreams, PoolRemove(s) PROVE PoolShape' /\ NoBufferShared'
  <2>1. held' = [held EXCEPT ![s] = 0] /\ UNCHANGED <<freeList, allocated, user, spoiled>>
    BY <1>6 DEF PoolRemove
  <2>2. PoolShape'
    BY <1>S, <2>1 DEF PoolShape
  <2>3. \A t \in PoolStreams : held'[t] = held[t] \/ held'[t] = 0
    BY <1>S, <2>1
  <2>4. ASSUME NEW b \in 1..allocated, Good(b) PROVE Good(b)'
    <3>1. /\ \A v \in PoolUsers : Uses(v, b)' => Uses(v, b) /\ user'[v] = user[v]
          /\ \A t \in PoolStreams : held'[t] = b => held[t] = b
      BY <2>1, <2>3 DEF Uses
    <3> QED
      BY <2>1, <2>4, <3>1, PoolSame DEF NotFree, Free
  <2> QED
    BY <1>0, <2>1, <2>2, <2>4 DEF NoBufferShared
<1>7. CASE UNCHANGED poolVars
  BY <1>7 DEF poolVars, PoolShape, NoBufferShared, OneStream, NotFree, Uses, Free, OthersHave
<1> QED
  BY <1>1, <1>2, <1>3, <1>4, <1>5, <1>6, <1>7 DEF PoolNext

\* For any number of goroutines, streams and buffers and any capacity of the free
\* list, no ring buffer is with two streams, or in use and free, unless somebody
\* put that very buffer back once too often: a late Put that takes away a newer
\* entry of its stream, a Remove and a Get between the two halves of a Put do no
\* harm, and a Put too many harms no other buffer (buffer/pool.go:40-110).
THEOREM PoolSharesNothing == PoolSpec => []NoBufferShared
<1> QED
  BY PoolInitially, PoolStep, PTL DEF PoolSpec

-----------------------------------------------------------------------------
(* Positions: remainders of the running totals                             *)

-----------------------------------------------------------------------------
(* The cyclic array                                                        *)

Unread == written - readTotal

\* The positions are the totals modulo the size; the cells from readPos on hold
\* the bytes not yet read; a sized buffer is never quite full.
CellsOK == \A j \in 1..Unread : cells[(readTotal + j - 1) % RingSize] = base + readTotal + j

RingInv ==
  /\ CellsOK
  /\ kind \in {"ring", "sized"}
  /\ cells \in [0..(RingSize - 1) -> Nat]
  /\ written \in Nat /\ readTotal \in Nat /\ Unread \in 0..RingSize
  /\ base \in Nat /\ resets \in Nat
  /\ kind = "sized" => Unread < RingSize
  /\ writePos = written % RingSize /\ readPos = readTotal % RingSize
  /\ ringWriter \in Nat
  /\ reader \in [at : {"out", "lock", "waiting"}, want : Nat]
  /\ reader.at # "out" => reader.want > 0

USE RingAssumption

LEMMA Positions ==
  ASSUME RingInv
  PROVE  /\ RingSize \in Nat \ {0}
         /\ writePos \in 0..(RingSize - 1) /\ readPos \in 0..(RingSize - 1)
         /\ writePos \in {readPos + Unread, readPos + Unread - RingSize}
<1>0. RingSize \in Nat \ {0} /\ written \in Int /\ readTotal \in Int /\ Unread \in 0..RingSize
  BY DEF RingInv
<1>1. written % RingSize \in 0..(RingSize - 1) /\ readTotal % RingSize \in 0..(RingSize - 1)
  BY <1>0, ModRange
<1>2. written = readTotal + Unread
  BY <1>0 DEF Unread
<1>3. (readTotal + Unread) % RingSize \in
        {(readTotal % RingSize) + Unread, (readTotal % RingSize) + Unread - RingSize}
  BY <1>0, ModNear
<1> QED
  BY <1>0, <1>1, <1>2, <1>3 DEF RingInv

\* Both ways to count find the bytes not yet read.
LEMMA AvailableExact ==
  ASSUME RingInv
  PROVE  /\ Available = Unread
         /\ RoomLeft = IF kind = "ring" THEN RingSize - Unread ELSE RingSize - Unread - 1
         /\ kind = "sized" => SizedAvailable = Unread
<1>1. kind = "sized" => SizedAvailable = Unread
  BY Positions DEF RingInv, SizedAvailable
<1>2. Available = Unread
  BY <1>1 DEF Available, Unread, RingInv
<1> QED
  BY <1>1, <1>2, Positions DEF RoomLeft, RingInv

\* What is read from the position of byte t + 1 on: the bytes that follow it.
LEMMA CopyOutExact ==
  ASSUME RingInv, NEW t \in readTotal..written, NEW m \in 0..(written - t),
         NEW pos, pos = t % RingSize
  PROVE  CopyOut(pos, m) = [i \in 1..m |-> base + t + i]
<1> SUFFICES ASSUME NEW i \in 1..m PROVE cells[(pos + i - 1) % RingSize] = base + t + i
  BY DEF CopyOut
<1>1. i - 1 \in Int /\ t \in Int /\ pos \in Int
  BY ModRange DEF RingInv
<1>2. ((t % RingSize) + (i - 1)) % RingSize = (t + (i - 1)) % RingSize
  BY <1>1, ModAdd
<1>3. pos + i - 1 = (t % RingSize) + (i - 1)
  BY <1>1
<1>4. t + i - readTotal \in 1..Unread
  BY DEF RingInv, Unread
<1>5. cells[(readTotal + (t + i - readTotal) - 1) % RingSize] = base + readTotal + (t + i - readTotal)
  BY <1>4 DEF RingInv, CellsOK
<1>6. /\ readTotal + (t + i - readTotal) - 1 = t + (i - 1)
      /\ base + readTotal + (t + i - readTotal) = base + t + i
  BY <1>1 DEF RingInv
<1> QED
  BY <1>2, <1>3, <1>5, <1>6, Zenon

\* A write of m bytes that fit puts them behind the others and overwrites none
\* that is unread.
LEMMA CopyInExact ==
  ASSUME RingInv, NEW m \in 1..(RingSize - Unread)
  PROVE  /\ CopyIn(m) \in [0..(RingSize - 1) -> Nat]
         /\ \A j \in 1..(Unread + m) : CopyIn(m)[(readTotal + j - 1) % RingSize] = base + readTotal + j
<1> DEFINE off(p) == (p - writePos) % RingSize
<1>0. /\ base \in Nat /\ written \in Nat /\ readTotal \in Nat /\ Unread \in Nat /\ RingSize \in Nat \ {0}
      /\ writePos \in Int /\ m \in Nat /\ m <= RingSize - Unread
  BY Positions DEF RingInv
<1>1. ASSUME NEW p \in 0..(RingSize - 1)
      PROVE  off(p) \in 0..(RingSize - 1) /\ (written + off(p)) % RingSize = p
  <2>1. p - writePos \in Int
    BY <1>0
  <2>2. off(p) \in 0..(RingSize - 1)
    BY <1>0, <2>1, ModRange
  <2>3. (((p - writePos) % RingSize) + written) % RingSize = ((p - writePos) + written) % RingSize
    <3>1. written \in Int
      BY <1>0
    <3> QED
      BY <1>0, <2>1, <3>1, ModAdd
  <2>4. (writePos + (p - writePos)) % RingSize = (written + (p - writePos)) % RingSize
    <3>1. written \in Int /\ writePos = written % RingSize
      BY <1>0 DEF RingInv
    <3>2. ((written % RingSize) + (p - writePos)) % RingSize = (written + (p - writePos)) % RingSize
      BY <1>0, <2>1, <3>1, ModAdd
    <3> QED
      BY <3>1, <3>2, Zenon
  <2>5. p % RingSize = p
    <3>1. (RingSize * 0 + p) % RingSize = p
      BY <1>0, ModOf
    <3>2. RingSize * 0 + p = p
      BY <1>0
    <3> QED
      BY <3>1, <3>2, Zenon
  <2>6. /\ writePos + (p - writePos) = p /\ (p - writePos) + written = written + (p - writePos)
        /\ off(p) + written = written + off(p)
    BY <1>0, <2>2
  <2> QED
    BY <2>2, <2>3, <2>4, <2>5, <2>6, Zenon
<1>2. DOMAIN cells = 0..(RingSize - 1)
  BY DEF RingInv
<1>3. CopyIn(m) = [p \in 0..(RingSize - 1) |-> IF off(p) < m THEN base + written + off(p) + 1 ELSE cells[p]]
  BY <1>2 DEF CopyIn
<1> HIDE DEF off
<1>4. CopyIn(m) \in [0..(RingSize - 1) -> Nat]
  <2>1. ASSUME NEW p \in 0..(RingSize - 1) PROVE base + written + off(p) + 1 \in Nat /\ cells[p] \in Nat
    <3>1. off(p) \in Nat
      BY <1>0, <1>1, <2>1
    <3>2. cells[p] \in Nat
      BY DEF RingInv
    <3> QED
      BY <1>0, <3>1, <3>2
  <2> QED
    BY <1>3, <2>1
<1>5. ASSUME NEW j \in 1..(Unread + m)
      PROVE  CopyIn(m)[(readTotal + j - 1) % RingSize] = base + readTotal + j
  <2> DEFINE a == readTotal + j - 1
             p == a % RingSize
  <2>1. a \in Nat /\ p \in 0..(RingSize - 1)
    BY <1>0, ModRange
  <2> HIDE DEF a, p
  <2>2. off(p) \in 0..(RingSize - 1) /\ (written + off(p)) % RingSize = a % RingSize
    BY <1>1, <2>1 DEF p
  <2>3. a = readTotal + j - 1 /\ written = readTotal + Unread
    BY <1>0 DEF a, Unread
  <2>4. CASE j > Unread
    <3>1. written + off(p) - a < RingSize /\ a - (written + off(p)) < RingSize
      <4>1. off(p) \in Nat /\ off(p) <= RingSize - 1 /\ j \in Nat /\ j <= Unread + m
        BY <1>0, <2>2
      <4> QED
        BY <1>0, <2>1, <2>3, <2>4, <4>1
    <3>2. written + off(p) = a
      BY <1>0, <2>1, <2>2, <3>1, ModUnique
    <3>3. off(p) < m
      BY <1>0, <2>1, <2>2, <2>3, <3>2
    <3>4. CopyIn(m)[p] = base + written + off(p) + 1
      BY <1>3, <2>1, <3>3
    <3>5. base + written + off(p) + 1 = base + readTotal + j
      BY <1>0, <2>1, <2>2, <2>3, <3>2
    <3> QED
      BY <3>4, <3>5 DEF p, a
  <2>5. CASE j <= Unread
    <3>1. ~(off(p) < m)
      <4>1. SUFFICES ASSUME off(p) < m PROVE FALSE
        OBVIOUS
      <4>2. written + off(p) - a < RingSize /\ a - (written + off(p)) < RingSize
        BY <1>0, <2>1, <2>2, <2>3, <2>5, <4>1
      <4>3. written + off(p) = a
        BY <1>0, <2>1, <2>2, <4>2, ModUnique
      <4> QED
        BY <1>0, <2>1, <2>2, <2>3, <2>5, <4>3
    <3>2. CopyIn(m)[p] = cells[p]
      BY <1>3, <2>1, <3>1
    <3>3. cells[(readTotal + j - 1) % RingSize] = base + readTotal + j
      <4>1. j \in 1..Unread
        BY <1>0, <2>5
      <4> QED
        BY <4>1 DEF RingInv, CellsOK
    <3> QED
      BY <3>2, <3>3 DEF p, a
  <2> QED
    BY <1>0, <2>4, <2>5
<1> QED
  BY <1>4, <1>5

-----------------------------------------------------------------------------
(* The steps of writer, reader and Close                                   *)

\* The unread bytes, as the reader will get them.
Waiting == [i \in 1..Unread |-> base + readTotal + i]

LEMMA InsideExact == RingInv => CopyOut(readPos, Available) = Waiting
<1> SUFFICES ASSUME RingInv PROVE CopyOut(readPos, Available) = Waiting
  OBVIOUS
<1>1. Available = written - readTotal /\ Available \in 0..(written - readTotal) /\ readTotal \in readTotal..written
  BY AvailableExact DEF RingInv, Unread
<1>2. readPos = readTotal % RingSize
  BY DEF RingInv
<1> QED
  BY <1>1, <1>2, CopyOutExact DEF Waiting, Unread

\* A write that does not fit changes nothing; one that fits is appended.
LEMMA WriteKeeps ==
  ASSUME RingInv, WriteLocked
  PROVE  /\ RingInv'
         /\ UNCHANGED <<base, resets>>
         /\ \/ UNCHANGED <<written, readTotal>>
            \/ /\ ringWriter \in 1..RingSize /\ Unread + ringWriter <= RingSize
               /\ written' = written + ringWriter /\ readTotal' = readTotal
<1>1. /\ ringWriter \in Nat /\ ringWriter > 0 /\ ringWriter' = 0
      /\ UNCHANGED <<kind, readPos, readTotal, base, resets>>
  BY DEF RingInv, WriteLocked
<1>2. CASE RoomLeft < ringWriter
  BY <1>1, <1>2 DEF RingInv, CellsOK, WriteLocked, Unread
<1>3. CASE ~(RoomLeft < ringWriter)
  <2>1. /\ cells' = CopyIn(ringWriter) /\ writePos' = (writePos + ringWriter) % RingSize
        /\ written' = written + ringWriter /\ Wake
    BY <1>3 DEF WriteLocked
  <2>2. /\ Unread \in Nat /\ written \in Nat /\ RingSize \in Nat \ {0}
        /\ ringWriter <= RingSize - Unread /\ (kind = "sized" => ringWriter < RingSize - Unread)
    BY <1>1, <1>3, AvailableExact, Positions DEF RingInv
  <2>3. ringWriter \in 1..(RingSize - Unread) /\ ringWriter \in 1..RingSize /\ ringWriter \in Int
    BY <1>1, <2>2
  <2>4. Unread' = Unread + ringWriter
    BY <1>1, <2>1, <2>2 DEF Unread, RingInv
  <2>5. cells' \in [0..(RingSize - 1) -> Nat] /\ CellsOK'
    BY <1>1, <2>1, <2>3, <2>4, CopyInExact DEF CellsOK
  <2>6. writePos' = written' % RingSize
    <3>1. ((written % RingSize) + ringWriter) % RingSize = (written + ringWriter) % RingSize
      <4>1. written \in Int
        BY <2>2
      <4> QED
        BY <2>2, <2>3, <4>1, ModAdd
    <3> QED
      BY <2>1, <3>1 DEF RingInv
  <2>7. reader' \in [at : {"out", "lock", "waiting"}, want : Nat] /\ (reader'.at # "out" => reader'.want > 0)
    BY <2>1 DEF RingInv, Wake
  <2>8. /\ written' \in Nat /\ readTotal' \in Nat /\ Unread' \in 0..RingSize
        /\ kind' \in {"ring", "sized"} /\ ringWriter' \in Nat /\ base' \in Nat /\ resets' \in Nat
        /\ (kind' = "sized" => Unread' < RingSize)
        /\ readPos' = readTotal' % RingSize
    BY <1>1, <2>1, <2>2, <2>3, <2>4 DEF RingInv
  <2>9. RingInv'
    BY <2>5, <2>6, <2>7, <2>8 DEF RingInv
  <2> QED
    BY <1>1, <2>1, <2>2, <2>3, <2>9
<1> QED
  BY <1>2, <1>3

\* A read takes the oldest bytes, or waits, or gives up.
LEMMA ReadKeeps ==
  ASSUME RingInv, ReadLocked
  PROVE  /\ RingInv'
         /\ UNCHANGED <<base, resets>>
         /\ \/ UNCHANGED <<written, readTotal>>
            \/ \E n \in 1..RingSize : n <= Unread /\ readTotal' = readTotal + n /\ written' = written
<1> DEFINE n == IF reader.want > Available THEN Available ELSE reader.want
<1>1. Available = Unread /\ Unread \in Nat /\ Unread <= RingSize /\ RingSize \in Nat \ {0} /\ readTotal \in Nat
  BY AvailableExact, Positions DEF RingInv
<1>2. /\ UNCHANGED <<kind, cells, writePos, written, base, resets, ringWriter>>
      /\ reader.at = "lock" /\ reader.want \in Nat /\ reader.want > 0
  BY DEF ReadLocked, RingInv
<1>3. reader' \in [at : {"out", "lock", "waiting"}, want : Nat] /\ (reader'.at # "out" => reader'.want > 0)
  BY <1>2 DEF ReadLocked, RingInv, Outside
<1>4. CASE Available = 0
  BY <1>2, <1>3, <1>4 DEF ReadLocked, RingInv, CellsOK, Unread
<1>5. CASE Available # 0
  <2>1. readPos' = (readPos + n) % RingSize /\ readTotal' = readTotal + n
    BY <1>5 DEF ReadLocked
  <2>2. n \in Nat /\ n >= 1 /\ n <= Unread
    BY <1>1, <1>2, <1>5
  <2> HIDE DEF n
  <2>3. Unread' = Unread - n
    BY <1>1, <1>2, <2>1, <2>2 DEF Unread, RingInv
  <2>4. readPos' = readTotal' % RingSize
    <3>1. readTotal \in Int /\ n \in Int
      BY <1>1, <2>2
    <3>2. ((readTotal % RingSize) + n) % RingSize = (readTotal + n) % RingSize
      BY <1>1, <3>1, ModAdd
    <3> QED
      BY <2>1, <3>2 DEF RingInv
  <2>5. ASSUME NEW j \in 1..Unread' PROVE cells[(readTotal' + j - 1) % RingSize] = base + readTotal' + j
    <3>1. n + j \in 1..Unread
      BY <1>1, <2>2, <2>3
    <3>2. cells[(readTotal + (n + j) - 1) % RingSize] = base + readTotal + (n + j)
      BY <3>1 DEF RingInv, CellsOK
    <3>3. /\ readTotal + (n + j) - 1 = readTotal' + j - 1
          /\ base + readTotal + (n + j) = base + readTotal' + j
      BY <1>1, <2>1, <2>2, <2>3 DEF RingInv
    <3> QED
      BY <3>2, <3>3, Zenon
  <2>6. CellsOK'
    BY <1>2, <2>5 DEF CellsOK
  <2>7. /\ written' \in Nat /\ readTotal' \in Nat /\ Unread' \in 0..RingSize
        /\ kind' \in {"ring", "sized"} /\ ringWriter' \in Nat /\ base' \in Nat /\ resets' \in Nat
        /\ (kind' = "sized" => Unread' < RingSize)
        /\ writePos' = written' % RingSize /\ cells' \in [0..(RingSize - 1) -> Nat]
    BY <1>1, <1>2, <2>1, <2>2, <2>3 DEF RingInv
  <2>8. RingInv'
    BY <1>3, <2>4, <2>6, <2>7 DEF RingInv
  <2> QED
    BY <1>1, <1>2, <2>1, <2>2, <2>8
<1> QED
  BY <1>4, <1>5

\* Entering, waiting and closing touch neither bytes nor positions.
LEMMA OthersKeep ==
  ASSUME RingInv,
         \/ \E n \in 1..MaxWritten : WriteEnter(n)
         \/ \E n \in ReadSizes : ReadEnter(n)
         \/ CloseTell \/ ReadTimesOut \/ RingCloseMark \/ RingReopen \/ UNCHANGED ringVars
  PROVE  RingInv' /\ UNCHANGED <<written, readTotal, base, resets>>
<1>1. UNCHANGED array
  BY Zenon DEF WriteEnter, ReadEnter, CloseTell, ReadTimesOut, RingCloseMark, RingReopen, ringVars
<1>2. ringWriter' \in Nat
  BY DEF WriteEnter, ReadEnter, CloseTell, ReadTimesOut, RingCloseMark, RingReopen, ringVars, RingInv
<1>3. reader' \in [at : {"out", "lock", "waiting"}, want : Nat] /\ (reader'.at # "out" => reader'.want > 0)
  BY DEF WriteEnter, ReadEnter, CloseTell, ReadTimesOut, RingCloseMark, RingReopen, ringVars,
     RingInv, Outside, Wake
<1> QED
  BY <1>1, <1>2, <1>3 DEF RingInv, CellsOK, Unread, array

\* Reset leaves nothing unread, and the bytes it forgets are counted.
LEMMA ResetKeeps ==
  ASSUME RingInv, RingReset
  PROVE  /\ RingInv' /\ written' = 0 /\ readTotal' = 0
         /\ base' = base + written /\ resets' = resets + 1
<1>1. /\ writePos' = 0 /\ readPos' = 0 /\ written' = 0 /\ readTotal' = 0
      /\ base' = base + written /\ resets' = resets + 1
      /\ UNCHANGED <<kind, cells, ringWriter, reader>>
  BY DEF RingReset
<1>2. 0 % RingSize = 0 /\ Unread' = 0 /\ base' \in Nat /\ resets' \in Nat
  BY <1>1 DEF RingInv, Unread
<1>3. CellsOK'
  BY <1>2 DEF CellsOK
<1> QED
  BY <1>1, <1>2, <1>3 DEF RingInv

LEMMA RingInitially == RingInit => RingInv /\ Unread = 0 /\ readTotal = 0 /\ base = 0 /\ resets = 0
<1> SUFFICES ASSUME RingInit PROVE RingInv /\ Unread = 0 /\ readTotal = 0 /\ base = 0 /\ resets = 0
  OBVIOUS
<1>1. 0 % RingSize = 0
  OBVIOUS
<1> QED
  BY <1>1 DEF RingInit, RingInv, CellsOK, Unread, Outside

LEMMA RingStepKeeps == RingInv /\ [RingNext]_ringVars => RingInv'
BY WriteKeeps, ReadKeeps, OthersKeep, ResetKeeps DEF RingNext, RingStep

LEMMA RingInvariant == RingSpec => []RingInv
<1> QED
  BY RingInitially, RingStepKeeps, PTL DEF RingSpec

\* Every step of the buffers is a step of the FIFO on the unread bytes.
LEMMA StepsRefine ==
  ASSUME RingInv, RingInv', [RingNext]_ringVars
  PROVE  [FIFO!FNext]_<<CopyOut(readPos, Available), base + readTotal, resets>>
<1>1. CopyOut(readPos, Available) = Waiting /\ CopyOut(readPos, Available)' = Waiting'
  <2>1. (CopyOut(readPos, Available) = Waiting)'
    BY InsideExact, PTL
  <2> QED
    BY <2>1, InsideExact
<1>2. /\ Waiting \in Seq(Nat) /\ Len(Waiting) = Unread /\ written \in Nat /\ readTotal \in Nat
      /\ Unread \in Nat /\ base \in Nat /\ resets \in Nat
  BY DEF Waiting, RingInv
<1>3. CASE UNCHANGED <<written, readTotal, base, resets>>
  BY <1>1, <1>3 DEF Waiting, Unread
<1>4. ASSUME NEW m \in 1..RingSize, Unread + m <= RingSize, written' = written + m, readTotal' = readTotal,
             UNCHANGED <<base, resets>>
      PROVE  FIFO!Accept(m)
  <2>1. Unread' = Unread + m
    BY <1>2, <1>4 DEF Unread
  <2>2. Waiting' = Waiting \o [i \in 1..m |-> base + readTotal + Unread + i]
    BY <1>2, <1>4, <2>1 DEF Waiting
  <2> QED
    BY <1>1, <1>2, <1>4, <2>2 DEF FIFO!Accept
<1>5. ASSUME NEW m \in 1..RingSize, m <= Unread, written' = written, readTotal' = readTotal + m,
             UNCHANGED <<base, resets>>
      PROVE  FIFO!Take(m)
  <2>1. Unread' = Unread - m
    BY <1>2, <1>5 DEF Unread
  <2>2. SubSeq(Waiting, 1, m) = [i \in 1..m |-> base + readTotal + i]
    BY <1>2, <1>5 DEF Waiting
  <2>3. Waiting' = SubSeq(Waiting, m + 1, Unread)
    BY <1>2, <1>5, <2>1 DEF Waiting
  <2> QED
    BY <1>1, <1>2, <1>5, <2>2, <2>3 DEF FIFO!Take
<1>6. CASE RingReset
  <2>1. Waiting' = <<>> /\ (base + readTotal)' = (base + readTotal) + Unread /\ resets' = resets + 1
    BY <1>2, <1>6, ResetKeeps DEF Waiting, Unread
  <2> QED
    BY <1>1, <1>2, <2>1 DEF FIFO!Clear, FIFO!FNext
<1> QED
  BY <1>3, <1>4, <1>5, <1>6, WriteKeeps, ReadKeeps, OthersKeep DEF RingNext, RingStep, FIFO!FNext

\* Both buffers implement the byte FIFO, for every size, packet size and pattern
\* of writes, reads, timeouts, Close and, for the ring, Reset and Reopen: what is
\* accepted comes out once and in order although the positions wrap, only a Reset
\* loses bytes, and none of an earlier use is ever read after it
\* (buffer/ring.go:74-299, sized.go:109-266).
THEOREM RingsRefineFIFO == RingSpec => BuffersAreFIFO
<1>1. RingInit => FIFO!FInit
  <2> SUFFICES ASSUME RingInit PROVE FIFO!FInit
    OBVIOUS
  <2>1. Waiting = <<>> /\ base + readTotal = 0 /\ resets = 0
    BY RingInitially DEF Waiting
  <2> QED
    BY <2>1, RingInitially, InsideExact DEF FIFO!FInit
<1> QED
  BY <1>1, RingInvariant, StepsRefine, PTL DEF RingSpec, BuffersAreFIFO, FIFO!FSpec

-----------------------------------------------------------------------------
(* The previews                                                            *)

\* m bytes back from writePos is where byte written - m + 1 lies.
LEMMA StartExact ==
  ASSUME RingInv, NEW m \in 0..Unread
  PROVE  (IF writePos < m THEN writePos - m + RingSize ELSE writePos - m) = (written - m) % RingSize
<1> DEFINE st == (written - m) % RingSize
<1>1. written - m \in Int /\ m \in 0..RingSize /\ RingSize \in Nat \ {0} /\ written \in Int /\ m \in Int
  BY DEF RingInv
<1>2. ((written - m) + m) % RingSize \in {st + m, st + m - RingSize} /\ st \in 0..(RingSize - 1)
  BY <1>1, ModNear, ModRange
<1>3. (written - m) + m = written
  BY <1>1
<1>4. writePos \in {st + m, st + m - RingSize}
  BY <1>2, <1>3 DEF RingInv
<1>5. writePos \in 0..(RingSize - 1)
  BY Positions
<1> HIDE DEF st
<1>6. (IF writePos < m THEN writePos - m + RingSize ELSE writePos - m) = st
  BY <1>1, <1>2, <1>4, <1>5
<1> QED
  BY <1>6 DEF st

\* The newest m unread bytes, from any of the three places that compute where
\* they start.
LEMMA NewestExact ==
  ASSUME RingInv, NEW m \in 0..Unread
  PROVE  /\ CopyOut((readPos + (written - m - readTotal)) % RingSize, m)
              = [i \in 1..m |-> base + (written - m) + i]
         /\ CopyOut(IF writePos < m THEN writePos - m + RingSize ELSE writePos - m, m)
              = [i \in 1..m |-> base + (written - m) + i]
<1>1. /\ written - m \in readTotal..written /\ m \in 0..(written - (written - m))
      /\ written - m - readTotal \in Int /\ readTotal \in Int /\ RingSize \in Nat \ {0}
  BY DEF RingInv, Unread
<1>2. (readPos + (written - m - readTotal)) % RingSize = (written - m) % RingSize
  <2>1. ((readTotal % RingSize) + (written - m - readTotal)) % RingSize
          = (readTotal + (written - m - readTotal)) % RingSize
    BY <1>1, ModAdd
  <2>2. readTotal + (written - m - readTotal) = written - m /\ readPos = readTotal % RingSize
    BY <1>1 DEF RingInv
  <2> QED
    BY <2>1, <2>2, Zenon
<1> QED
  BY <1>1, <1>2, StartExact, CopyOutExact

\* Every preview shows the newest unread bytes, for every size and wherever the
\* positions are; the branch of the sized preview that falls back to readPos is
\* never needed (buffer/ring.go:357, sized.go:215, :297).
THEOREM PreviewsAreNewest == RingSpec => []PreviewIsNewest
<1>1. RingInv => PreviewIsNewest
  <2> SUFFICES ASSUME RingInv, NEW n \in 1..RingSize
               PROVE  LET m == IF n > written - readTotal THEN written - readTotal ELSE n
                          newest == [i \in 1..m |-> base + written - m + i]
                      IN  GetPreview(n) = newest /\ (kind = "sized" /\ n < RingSize => GetHotData(n) = newest)
    BY DEF PreviewIsNewest
  <2> DEFINE m == IF n > Unread THEN Unread ELSE n
             newest == [i \in 1..m |-> base + written - m + i]
  <2>1. /\ m \in 0..Unread /\ Unread \in Nat /\ Unread <= RingSize /\ RingSize \in Nat
        /\ written \in Nat /\ readTotal \in Nat /\ Unread = written - readTotal
    BY DEF RingInv, Unread
  <2>2. CASE kind = "ring"
    <3>1. GetPreview(n) = CopyOut((readPos + (written - m - readTotal)) % RingSize, m)
      BY <2>2, AvailableExact DEF GetPreview
    <3> QED
      BY <2>1, <2>2, <3>1, NewestExact DEF Unread
  <2>3. CASE kind = "sized"
    <3> DEFINE start == IF writePos < m THEN writePos - m + RingSize ELSE writePos - m
               before == start < readPos /\ (writePos >= readPos \/ start >= writePos)
    <3>1. SizedPreview(n) = IF before THEN CopyOut(readPos, Unread) ELSE CopyOut(start, m)
      BY <2>3, AvailableExact DEF SizedPreview
    <3>2. ~before
      BY <2>1, <2>3, Positions DEF RingInv
    <3>3. GetPreview(n) = newest
      BY <2>1, <2>3, <3>1, <3>2, NewestExact DEF GetPreview
    <3>4. GetHotData(n) = newest
      <4>1. CASE Unread < n
        <5>1. GetHotData(n) = CopyOut(readPos, Unread) /\ m = Unread
          BY <2>1, <4>1 DEF GetHotData, Unread
        <5>2. CopyOut(readPos, Unread) = Waiting
          BY AvailableExact, InsideExact
        <5> QED
          BY <2>1, <5>1, <5>2 DEF Waiting
      <4>2. CASE ~(Unread < n)
        <5>1. GetHotData(n) = CopyOut(start, m)
          BY <2>1, <4>2 DEF GetHotData, Unread
        <5> QED
          BY <2>1, <5>1, NewestExact
      <4> QED
        BY <4>1, <4>2
    <3> QED
      BY <2>1, <3>3, <3>4
  <2> QED
    BY <2>2, <2>3 DEF RingInv
<1> QED
  BY <1>1, RingInvariant, PTL
HIDE RingAssumption

-----------------------------------------------------------------------------
(* The GOP buffer and the detector: BufferExact and StaysDecodable, for    *)
(* any frame types and sizes, any limits and any pressures.                *)
(*                                                                         *)
(* The frames.  A drop keeps some frames of a GOP (Where, LeftOf) and the  *)
(* rest is Gone: told apart by their IDs the two add up, in bytes and in   *)
(* frames of each type.                                                    *)

Frame == [id : Nat, type : {"I", "P", "B", "M"}, size : Nat]
Typed(S) == {f \in Frame : f.type \in S}

Sorted(frames) == \A i, j \in DOMAIN frames : i < j => frames[i].id < frames[j].id

LEMMA FrameIs == \A f \in Frame : f.id \in Nat /\ f.size \in Nat /\ f.type \in {"I", "P", "B", "M"}
BY DEF Frame

LEMMA BytesEmpty == Bytes(<<>>) = 0
<1>1. [i \in DOMAIN <<>> |-> <<>>[i].size] = <<>>
  OBVIOUS
<1> QED BY <1>1, SumOfEmpty DEF Bytes

LEMMA SizesOf ==
  ASSUME NEW s \in Seq(Frame)
  PROVE  [i \in DOMAIN s |-> s[i].size] \in Seq(Nat) /\ [i \in DOMAIN s |-> s[i].size] \in Seq(Int)
<1>1. Len(s) \in Nat /\ DOMAIN s = 1..Len(s) /\ \A i \in DOMAIN s : s[i] \in Frame
  OBVIOUS
<1>2. \A i \in DOMAIN s : s[i].size \in Nat
  BY <1>1, FrameIs
<1> QED BY <1>1, <1>2

LEMMA BytesType == ASSUME NEW s \in Seq(Frame) PROVE Bytes(s) \in Nat
BY SizesOf, SumOfType DEF Bytes

LEMMA BytesAppend ==
  ASSUME NEW s \in Seq(Frame), NEW f \in Frame
  PROVE  Bytes(Append(s, f)) = Bytes(s) + f.size
<1> DEFINE t == Append(s, f)
           n == Len(s)
           a == [i \in DOMAIN s |-> s[i].size]
           b == [i \in DOMAIN t |-> t[i].size]
<1>1. n \in Nat /\ DOMAIN s = 1..n /\ DOMAIN t = 1..(n + 1) /\ t[n + 1] = f /\ \A i \in 1..n : t[i] = s[i]
  BY AppendProperties
<1>2. a \in Seq(Nat) /\ Len(a) = n /\ f.size \in Nat
  BY <1>1, SizesOf, FrameIs
<1> HIDE DEF t, n
<1>3. b = Append(a, f.size)
  <2> DEFINE x == Append(a, f.size)
  <2>1. DOMAIN x = 1..(n + 1) /\ x[n + 1] = f.size /\ \A i \in 1..n : x[i] = a[i]
    BY <1>1, <1>2, AppendProperties
  <2>2. x = [i \in 1..(n + 1) |-> x[i]]
    <3>1. x \in Seq(Nat)
      BY <1>2, AppendProperties
    <3> HIDE DEF x
    <3> QED BY <2>1, <3>1
  <2>3. \A i \in 1..(n + 1) : b[i] = x[i]
    <3> TAKE i \in 1..(n + 1)
    <3>1. b[i] = t[i].size
      BY <1>1
    <3>2. CASE i \in 1..n
      <4>1. a[i] = s[i].size
        BY <1>1, <3>2
      <4> QED BY <1>1, <2>1, <3>1, <3>2, <4>1
    <3>3. CASE i = n + 1
      BY <1>1, <2>1, <3>1, <3>3
    <3> QED BY <1>1, <3>2, <3>3
  <2> HIDE DEF x
  <2>4. b = [i \in 1..(n + 1) |-> b[i]]
    BY <1>1
  <2> HIDE DEF b
  <2>5. b = x
    BY <2>2, <2>3, <2>4
  <2> QED BY <2>5 DEF x
<1>4. SumOf(Append(a, f.size)) = SumOf(a) + f.size
  BY <1>2, SumOfAppend
<1>5. Bytes(t) = SumOf(b) /\ Bytes(s) = SumOf(a)
  BY DEF Bytes
<1> QED BY <1>3, <1>4, <1>5 DEF t

\* Disjoint lanes add up.
LEMMA LaneBytes ==
  ASSUME NEW s \in Seq(Frame), NEW a, NEW b, a \cap b = {}
  PROVE  Bytes(Lane(s, a \cup b)) = Bytes(Lane(s, a)) + Bytes(Lane(s, b))
<1> DEFINE Good == {q \in Seq(Frame) : Bytes(Lane(q, a \cup b)) = Bytes(Lane(q, a)) + Bytes(Lane(q, b))}
<1>1. <<>> \in Good
  <2>1. <<>> \in Seq(Frame)
    OBVIOUS
  <2> QED BY <2>1, LaneEmpty, BytesEmpty
<1>2. ASSUME NEW q \in Seq(Frame), NEW x \in Frame, q \in Good PROVE Append(q, x) \in Good
  <2> DEFINE l == Lane(q, a)
             m == Lane(q, b)
             u == Lane(q, a \cup b)
             la == Lane(Append(q, x), a)
             lb == Lane(Append(q, x), b)
             lu == Lane(Append(q, x), a \cup b)
  <2>1. l \in Seq(Frame) /\ m \in Seq(Frame) /\ u \in Seq(Frame)
    BY LaneType
  <2>2. /\ la = (IF x \in a THEN Append(l, x) ELSE l)
        /\ lb = (IF x \in b THEN Append(m, x) ELSE m)
        /\ lu = (IF x \in a \cup b THEN Append(u, x) ELSE u)
    BY LaneAppend
  <2>3. Bytes(u) = Bytes(l) + Bytes(m)
    BY <1>2
  <2> HIDE DEF l, m, u, la, lb, lu
  <2>4. /\ Bytes(l) \in Nat /\ Bytes(m) \in Nat /\ Bytes(u) \in Nat /\ x.size \in Nat
        /\ Bytes(Append(l, x)) = Bytes(l) + x.size /\ Bytes(Append(m, x)) = Bytes(m) + x.size
        /\ Bytes(Append(u, x)) = Bytes(u) + x.size
    BY <2>1, BytesType, BytesAppend, FrameIs
  <2>5. \/ la = Append(l, x) /\ lb = m /\ lu = Append(u, x)
        \/ la = l /\ lb = Append(m, x) /\ lu = Append(u, x)
        \/ la = l /\ lb = m /\ lu = u
    <3>1. x \in a => x \notin b
      OBVIOUS
    <3> QED BY <2>2, <3>1, Zenon
  <2>6. Bytes(lu) = Bytes(la) + Bytes(lb)
    <3> DEFINE bl == Bytes(l)
               bm == Bytes(m)
               bu == Bytes(u)
               z == x.size
    <3>1. /\ bl \in Nat /\ bm \in Nat /\ bu \in Nat /\ z \in Nat /\ bu = bl + bm
          /\ Bytes(Append(l, x)) = bl + z /\ Bytes(Append(m, x)) = bm + z /\ Bytes(Append(u, x)) = bu + z
      BY <2>3, <2>4
    <3>2. \/ Bytes(la) = bl + z /\ Bytes(lb) = bm /\ Bytes(lu) = bu + z
          \/ Bytes(la) = bl /\ Bytes(lb) = bm + z /\ Bytes(lu) = bu + z
          \/ Bytes(la) = bl /\ Bytes(lb) = bm /\ Bytes(lu) = bu
      BY <2>5, <3>1, Zenon
    <3> HIDE DEF bl, bm, bu, z
    <3> QED BY <3>1, <3>2
  <2>7. Append(q, x) \in Seq(Frame)
    BY AppendProperties
  <2> QED BY <2>6, <2>7 DEF la, lb, lu
<1> HIDE DEF Good
<1>3. s \in Good
  BY <1>1, <1>2, SeqInduction
<1> QED BY <1>3 DEF Good

LEMMA AppendSorted ==
  ASSUME NEW s \in Seq(Frame), NEW f \in Frame
  PROVE  Sorted(Append(s, f)) <=> Sorted(s) /\ \A e \in Members(s) : e.id < f.id
<1> DEFINE t == Append(s, f)
           n == Len(s)
<1>1. n \in Nat /\ DOMAIN s = 1..n /\ DOMAIN t = 1..(n + 1) /\ t[n + 1] = f /\ \A i \in 1..n : t[i] = s[i]
  BY AppendProperties
<1> HIDE DEF t, n
<1>2. ASSUME Sorted(t) PROVE Sorted(s) /\ \A e \in Members(s) : e.id < f.id
  <2>1. Sorted(s)
    <3> SUFFICES ASSUME NEW i \in 1..n, NEW j \in 1..n, i < j PROVE s[i].id < s[j].id
      BY <1>1 DEF Sorted
    <3>1. i \in DOMAIN t /\ j \in DOMAIN t
      BY <1>1
    <3>2. t[i].id < t[j].id
      BY <1>2, <3>1 DEF Sorted
    <3> QED BY <1>1, <3>2
  <2>2. ASSUME NEW i \in 1..n PROVE s[i].id < f.id
    <3>1. i \in DOMAIN t /\ n + 1 \in DOMAIN t /\ i < n + 1
      BY <1>1
    <3>2. t[i].id < t[n + 1].id
      BY <1>2, <3>1 DEF Sorted
    <3> QED BY <1>1, <3>2
  <2> QED BY <1>1, <2>1, <2>2 DEF Members
<1>3. ASSUME Sorted(s), \A e \in Members(s) : e.id < f.id PROVE Sorted(t)
  <2> SUFFICES ASSUME NEW i \in 1..(n + 1), NEW j \in 1..(n + 1), i < j PROVE t[i].id < t[j].id
    BY <1>1 DEF Sorted
  <2>1. i \in 1..n
    BY <1>1
  <2>2. CASE j = n + 1
    <3>1. s[i] \in Members(s)
      BY <1>1, <2>1 DEF Members
    <3> QED BY <1>1, <1>3, <2>1, <2>2, <3>1
  <2>3. CASE j \in 1..n
    <3>1. s[i].id < s[j].id
      BY <1>1, <1>3, <2>1, <2>3 DEF Sorted
    <3> QED BY <1>1, <2>1, <2>3, <3>1
  <2> QED BY <1>1, <2>2, <2>3
<1> QED BY <1>2, <1>3 DEF t

LEMMA LaneSorted ==
  ASSUME NEW s \in Seq(Frame), NEW a, Sorted(s)
  PROVE  Sorted(Lane(s, a))
<1> DEFINE Good == {q \in Seq(Frame) : Sorted(q) => Sorted(Lane(q, a))}
<1>1. <<>> \in Good
  <2>1. <<>> \in Seq(Frame)
    OBVIOUS
  <2> QED BY <2>1, LaneEmpty
<1>2. ASSUME NEW q \in Seq(Frame), NEW x \in Frame, q \in Good PROVE Append(q, x) \in Good
  <2>1. Append(q, x) \in Seq(Frame)
    BY AppendProperties
  <2> SUFFICES ASSUME Sorted(Append(q, x)) PROVE Sorted(Lane(Append(q, x), a))
    BY <2>1
  <2>2. Sorted(q) /\ \A e \in Members(q) : e.id < x.id
    BY AppendSorted
  <2>3. Lane(q, a) \in Seq(Frame) /\ Members(Lane(q, a)) \subseteq Members(q) /\ Sorted(Lane(q, a))
    BY <1>2, <2>2, LaneType, LaneMembers
  <2>4. Sorted(Append(Lane(q, a), x))
    BY <2>2, <2>3, AppendSorted
  <2>5. Lane(Append(q, x), a) = IF x \in a THEN Append(Lane(q, a), x) ELSE Lane(q, a)
    BY LaneAppend
  <2> QED BY <2>3, <2>4, <2>5, Zenon
<1> HIDE DEF Good
<1>3. s \in Good
  BY <1>1, <1>2, SeqInduction
<1> QED BY <1>3 DEF Good

\* The frames of a GOP are told apart by their IDs.
LEMMA SortedApart ==
  ASSUME NEW s \in Seq(Frame), Sorted(s)
  PROVE  /\ \A i, j \in DOMAIN s : s[i].id = s[j].id => i = j
         /\ \A e, f \in Members(s) : e.id = f.id => e = f
         /\ IsInjective(s)
<1>1. \A i \in DOMAIN s : s[i] \in Frame /\ i \in Nat
  OBVIOUS
<1>2. \A i \in DOMAIN s : s[i].id \in Nat
  BY <1>1, FrameIs
<1>3. ASSUME NEW i \in DOMAIN s, NEW j \in DOMAIN s, s[i].id = s[j].id PROVE i = j
  <2>1. i < j => s[i].id < s[j].id
    BY DEF Sorted
  <2>2. j < i => s[j].id < s[i].id
    BY DEF Sorted
  <2>3. i \in Nat /\ j \in Nat /\ s[i].id \in Nat /\ s[j].id \in Nat
    BY <1>1, <1>2
  <2> QED BY <1>3, <2>1, <2>2, <2>3
<1>4. \A e, f \in Members(s) : e.id = f.id => e = f
  BY <1>3 DEF Members
<1>5. IsInjective(s)
  BY <1>3 DEF IsInjective
<1> QED BY <1>3, <1>4, <1>5

LEMMA IdsOf == ASSUME NEW s PROVE Ids(s) = {f.id : f \in Members(s)}
BY DEF Ids, Members

LEMMA WhereLane ==
  ASSUME NEW s \in Seq(Frame)
  PROVE  /\ Where(s, IsP) = Lane(s, Typed({"P"})) /\ Where(s, IsB) = Lane(s, Typed({"B"}))
         /\ Where(s, NotB) = Lane(s, Typed({"I", "P", "M"}))
         /\ Where(s, IsKeyframe) = Lane(s, Typed({"I"}))
         /\ Where(s, NotKeyframe) = Lane(s, Typed({"P", "B", "M"}))
<1>1. \A i \in DOMAIN s : s[i] \in Frame /\ s[i] \in Members(s)
  BY DEF Members
<1>2. \A i \in DOMAIN s : s[i].type \in {"I", "P", "B", "M"}
  BY <1>1, FrameIs
<1>3. Where(s, IsP) = Lane(s, Typed({"P"}))
  <2>1. \A i \in DOMAIN s : s[i] \in {f \in Members(s) : IsP(f)} <=> s[i] \in Typed({"P"})
    BY <1>1 DEF Typed, IsP
  <2> QED BY <2>1, LaneSame DEF Where
<1>4. Where(s, IsB) = Lane(s, Typed({"B"}))
  <2>1. \A i \in DOMAIN s : s[i] \in {f \in Members(s) : IsB(f)} <=> s[i] \in Typed({"B"})
    BY <1>1 DEF Typed, IsB
  <2> QED BY <2>1, LaneSame DEF Where
<1>5. Where(s, NotB) = Lane(s, Typed({"I", "P", "M"}))
  <2>1. \A i \in DOMAIN s : s[i] \in {f \in Members(s) : NotB(f)} <=> s[i] \in Typed({"I", "P", "M"})
    BY <1>1, <1>2 DEF Typed, NotB
  <2> QED BY <2>1, LaneSame DEF Where
<1>6. Where(s, IsKeyframe) = Lane(s, Typed({"I"}))
  <2>1. \A i \in DOMAIN s : s[i] \in {f \in Members(s) : IsKeyframe(f)} <=> s[i] \in Typed({"I"})
    BY <1>1 DEF Typed, IsKeyframe
  <2> QED BY <2>1, LaneSame DEF Where
<1>7. Where(s, NotKeyframe) = Lane(s, Typed({"P", "B", "M"}))
  <2>1. \A i \in DOMAIN s : s[i] \in {f \in Members(s) : NotKeyframe(f)} <=> s[i] \in Typed({"P", "B", "M"})
    BY <1>1, <1>2 DEF Typed, NotKeyframe, IsKeyframe
  <2> QED BY <2>1, LaneSame DEF Where
<1> QED BY <1>3, <1>4, <1>5, <1>6, <1>7

Key == Typed({"I"})
Behind == Typed({"P", "B", "M"})

LEMMA LaneIn == ASSUME NEW s \in Seq(Frame), NEW a PROVE Lane(s, a) \in Seq(Frame)
BY LaneType

\* What a drop leaves and what it takes.
LEMMA KeptIs ==
  ASSUME NEW s \in Seq(Frame), Sorted(s), NEW K, NEW k, k = Lane(s, K)
  PROVE  /\ k \in Seq(Frame) /\ Sorted(k) /\ Members(k) = Members(s) \cap K
         /\ Gone(s, k) = Lane(s, Frame \ K) /\ Gone(s, k) \in Seq(Frame)
         /\ Ids(k) \subseteq Ids(s) /\ Ids(Gone(s, k)) = Ids(s) \ Ids(k)
<1>1. k \in Seq(Frame) /\ Sorted(k) /\ Members(k) = Members(s) \cap K
  BY LaneIn, LaneSorted, LaneMembers
<1>2. \A i \in DOMAIN s : s[i] \in Frame /\ s[i] \in Members(s)
  BY DEF Members
<1>3. \A e, f \in Members(s) : e.id = f.id => e = f
  BY SortedApart
<1>4. Ids(k) = {f.id : f \in Members(k)} /\ Ids(s) = {f.id : f \in Members(s)}
  BY IdsOf
<1>5. \A f \in Members(s) : f.id \notin Ids(k) <=> f \notin K
  BY <1>1, <1>3, <1>4
<1>6. Gone(s, k) = Lane(s, Frame \ K)
  <2>1. \A i \in DOMAIN s : s[i] \in {f \in Members(s) : f.id \notin Ids(k)} <=> s[i] \in Frame \ K
    BY <1>2, <1>5
  <2> QED BY <2>1, LaneSame DEF Gone
<1>7. Gone(s, k) \in Seq(Frame) /\ Members(Gone(s, k)) = Members(s) \cap (Frame \ K)
  BY <1>6, LaneIn, LaneMembers
<1>8. Ids(Gone(s, k)) = {f.id : f \in Members(Gone(s, k))}
  BY IdsOf
<1>9. Members(s) \subseteq Frame
  BY <1>2 DEF Members
<1>10. Ids(k) \subseteq Ids(s)
  BY <1>1, <1>4
<1>11. Ids(Gone(s, k)) = Ids(s) \ Ids(k)
  <2>1. \A f \in Members(s) : f \in Members(Gone(s, k)) <=> f.id \notin Ids(k)
    BY <1>5, <1>7, <1>9
  <2>2. Members(Gone(s, k)) \subseteq Members(s)
    BY <1>7
  <2> QED BY <1>4, <1>8, <2>1, <2>2
<1> QED BY <1>1, <1>6, <1>7, <1>10, <1>11

\* The kept and the removed frames of a type are the frames of that type.
LEMMA KeptCounts ==
  ASSUME NEW s \in Seq(Frame), Sorted(s), NEW K, NEW k, k = Lane(s, K), NEW c
  PROVE  /\ Len(Lane(s, c)) = Len(Lane(k, c)) + Len(Lane(Gone(s, k), c))
         /\ Bytes(Lane(s, c)) = Bytes(Lane(k, c)) + Bytes(Lane(Gone(s, k), c))
<1> DEFINE R == Frame \ K
<1>1. Lane(k, c) = Lane(s, K \cap c) /\ Lane(Gone(s, k), c) = Lane(s, R \cap c)
  <2>1. Gone(s, k) = Lane(s, R)
    BY KeptIs
  <2>2. Lane(Lane(s, K), c) = Lane(s, K \cap c) /\ Lane(Lane(s, R), c) = Lane(s, R \cap c)
    BY LaneOfLane
  <2> QED BY <2>1, <2>2, Zenon
<1>2. Lane(s, c) = Lane(s, (K \cap c) \cup (R \cap c))
  <2>1. \A i \in DOMAIN s : s[i] \in Frame
    OBVIOUS
  <2>2. \A i \in DOMAIN s : s[i] \in c <=> s[i] \in (K \cap c) \cup (R \cap c)
    BY <2>1
  <2> QED BY <2>2, LaneSame
<1>3. (K \cap c) \cap (R \cap c) = {}
  OBVIOUS
<1> QED BY <1>1, <1>2, <1>3, LaneBytes, LaneLenSplit

-----------------------------------------------------------------------------
(* Groups of pictures *)

GOP == [id : Nat, frames : Seq(Frame), totalSize : Int, pCount : Int, bCount : Int, start : Nat]

\* The frames of a GOP as the detector closed it.
Whole(o) ==
  /\ o \in Seq(Frame) /\ o # <<>> /\ Sorted(o)
  /\ o[1] \in Key /\ \A f \in Members(o) : f \in Key => f = o[1]

\* Every reference of a P or B frame that is left is left.
RefsKept(frames, o) ==
  \A f \in Members(frames) : f.type \in {"P", "B"} =>
    \A r \in Members(o) : r.type \in {"I", "P"} /\ r.id < f.id => r.id \in Ids(frames)

\* What is left of the frames o: some of them, with the keyframe if any.
Part(frames, o) ==
  /\ frames \in Seq(Frame) /\ Sorted(frames) /\ Members(frames) \subseteq Members(o)
  /\ frames # <<>> => o[1] \in Members(frames)
  /\ RefsKept(frames, o)

Counted(g) ==
  /\ g.pCount = Len(Where(g.frames, IsP))
  /\ g.bCount = Len(Where(g.frames, IsB))
  /\ g.totalSize >= Bytes(Where(g.frames, NotKeyframe))

GoodGOP(g, o) == g \in GOP /\ Part(g.frames, o) /\ Counted(g)

LEMMA GOPIs ==
  ASSUME NEW g \in GOP
  PROVE  /\ g.id \in Nat /\ g.frames \in Seq(Frame) /\ g.totalSize \in Int
         /\ g.pCount \in Int /\ g.bCount \in Int /\ g.start \in Nat
         /\ g = [id |-> g.id, frames |-> g.frames, totalSize |-> g.totalSize,
                 pCount |-> g.pCount, bCount |-> g.bCount, start |-> g.start]
BY DEF GOP

LEMMA WithoutIs ==
  ASSUME NEW g \in GOP, NEW k, NEW z
  PROVE  Without(g, k, z) =
           [id |-> g.id, frames |-> k, totalSize |-> z,
            pCount |-> g.pCount - Len(Where(Gone(g.frames, k), IsP)),
            bCount |-> g.bCount - Len(Where(Gone(g.frames, k), IsB)), start |-> g.start]
<1>1. g = [id |-> g.id, frames |-> g.frames, totalSize |-> g.totalSize,
           pCount |-> g.pCount, bCount |-> g.bCount, start |-> g.start]
  BY GOPIs
<1> DEFINE a == g.id
           b == g.frames
           c == g.totalSize
           d == g.pCount
           e == g.bCount
           h == g.start
           p == Len(Where(Gone(b, k), IsP))
           q == Len(Where(Gone(b, k), IsB))
<1>2. Without(g, k, z) = [g EXCEPT !.frames = k, !.totalSize = z, !.pCount = d - p, !.bCount = e - q]
  BY DEF Without
<1>3. g = [id |-> a, frames |-> b, totalSize |-> c, pCount |-> d, bCount |-> e, start |-> h]
  BY <1>1
<1> HIDE DEF a, b, c, d, e, h, p, q
<1>4. Without(g, k, z) = [id |-> a, frames |-> k, totalSize |-> z, pCount |-> d - p, bCount |-> e - q, start |-> h]
  BY <1>2, <1>3
<1> QED BY <1>4 DEF a, b, c, d, e, h, p, q

LEMMA LenOfLane == ASSUME NEW s \in Seq(Frame), NEW a PROVE Len(Lane(s, a)) \in Nat
<1>1. Lane(s, a) \in Seq(Frame)
  BY LaneIn
<1> QED BY <1>1

\* w is GOP g with the frames k and the size z.
Reduced(w, g, o, k, z) == GoodGOP(w, o) /\ w.id = g.id /\ w.frames = k /\ w.totalSize = z

\* Taking frames out of a GOP with Without keeps its counts right.
LEMMA WithoutGood ==
  ASSUME NEW g, NEW o, GoodGOP(g, o), NEW K, NEW k, k = Lane(g.frames, K), NEW z \in Int,
         z >= Bytes(Where(k, NotKeyframe)), Part(k, o)
  PROVE  Reduced(Without(g, k, z), g, o, k, z)
<1> DEFINE w == Without(g, k, z)
           s == g.frames
           r == Gone(s, k)
<1>1. g \in GOP /\ s \in Seq(Frame) /\ Sorted(s) /\ Counted(g)
  BY DEF GoodGOP, Part
<1>2. /\ w = [id |-> g.id, frames |-> k, totalSize |-> z, pCount |-> g.pCount - Len(Where(r, IsP)),
              bCount |-> g.bCount - Len(Where(r, IsB)), start |-> g.start]
  BY <1>1, WithoutIs
<1>3. k \in Seq(Frame) /\ r \in Seq(Frame)
  BY <1>1, KeptIs
<1>4. /\ Where(s, IsP) = Lane(s, Typed({"P"})) /\ Where(s, IsB) = Lane(s, Typed({"B"}))
      /\ Where(k, IsP) = Lane(k, Typed({"P"})) /\ Where(k, IsB) = Lane(k, Typed({"B"}))
      /\ Where(r, IsP) = Lane(r, Typed({"P"})) /\ Where(r, IsB) = Lane(r, Typed({"B"}))
  BY <1>1, <1>3, WhereLane
<1>5. /\ Len(Where(s, IsP)) = Len(Where(k, IsP)) + Len(Where(r, IsP))
      /\ Len(Where(s, IsB)) = Len(Where(k, IsB)) + Len(Where(r, IsB))
  BY <1>1, <1>4, KeptCounts
<1>6. /\ Len(Where(k, IsP)) \in Nat /\ Len(Where(r, IsP)) \in Nat
      /\ Len(Where(k, IsB)) \in Nat /\ Len(Where(r, IsB)) \in Nat
  BY <1>3, <1>4, LenOfLane
<1>7. g.pCount = Len(Where(s, IsP)) /\ g.bCount = Len(Where(s, IsB))
  BY <1>1 DEF Counted
<1> HIDE DEF r, s
<1>8. g.pCount - Len(Where(r, IsP)) = Len(Where(k, IsP)) /\ g.bCount - Len(Where(r, IsB)) = Len(Where(k, IsB))
  BY <1>5, <1>6, <1>7
<1>9. /\ w = [id |-> g.id, frames |-> k, totalSize |-> z, pCount |-> Len(Where(k, IsP)),
              bCount |-> Len(Where(k, IsB)), start |-> g.start]
  BY <1>2, <1>8
<1>10. g.id \in Nat /\ g.start \in Nat
  BY <1>1, GOPIs
<1> HIDE DEF w
<1>11. w \in GOP
  BY <1>3, <1>6, <1>9, <1>10 DEF GOP
<1>12. w.id = g.id /\ w.frames = k /\ w.totalSize = z /\ w.pCount = Len(Where(k, IsP)) /\ w.bCount = Len(Where(k, IsB))
  BY <1>9
<1>13. GoodGOP(w, o)
  BY <1>11, <1>12 DEF GoodGOP, Counted
<1> QED BY <1>12, <1>13 DEF w, Reduced

\* What a drop takes lies behind the keyframe, if the keyframe stays.
LEMMA GoneBehind ==
  ASSUME NEW s \in Seq(Frame), Sorted(s), NEW K, NEW k, k = Lane(s, K), Members(s) \cap Key \subseteq K
  PROVE  Bytes(Where(s, NotKeyframe)) = Bytes(Where(k, NotKeyframe)) + Bytes(Gone(s, k))
<1> DEFINE r == Gone(s, k)
<1>1. k \in Seq(Frame) /\ r \in Seq(Frame) /\ r = Lane(s, Frame \ K)
  BY KeptIs
<1>2. Members(r) = Members(s) \cap (Frame \ K)
  BY <1>1, LaneMembers
<1>3. Where(s, NotKeyframe) = Lane(s, Behind) /\ Where(k, NotKeyframe) = Lane(k, Behind)
  BY <1>1, WhereLane DEF Behind
<1>4. Members(r) \subseteq Behind
  <2> SUFFICES ASSUME NEW f \in Members(r) PROVE f \in Behind
    OBVIOUS
  <2>1. f \in Frame /\ f \notin Key
    BY <1>2
  <2> QED BY <2>1, FrameIs DEF Key, Behind, Typed
<1>5. Lane(r, Behind) = r
  BY <1>1, <1>4, LaneAll
<1>6. Bytes(Lane(s, Behind)) = Bytes(Lane(k, Behind)) + Bytes(Lane(r, Behind))
  BY KeptCounts
<1> QED BY <1>3, <1>5, <1>6

-----------------------------------------------------------------------------
(* The buffer *)

\* The frames of the closed GOPs.
Origins(O) ==
  /\ O \in Seq(Seq(Frame)) /\ \A a \in DOMAIN O : Whole(O[a])
  /\ \A a, c \in DOMAIN O : a # c => Ids(O[a]) \cap Ids(O[c]) = {}

Indexed(b) ==
  /\ DOMAIN b.index = UNION {Ids(b.gops[i].frames) : i \in DOMAIN b.gops}
  /\ \A i \in DOMAIN b.gops : \A p \in DOMAIN b.gops[i].frames :
       b.index[b.gops[i].frames[p].id] = [gop |-> b.gops[i].id, pos |-> p]

Listed(gops, O) ==
  /\ gops \in Seq(GOP) /\ Len(gops) <= Len(O)
  /\ \A i \in DOMAIN gops : gops[i].id = Len(O) - Len(gops) + i /\ GoodGOP(gops[i], O[gops[i].id])

IsBuffer(b) ==
  /\ b = [gops |-> b.gops, index |-> b.index, bytes |-> b.bytes, newest |-> b.newest]
  /\ b.bytes \in Int /\ b.newest \in Nat

Kept(b, O) == IsBuffer(b) /\ Listed(b.gops, O) /\ Indexed(b)

LEMMA ListedApart ==
  ASSUME NEW O, Origins(O), NEW gops, Listed(gops, O)
  PROVE  /\ \A i \in DOMAIN gops : gops[i] \in GOP /\ gops[i].id \in DOMAIN O /\ Whole(O[gops[i].id])
         /\ \A i, j \in DOMAIN gops : i # j => Ids(gops[i].frames) \cap Ids(gops[j].frames) = {}
<1>1. /\ Len(gops) \in Nat /\ Len(O) \in Nat /\ DOMAIN gops = 1..Len(gops) /\ DOMAIN O = 1..Len(O)
      /\ Len(gops) <= Len(O) /\ \A i \in DOMAIN gops : gops[i] \in GOP
  BY DEF Listed, Origins
<1>2. \A i \in DOMAIN gops : gops[i].id = Len(O) - Len(gops) + i
  BY DEF Listed
<1>3. \A i \in DOMAIN gops : gops[i].id \in DOMAIN O
  BY <1>1, <1>2
<1>4. \A i \in DOMAIN gops : Ids(gops[i].frames) \subseteq Ids(O[gops[i].id])
  <2> TAKE i \in DOMAIN gops
  <2>1. Members(gops[i].frames) \subseteq Members(O[gops[i].id])
    BY DEF Listed, GoodGOP, Part
  <2> QED BY <2>1, IdsOf
<1>5. \A i, j \in DOMAIN gops : i # j => gops[i].id # gops[j].id
  <2> TAKE i, j \in DOMAIN gops
  <2> DEFINE x == gops[i].id
             y == gops[j].id
  <2>1. x = Len(O) - Len(gops) + i /\ y = Len(O) - Len(gops) + j
    BY <1>2
  <2> HIDE DEF x, y
  <2>2. i # j => x # y
    BY <1>1, <2>1
  <2> QED BY <2>2 DEF x, y
<1>6. \A i, j \in DOMAIN gops : i # j => Ids(gops[i].frames) \cap Ids(gops[j].frames) = {}
  <2> SUFFICES ASSUME NEW i \in DOMAIN gops, NEW j \in DOMAIN gops, i # j
               PROVE  Ids(gops[i].frames) \cap Ids(gops[j].frames) = {}
    OBVIOUS
  <2>1. Ids(O[gops[i].id]) \cap Ids(O[gops[j].id]) = {}
    BY <1>3, <1>5 DEF Origins
  <2> QED BY <1>4, <2>1
<1>7. \A i \in DOMAIN gops : Whole(O[gops[i].id])
  BY <1>3 DEF Origins
<1> QED BY <1>1, <1>3, <1>6, <1>7

\* l is the index ix with the frames s of GOP n where they are now.
Located(l, ix, n, s) ==
  /\ DOMAIN l = DOMAIN ix \cup Ids(s)
  /\ \A p \in DOMAIN s : l[s[p].id] = [gop |-> n, pos |-> p]
  /\ \A x \in DOMAIN ix \ Ids(s) : l[x] = ix[x]

LEMMA LocateIs ==
  ASSUME NEW ix, NEW n, NEW s \in Seq(Frame), Sorted(s)
  PROVE  Located(Locate(ix, n, s), ix, n, s)
<1>1. DOMAIN Locate(ix, n, s) = DOMAIN ix \cup Ids(s)
  BY DEF Locate
<1>2. ASSUME NEW p \in DOMAIN s PROVE Locate(ix, n, s)[s[p].id] = [gop |-> n, pos |-> p]
  <2>1. s[p].id \in Ids(s)
    BY DEF Ids
  <2>2. (CHOOSE i \in DOMAIN s : s[i].id = s[p].id) = p
    BY SortedApart
  <2> QED BY <2>1, <2>2 DEF Locate
<1>3. \A x \in DOMAIN ix \ Ids(s) : Locate(ix, n, s)[x] = ix[x]
  BY DEF Locate
<1> QED BY <1>1, <1>2, <1>3 DEF Located

LEMMA ForgetIs ==
  ASSUME NEW ix, NEW s
  PROVE  DOMAIN Forget(ix, s) = DOMAIN ix \ s /\ \A x \in DOMAIN ix \ s : Forget(ix, s)[x] = ix[x]
BY DEF Forget

LEMMA ReduceIs ==
  ASSUME NEW b, IsBuffer(b), NEW i, NEW g, NEW r, r = Gone(b.gops[i].frames, g.frames)
  PROVE  Reduce(b, i, g) =
           [gops |-> [b.gops EXCEPT ![i] = g], bytes |-> b.bytes - Bytes(r), newest |-> b.newest,
            index |-> Locate(Forget(b.index, Ids(r)), g.id, g.frames)]
<1> DEFINE x == b.gops
           y == b.index
           z == b.bytes
           w == b.newest
           l == Locate(Forget(y, Ids(r)), g.id, g.frames)
           t == Bytes(r)
<1>1. b = [gops |-> x, index |-> y, bytes |-> z, newest |-> w]
  BY DEF IsBuffer
<1>2. Reduce(b, i, g) = [b EXCEPT !.gops[i] = g, !.index = l, !.bytes = z - t]
  BY DEF Reduce
<1> HIDE DEF x, y, z, w, l, t
<1>3. Reduce(b, i, g) = [gops |-> [x EXCEPT ![i] = g], bytes |-> z - t, newest |-> w, index |-> l]
  BY <1>1, <1>2
<1> QED BY <1>3 DEF x, y, z, w, l, t

\* Giving up frames of one GOP: the other GOPs keep theirs, and the index
\* follows.
LEMMA ReduceKept ==
  ASSUME NEW O, Origins(O), NEW b, Kept(b, O), NEW i \in DOMAIN b.gops,
         NEW g, GoodGOP(g, O[g.id]), g.id = b.gops[i].id, NEW K, g.frames = Lane(b.gops[i].frames, K)
  PROVE  /\ Kept(Reduce(b, i, g), O) /\ Reduce(b, i, g).gops = [b.gops EXCEPT ![i] = g]
         /\ Reduce(b, i, g).bytes = b.bytes - Bytes(Gone(b.gops[i].frames, g.frames))
         /\ Reduce(b, i, g).bytes <= b.bytes
<1> DEFINE s == b.gops[i].frames
           r == Gone(s, g.frames)
           q == [b.gops EXCEPT ![i] = g]
           ix == Locate(Forget(b.index, Ids(r)), g.id, g.frames)
           d == Reduce(b, i, g)
<1>1. IsBuffer(b) /\ Listed(b.gops, O) /\ Indexed(b)
  BY DEF Kept
<1>2. d = [gops |-> q, bytes |-> b.bytes - Bytes(r), newest |-> b.newest, index |-> ix]
  BY <1>1, ReduceIs
<1>3. s \in Seq(Frame) /\ Sorted(s)
  BY <1>1 DEF Listed, GoodGOP, Part
<1>4. /\ g.frames \in Seq(Frame) /\ Sorted(g.frames) /\ r \in Seq(Frame)
      /\ Ids(g.frames) \subseteq Ids(s) /\ Ids(r) = Ids(s) \ Ids(g.frames)
  <2> DEFINE k == g.frames
  <2>1. k = Lane(s, K)
    OBVIOUS
  <2> HIDE DEF k, s
  <2>2. /\ k \in Seq(Frame) /\ Sorted(k) /\ Gone(s, k) \in Seq(Frame)
        /\ Ids(k) \subseteq Ids(s) /\ Ids(Gone(s, k)) = Ids(s) \ Ids(k)
    BY <1>3, <2>1, KeptIs
  <2> QED BY <2>2 DEF k
<1>5. Bytes(r) \in Nat /\ b.bytes \in Int /\ b.newest \in Nat
  BY <1>1, <1>4, BytesType DEF IsBuffer
<1>6. b.gops \in Seq(GOP) /\ g \in GOP
  BY <1>1 DEF Listed, GoodGOP
<1>7. q \in Seq(GOP) /\ Len(q) = Len(b.gops) /\ DOMAIN q = DOMAIN b.gops
  BY <1>6
<1>8. q[i] = g /\ \A j \in DOMAIN b.gops : j # i => q[j] = b.gops[j]
  BY <1>6
<1> HIDE DEF q
<1>9. Listed(q, O)
  BY <1>1, <1>7, <1>8 DEF Listed
<1>10. /\ d.gops = q /\ d.bytes = b.bytes - Bytes(r) /\ d.newest = b.newest /\ d.index = ix
       /\ d = [gops |-> d.gops, index |-> d.index, bytes |-> d.bytes, newest |-> d.newest]
  BY <1>2
<1> HIDE DEF d, ix, s, r
<1>11. IsBuffer(d) /\ d.bytes <= b.bytes
  BY <1>5, <1>10 DEF IsBuffer
<1>12. \A j \in DOMAIN b.gops : j # i => Ids(b.gops[j].frames) \cap Ids(s) = {}
  BY <1>1, ListedApart DEF s
<1> DEFINE f == Forget(b.index, Ids(r))
<1>f. DOMAIN f = DOMAIN b.index \ Ids(r) /\ \A x \in DOMAIN b.index \ Ids(r) : f[x] = b.index[x]
  BY ForgetIs
<1>l. Located(ix, f, g.id, g.frames)
  <2> HIDE DEF f
  <2>1. ix = Locate(f, g.id, g.frames)
    BY DEF ix, f
  <2>2. Located(Locate(f, g.id, g.frames), f, g.id, g.frames)
    BY <1>4, LocateIs
  <2> QED BY <2>1, <2>2
<1> HIDE DEF f
<1>13. DOMAIN ix = (DOMAIN b.index \ Ids(r)) \cup Ids(g.frames)
  BY <1>f, <1>l DEF Located
<1>14. DOMAIN ix = UNION {Ids(q[j].frames) : j \in DOMAIN q}
  <2>1. DOMAIN b.index = UNION {Ids(b.gops[j].frames) : j \in DOMAIN b.gops}
    BY <1>1 DEF Indexed
  <2>2. ASSUME NEW j \in DOMAIN q PROVE Ids(q[j].frames) \subseteq DOMAIN ix
    <3>1. CASE j = i
      BY <1>8, <1>13, <3>1
    <3>2. CASE j # i
      <4>1. q[j] = b.gops[j] /\ j \in DOMAIN b.gops
        BY <1>7, <1>8, <3>2
      <4>2. Ids(q[j].frames) \subseteq DOMAIN b.index
        BY <2>1, <4>1
      <4>3. Ids(q[j].frames) \cap Ids(r) = {}
        BY <1>4, <1>12, <3>2, <4>1
      <4> QED BY <1>13, <4>2, <4>3
    <3> QED BY <3>1, <3>2
  <2>3. ASSUME NEW x \in DOMAIN ix PROVE \E j \in DOMAIN q : x \in Ids(q[j].frames)
    <3>1. CASE x \in Ids(g.frames)
      BY <1>7, <1>8, <3>1
    <3>2. CASE x \notin Ids(g.frames)
      <4>1. x \in DOMAIN b.index /\ x \notin Ids(r)
        BY <1>13, <3>2
      <4>2. PICK j \in DOMAIN b.gops : x \in Ids(b.gops[j].frames)
        BY <2>1, <4>1
      <4>3. j # i
        BY <1>4, <3>2, <4>1, <4>2 DEF s
      <4> QED BY <1>7, <1>8, <4>2, <4>3
    <3> QED BY <3>1, <3>2
  <2> QED BY <2>2, <2>3
<1>15. ASSUME NEW j \in DOMAIN q, NEW p \in DOMAIN q[j].frames
       PROVE  ix[q[j].frames[p].id] = [gop |-> q[j].id, pos |-> p]
  <2>1. CASE j = i
    BY <1>8, <1>l, <2>1 DEF Located
  <2>2. CASE j # i
    <3> DEFINE x == b.gops[j].frames[p].id
    <3>1. q[j] = b.gops[j] /\ j \in DOMAIN b.gops /\ p \in DOMAIN b.gops[j].frames
      BY <1>7, <1>8, <2>2
    <3>2. x \in Ids(b.gops[j].frames)
      BY <3>1 DEF Ids
    <3>3. x \notin Ids(s)
      BY <1>12, <2>2, <3>1, <3>2
    <3>4. x \in DOMAIN b.index /\ b.index[x] = [gop |-> b.gops[j].id, pos |-> p]
      BY <1>1, <3>1, <3>2 DEF Indexed
    <3> HIDE DEF x
    <3>5. x \in DOMAIN b.index \ Ids(r) /\ x \notin Ids(g.frames)
      BY <1>4, <3>3, <3>4
    <3>7. ix[x] = b.index[x]
      BY <1>f, <1>l, <3>5 DEF Located
    <3> QED BY <3>1, <3>4, <3>7 DEF x
  <2> QED BY <2>1, <2>2
<1>16. Indexed(d)
  BY <1>10, <1>14, <1>15 DEF Indexed
<1>17. Kept(d, O)
  BY <1>9, <1>10, <1>11, <1>16 DEF Kept
<1> QED BY <1>10, <1>11, <1>17 DEF d, q, r, s

-----------------------------------------------------------------------------
(* The byte count *)

GOPSizes(gops) == [i \in DOMAIN gops |-> gops[i].totalSize]

LEMMA SizesType == ASSUME NEW gops \in Seq(GOP) PROVE GOPSizes(gops) \in Seq(Int) /\ Len(GOPSizes(gops)) = Len(gops)
<1>1. Len(gops) \in Nat /\ DOMAIN gops = 1..Len(gops) /\ \A i \in DOMAIN gops : gops[i] \in GOP
  OBVIOUS
<1>2. \A i \in DOMAIN gops : gops[i].totalSize \in Int
  BY <1>1, GOPIs
<1> QED BY <1>1, <1>2 DEF GOPSizes

LEMMA TotalIs == ASSUME NEW gops PROVE GOPBytes(gops) = SumOf(GOPSizes(gops))
BY DEF GOPBytes, GOPSizes

LEMMA TotalType == ASSUME NEW gops \in Seq(GOP) PROVE GOPBytes(gops) \in Int
BY SizesType, TotalIs, SumOfType

LEMMA TotalExcept ==
  ASSUME NEW gops \in Seq(GOP), NEW i \in DOMAIN gops, NEW g \in GOP
  PROVE  GOPBytes([gops EXCEPT ![i] = g]) = GOPBytes(gops) - gops[i].totalSize + g.totalSize
<1> DEFINE q == [gops EXCEPT ![i] = g]
<1>1. DOMAIN q = DOMAIN gops /\ q[i] = g /\ \A j \in DOMAIN gops : j # i => q[j] = gops[j]
  OBVIOUS
<1> HIDE DEF q
<1>2. GOPSizes(q) = [GOPSizes(gops) EXCEPT ![i] = g.totalSize]
  BY <1>1 DEF GOPSizes
<1>3. GOPSizes(gops) \in Seq(Int) /\ i \in DOMAIN GOPSizes(gops) /\ GOPSizes(gops)[i] = gops[i].totalSize
  BY SizesType DEF GOPSizes
<1>4. g.totalSize \in Int
  BY GOPIs
<1> DEFINE s == GOPSizes(gops)
           v == g.totalSize
<1> HIDE DEF s, v
<1>5. SumOf([s EXCEPT ![i] = v]) = SumOf(s) - s[i] + v
  BY <1>3, <1>4, SumOfExcept DEF s, v
<1> QED BY <1>2, <1>3, <1>5, TotalIs DEF s, v, q

LEMMA TailIs ==
  ASSUME NEW T, NEW s \in Seq(T), s # <<>>
  PROVE  /\ Tail(s) \in Seq(T) /\ Len(Tail(s)) = Len(s) - 1 /\ Len(s) \in Nat \ {0}
         /\ Head(s) = s[1] /\ s[1] \in T
         /\ \A i \in 1..(Len(s) - 1) : Tail(s)[i] = s[i + 1]
OBVIOUS

LEMMA TotalTail ==
  ASSUME NEW gops \in Seq(GOP), gops # <<>>
  PROVE  GOPBytes(gops) = gops[1].totalSize + GOPBytes(Tail(gops))
<1> DEFINE t == Tail(gops)
           v == gops[1].totalSize
           n == Len(gops)
<1>1. /\ t \in Seq(GOP) /\ Len(t) = n - 1 /\ n \in Nat \ {0} /\ gops[1] \in GOP
      /\ \A i \in 1..(n - 1) : t[i] = gops[i + 1]
  BY TailIs
<1>2. v \in Int /\ GOPSizes(t) \in Seq(Int) /\ Len(GOPSizes(t)) = n - 1 /\ GOPSizes(gops) \in Seq(Int) /\ Len(GOPSizes(gops)) = n
  BY <1>1, SizesType, GOPIs
<1>3. DOMAIN t = 1..(n - 1) /\ DOMAIN gops = 1..n
  BY <1>1
<1>4. GOPSizes(gops)[1] = v /\ \A i \in 1..(n - 1) : GOPSizes(gops)[i + 1] = GOPSizes(t)[i]
  <2>1. GOPSizes(gops)[1] = v
    BY <1>1, <1>3 DEF GOPSizes
  <2>2. ASSUME NEW i \in 1..(n - 1) PROVE GOPSizes(gops)[i + 1] = GOPSizes(t)[i]
    <3>1. i + 1 \in 1..n /\ i \in DOMAIN t
      BY <1>1, <1>3
    <3> HIDE DEF t, n
    <3>2. GOPSizes(t)[i] = t[i].totalSize /\ GOPSizes(gops)[i + 1] = gops[i + 1].totalSize
      BY <1>3, <3>1 DEF GOPSizes
    <3> QED BY <1>1, <3>2
  <2> QED BY <2>1, <2>2
<1> DEFINE a == GOPSizes(gops)
           z == GOPSizes(t)
           c == <<v>> \o z
<1> HIDE DEF t, v, n, a, z
<1>5. /\ n \in Nat \ {0} /\ a \in Seq(Int) /\ z \in Seq(Int) /\ Len(a) = n /\ Len(z) = n - 1 /\ v \in Int
      /\ a[1] = v /\ \A i \in 1..(n - 1) : a[i + 1] = z[i]
  BY <1>1, <1>2, <1>4 DEF a, z
<1>6. c \in Seq(Int) /\ Len(c) = n /\ c[1] = v /\ \A i \in 1..(n - 1) : c[i + 1] = z[i]
  <2>1. <<v>> \in Seq(Int) /\ Len(<<v>>) = 1 /\ <<v>>[1] = v
    BY <1>5
  <2>2. c \in Seq(Int) /\ Len(c) = 1 + (n - 1)
    BY <1>5, <2>1, ConcatProperties
  <2>3. \A i \in 1..(1 + (n - 1)) : c[i] = IF i <= 1 THEN <<v>>[i] ELSE z[i - 1]
    BY <1>5, <2>1, ConcatProperties
  <2> HIDE DEF c
  <2>4. c[1] = v
    BY <1>5, <2>1, <2>3
  <2>5. ASSUME NEW i \in 1..(n - 1) PROVE c[i + 1] = z[i]
    <3>1. i + 1 \in 1..(1 + (n - 1)) /\ ~(i + 1 <= 1) /\ (i + 1) - 1 = i
      BY <1>5
    <3> QED BY <2>3, <3>1
  <2>6. Len(c) = n
    BY <1>5, <2>2
  <2> QED BY <2>2, <2>4, <2>5, <2>6
<1>7. a = c
  <2> HIDE DEF c
  <2>1. ASSUME NEW i \in 1..n PROVE a[i] = c[i]
    <3>1. CASE i = 1
      BY <1>5, <1>6, <3>1
    <3>2. CASE i # 1
      <4>1. i - 1 \in 1..(n - 1) /\ (i - 1) + 1 = i
        BY <1>5, <3>2
      <4>2. a[(i - 1) + 1] = z[i - 1] /\ c[(i - 1) + 1] = z[i - 1]
        BY <1>5, <1>6, <4>1
      <4> QED BY <4>1, <4>2
    <3> QED BY <3>1, <3>2
  <2> QED BY <1>5, <1>6, <2>1
<1>8. SumOf(a) = v + SumOf(z)
  BY <1>5, <1>7, SumOfCons
<1> QED BY <1>8, TotalIs DEF a, z, v, t

LEMMA TotalAppend ==
  ASSUME NEW gops \in Seq(GOP), NEW g \in GOP
  PROVE  GOPBytes(Append(gops, g)) = GOPBytes(gops) + g.totalSize
<1> DEFINE t == Append(gops, g)
           v == g.totalSize
           n == Len(gops)
<1>1. /\ t \in Seq(GOP) /\ Len(t) = n + 1 /\ n \in Nat /\ t[n + 1] = g
      /\ \A i \in 1..n : t[i] = gops[i]
  BY AppendProperties
<1>2. v \in Int /\ GOPSizes(t) \in Seq(Int) /\ Len(GOPSizes(t)) = n + 1 /\ GOPSizes(gops) \in Seq(Int) /\ Len(GOPSizes(gops)) = n
  BY <1>1, SizesType, GOPIs
<1>3. DOMAIN t = 1..(n + 1) /\ DOMAIN gops = 1..n
  BY <1>1
<1> HIDE DEF t
<1>4. GOPSizes(t)[n + 1] = v /\ \A i \in 1..n : GOPSizes(t)[i] = GOPSizes(gops)[i]
  BY <1>1, <1>3 DEF GOPSizes
<1> DEFINE a == GOPSizes(gops)
           z == GOPSizes(t)
           c == Append(a, v)
<1> HIDE DEF v, n, a, z
<1>5. /\ n \in Nat /\ a \in Seq(Int) /\ z \in Seq(Int) /\ Len(a) = n /\ Len(z) = n + 1 /\ v \in Int
      /\ z[n + 1] = v /\ \A i \in 1..n : z[i] = a[i]
  BY <1>1, <1>2, <1>4 DEF a, z
<1>6. c \in Seq(Int) /\ Len(c) = n + 1 /\ c[n + 1] = v /\ \A i \in 1..n : c[i] = a[i]
  BY <1>5, AppendProperties
<1>7. z = c
  <2> HIDE DEF c
  <2>1. ASSUME NEW i \in 1..(n + 1) PROVE z[i] = c[i]
    <3>1. i \in 1..n \/ i = n + 1
      BY <1>5
    <3> QED BY <1>5, <1>6, <3>1
  <2> QED BY <1>5, <1>6, <2>1
<1>8. SumOf(c) = SumOf(a) + v
  BY <1>5, SumOfAppend
<1> QED BY <1>7, <1>8, TotalIs DEF a, z, v, t

\* No drop has rewritten a GOP's size, and the byte count is their sum.
Plain(gops) == \A i \in DOMAIN gops : ~Rewritten(gops[i])
Strict(b) == Plain(b.gops) /\ b.bytes = GOPBytes(b.gops)

-----------------------------------------------------------------------------
(* Removing the oldest GOP *)

LEMMA RemoveIs ==
  ASSUME NEW b, IsBuffer(b)
  PROVE  removeOldestGOP(b) =
           [gops |-> Tail(b.gops), index |-> Forget(b.index, Ids(Head(b.gops).frames)),
            bytes |-> b.bytes - Head(b.gops).totalSize, newest |-> b.newest]
<1> DEFINE x == b.gops
           y == b.index
           z == b.bytes
           w == b.newest
           l == Forget(y, Ids(Head(x).frames))
           t == Head(x).totalSize
<1>1. b = [gops |-> x, index |-> y, bytes |-> z, newest |-> w]
  BY DEF IsBuffer
<1>2. removeOldestGOP(b) = [b EXCEPT !.gops = Tail(x), !.index = l, !.bytes = z - t]
  BY DEF removeOldestGOP
<1> HIDE DEF x, y, z, w, l, t
<1>3. removeOldestGOP(b) = [gops |-> Tail(x), index |-> l, bytes |-> z - t, newest |-> w]
  BY <1>1, <1>2
<1> QED BY <1>3 DEF x, y, z, w, l, t

\* r is b with its k oldest GOPs removed.
After(r, b, O, k) ==
  /\ Kept(r, O) /\ Len(r.gops) = Len(b.gops) - k /\ r.bytes <= b.bytes
  /\ Strict(b) => Strict(r)

LEMMA RemoveKept ==
  ASSUME NEW O, Origins(O), NEW b, Kept(b, O), b.gops # <<>>
  PROVE  After(removeOldestGOP(b), b, O, 1)
<1> DEFINE q == b.gops
           t == Tail(q)
           n == Len(q)
           h == q[1]
           d == removeOldestGOP(b)
           ix == Forget(b.index, Ids(h.frames))
<1>1. IsBuffer(b) /\ Listed(q, O) /\ Indexed(b) /\ q \in Seq(GOP)
  BY DEF Kept, Listed
<1>2. /\ t \in Seq(GOP) /\ Len(t) = n - 1 /\ n \in Nat \ {0} /\ Head(q) = h /\ h \in GOP
      /\ \A i \in 1..(n - 1) : t[i] = q[i + 1]
  BY <1>1, TailIs
<1>3. d = [gops |-> t, index |-> ix, bytes |-> b.bytes - h.totalSize, newest |-> b.newest]
  BY <1>1, <1>2, RemoveIs
<1>4. /\ d.gops = t /\ d.index = ix /\ d.bytes = b.bytes - h.totalSize /\ d.newest = b.newest
      /\ d = [gops |-> d.gops, index |-> d.index, bytes |-> d.bytes, newest |-> d.newest]
  BY <1>3
<1>5. DOMAIN t = 1..(n - 1) /\ DOMAIN q = 1..n /\ \A i \in 1..(n - 1) : i + 1 \in 1..n
  BY <1>1, <1>2
<1>6. h.totalSize \in Nat
  <2>1. GoodGOP(h, O[h.id])
    BY <1>1, <1>2, <1>5 DEF Listed
  <2>2. h.frames \in Seq(Frame) /\ h.totalSize >= Bytes(Where(h.frames, NotKeyframe)) /\ h.totalSize \in Int
    BY <1>2, <2>1, GOPIs DEF GoodGOP, Counted
  <2>3. Bytes(Where(h.frames, NotKeyframe)) \in Nat
    BY <2>2, WhereLane, LaneIn, BytesType
  <2> QED BY <2>2, <2>3
<1>7. \A i \in DOMAIN q : i # 1 => Ids(q[i].frames) \cap Ids(h.frames) = {}
  <2> HIDE DEF q
  <2>1. \A i, j \in DOMAIN q : i # j => Ids(q[i].frames) \cap Ids(q[j].frames) = {}
    BY <1>1, ListedApart
  <2>2. 1 \in DOMAIN q
    BY <1>2, <1>5
  <2> QED BY <2>1, <2>2
<1>8. DOMAIN ix = DOMAIN b.index \ Ids(h.frames) /\ \A x \in DOMAIN ix : ix[x] = b.index[x]
  <2> DEFINE y == b.index
             m == Ids(h.frames)
  <2> HIDE DEF y, m
  <2>1. DOMAIN Forget(y, m) = DOMAIN y \ m /\ \A x \in DOMAIN y \ m : Forget(y, m)[x] = y[x]
    BY DEF Forget
  <2> QED BY <2>1 DEF y, m
<1>9. DOMAIN b.index = UNION {Ids(q[i].frames) : i \in DOMAIN q}
  BY <1>1 DEF Indexed
<1>10. \A i \in DOMAIN q : \A p \in DOMAIN q[i].frames : b.index[q[i].frames[p].id] = [gop |-> q[i].id, pos |-> p]
  BY <1>1 DEF Indexed
<1>11. b.bytes \in Int /\ b.newest \in Nat
  BY <1>1 DEF IsBuffer
<1>12. Strict(b) => Strict(d)
  <2> SUFFICES ASSUME Strict(b) PROVE Strict(d)
    OBVIOUS
  <2>1. Plain(t)
    BY <1>2, <1>5 DEF Strict, Plain
  <2>2. GOPBytes(q) = h.totalSize + GOPBytes(t) /\ GOPBytes(t) \in Int
    BY <1>1, <1>2, TotalTail, TotalType
  <2>3. b.bytes = GOPBytes(q)
    BY DEF Strict
  <2>4. b.bytes - h.totalSize = GOPBytes(t)
    BY <1>6, <2>2, <2>3
  <2> QED BY <1>4, <2>1, <2>4 DEF Strict
<1> HIDE DEF t, n, d, ix, h
<1>13. IsBuffer(d) /\ d.bytes <= b.bytes
  BY <1>4, <1>6, <1>11 DEF IsBuffer
<1>14. Listed(t, O)
  <2>1. Len(t) <= Len(O) /\ Len(O) \in Nat /\ n <= Len(O)
    BY <1>1, <1>2 DEF Listed, Origins, n
  <2>2. ASSUME NEW i \in DOMAIN t PROVE t[i].id = Len(O) - Len(t) + i /\ GoodGOP(t[i], O[t[i].id])
    <3>1. i \in 1..(n - 1) /\ i + 1 \in DOMAIN q /\ t[i] = q[i + 1]
      BY <1>2, <1>5
    <3>2. q[i + 1].id = Len(O) - n + (i + 1) /\ GoodGOP(q[i + 1], O[q[i + 1].id])
      BY <1>1, <3>1 DEF Listed, n
    <3>3. Len(O) - n + (i + 1) = Len(O) - Len(t) + i
      BY <1>2, <2>1, <3>1
    <3> QED BY <3>1, <3>2, <3>3
  <2> QED BY <1>2, <2>1, <2>2 DEF Listed
<1>15. DOMAIN ix = UNION {Ids(t[i].frames) : i \in DOMAIN t}
  <2>1. ASSUME NEW i \in DOMAIN t PROVE Ids(t[i].frames) \subseteq DOMAIN ix
    <3>1. i + 1 \in DOMAIN q /\ t[i] = q[i + 1] /\ i + 1 # 1
      BY <1>2, <1>5
    <3>2. Ids(t[i].frames) \subseteq DOMAIN b.index
      BY <1>9, <3>1
    <3>3. Ids(t[i].frames) \cap Ids(h.frames) = {}
      BY <1>7, <3>1
    <3> QED BY <1>8, <3>2, <3>3
  <2>2. ASSUME NEW x \in DOMAIN ix PROVE \E i \in DOMAIN t : x \in Ids(t[i].frames)
    <3>1. PICK i \in DOMAIN q : x \in Ids(q[i].frames)
      BY <1>8, <1>9
    <3>2. i # 1
      BY <1>8, <3>1 DEF h
    <3>3. i - 1 \in 1..(n - 1) /\ (i - 1) + 1 = i
      BY <1>2, <1>5, <3>2
    <3>4. t[i - 1] = q[i]
      BY <1>2, <3>3
    <3> QED BY <1>5, <3>1, <3>3, <3>4
  <2> QED BY <2>1, <2>2
<1>16. ASSUME NEW i \in DOMAIN t, NEW p \in DOMAIN t[i].frames
       PROVE  ix[t[i].frames[p].id] = [gop |-> t[i].id, pos |-> p]
  <2>1. i + 1 \in DOMAIN q /\ t[i] = q[i + 1]
    BY <1>2, <1>5
  <2>2. t[i].frames[p].id \in DOMAIN ix
    <3>1. t[i].frames[p].id \in Ids(t[i].frames)
      BY DEF Ids
    <3> QED BY <1>15, <3>1
  <2>3. b.index[t[i].frames[p].id] = [gop |-> t[i].id, pos |-> p]
    BY <1>10, <2>1
  <2> QED BY <1>8, <2>2, <2>3
<1>17. Kept(d, O)
  BY <1>4, <1>13, <1>14, <1>15, <1>16 DEF Kept, Indexed
<1> QED BY <1>2, <1>4, <1>12, <1>13, <1>17 DEF After, d, n

Removing(r, b, n) == IF n = 0 THEN b ELSE removeOldestGOP(r[n - 1])

LEMMA RemovingUpTo ==
  ASSUME NEW b, NEW k \in Nat
  PROVE  \E r : r = [n \in 0..k |-> Removing(r, b, n)]
<1> DEFINE Fine == {m \in Nat : \E r : r = [n \in 0..m |-> Removing(r, b, n)]}
<1>1. 0 \in Fine
  <2> DEFINE r == [n \in 0..0 |-> b]
  <2>1. r = [n \in 0..0 |-> Removing(r, b, n)]
    BY DEF Removing
  <2> QED BY <2>1
<1>2. ASSUME NEW m \in Nat, m \in Fine PROVE m + 1 \in Fine
  <2>1. PICK r : r = [n \in 0..m |-> Removing(r, b, n)]
    BY <1>2
  <2> DEFINE h == [n \in 0..(m + 1) |-> Removing(r, b, n)]
  <2>2. \A n \in 0..m : h[n] = r[n]
    BY <2>1
  <2>3. ASSUME NEW n \in 0..(m + 1) PROVE Removing(r, b, n) = Removing(h, b, n)
    <3>1. n # 0 => n - 1 \in 0..m
      OBVIOUS
    <3> HIDE DEF h
    <3> QED BY <2>2, <3>1 DEF Removing
  <2>4. h = [n \in 0..(m + 1) |-> Removing(h, b, n)]
    BY <2>3
  <2> HIDE DEF h
  <2> QED BY <2>4
<1> HIDE DEF Fine
<1>3. k \in Fine
  BY <1>1, <1>2, SetInduction
<1> QED BY <1>3 DEF Fine

LEMMA AfterAfter ==
  ASSUME NEW O, NEW b, NEW r, NEW d, NEW k \in Nat, NEW m \in Nat,
         Len(b.gops) \in Nat, b.bytes \in Int, After(r, b, O, k), After(d, r, O, m)
  PROVE  After(d, b, O, k + m)
<1>1. Kept(d, O) /\ (Strict(b) => Strict(d)) /\ r.bytes \in Int /\ d.bytes \in Int
  BY DEF After, Kept, IsBuffer
<1>2. Len(r.gops) = Len(b.gops) - k /\ Len(d.gops) = Len(r.gops) - m /\ r.bytes <= b.bytes /\ d.bytes <= r.bytes
  BY DEF After
<1>3. Len(d.gops) = Len(b.gops) - (k + m)
  BY <1>2
<1>4. d.bytes <= b.bytes
  BY <1>1, <1>2
<1> QED BY <1>1, <1>3, <1>4 DEF After

LEMMA KeptType ==
  ASSUME NEW O, NEW b, Kept(b, O)
  PROVE  /\ b.gops \in Seq(GOP) /\ Len(b.gops) \in Nat /\ b.bytes \in Int /\ b.newest \in Nat
         /\ DOMAIN b.gops = 1..Len(b.gops) /\ (Len(b.gops) = 0 <=> b.gops = <<>>)
<1>1. b.gops \in Seq(GOP) /\ b.bytes \in Int /\ b.newest \in Nat
  BY DEF Kept, Listed, IsBuffer
<1>2. Len(b.gops) \in Nat /\ DOMAIN b.gops = 1..Len(b.gops) /\ (Len(b.gops) = 0 <=> b.gops = <<>>)
  BY <1>1
<1> QED BY <1>1, <1>2

LEMMA RemoveOldestKept ==
  ASSUME NEW O, Origins(O), NEW b, Kept(b, O), NEW k \in 0..Len(b.gops)
  PROVE  After(RemoveOldest(b, k), b, O, k)
<1>0. Len(b.gops) \in Nat /\ b.bytes \in Int /\ k \in Nat /\ k <= Len(b.gops)
  BY KeptType
<1> DEFINE r == CHOOSE h : h = [n \in 0..k |-> Removing(h, b, n)]
<1>1. r = [n \in 0..k |-> Removing(r, b, n)]
  BY <1>0, RemovingUpTo
<1>2. RemoveOldest(b, k) = r[k]
  BY DEF RemoveOldest, Removing
<1> HIDE DEF r
<1> DEFINE Fine == {n \in Nat : n <= k => After(r[n], b, O, n)}
<1>3. 0 \in Fine
  <2>1. r[0] = b
    BY <1>0, <1>1 DEF Removing
  <2>2. Len(b.gops) = Len(b.gops) - 0 /\ b.bytes <= b.bytes
    BY <1>0
  <2> QED BY <2>1, <2>2 DEF After
<1>4. ASSUME NEW n \in Nat, n \in Fine PROVE n + 1 \in Fine
  <2> SUFFICES ASSUME n + 1 <= k PROVE After(r[n + 1], b, O, n + 1)
    OBVIOUS
  <2>1. n <= k /\ n + 1 \in 0..k /\ n + 1 # 0 /\ (n + 1) - 1 = n
    BY <1>0
  <2>2. After(r[n], b, O, n)
    BY <1>4, <2>1
  <2>3. r[n + 1] = removeOldestGOP(r[n])
    BY <1>1, <2>1 DEF Removing
  <2>4. Kept(r[n], O) /\ Len(r[n].gops) = Len(b.gops) - n
    BY <2>2 DEF After
  <2>5. r[n].gops # <<>>
    <3>1. Len(r[n].gops) # 0
      BY <1>0, <2>1, <2>4
    <3> QED BY <2>4, <3>1, KeptType
  <2>6. After(r[n + 1], r[n], O, 1)
    BY <2>3, <2>4, <2>5, RemoveKept
  <2> QED BY <1>0, <2>2, <2>6, AfterAfter
<1> HIDE DEF Fine
<1>5. k \in Fine
  BY <1>0, <1>3, <1>4, SetInduction
<1>6. After(r[k], b, O, k)
  BY <1>0, <1>5 DEF Fine
<1> QED BY <1>2, <1>6

LEMMA MinIn == ASSUME NEW S \in SUBSET Nat, S # {} PROVE Min(S) \in S /\ \A y \in S : Min(S) <= y
<1>1. \E x \in S : \A y \in S : x <= y
  BY LeastExists
<1> QED BY <1>1 DEF Min

\* The three loops of enforceBufferLimits.
LEMMA CountLoop ==
  ASSUME NEW O, Origins(O), NEW b, Kept(b, O)
  PROVE  \E k \in 0..Len(b.gops) : /\ After(RemoveWhile(b, OverCount), b, O, k)
                                   /\ ~OverCount(RemoveWhile(b, OverCount))
<1> DEFINE S == {k \in 0..Len(b.gops) : ~OverCount(RemoveOldest(b, k))}
<1>0. Len(b.gops) \in Nat
  BY KeptType
<1>1. Len(b.gops) \in S
  <2>1. Len(b.gops) \in 0..Len(b.gops)
    BY <1>0
  <2>2. After(RemoveOldest(b, Len(b.gops)), b, O, Len(b.gops))
    BY <2>1, RemoveOldestKept
  <2>3. Len(RemoveOldest(b, Len(b.gops)).gops) = Len(b.gops) - Len(b.gops)
    BY <2>2 DEF After
  <2>4. Len(RemoveOldest(b, Len(b.gops)).gops) = 0
    BY <1>0, <2>3
  <2>5. ~OverCount(RemoveOldest(b, Len(b.gops)))
    BY <2>4, LimitsAssumption DEF OverCount
  <2> QED BY <2>1, <2>5
<1>2. S \in SUBSET Nat
  BY <1>0
<1>3. Min(S) \in S
  BY <1>1, <1>2, MinIn
<1>4. RemoveWhile(b, OverCount) = RemoveOldest(b, Min(S))
  BY DEF RemoveWhile
<1> DEFINE k == Min(S)
<1>5. k \in 0..Len(b.gops) /\ ~OverCount(RemoveOldest(b, k)) /\ RemoveWhile(b, OverCount) = RemoveOldest(b, k)
  BY <1>3, <1>4
<1> HIDE DEF k, S
<1> QED BY <1>5, RemoveOldestKept

LEMMA BytesLoop ==
  ASSUME NEW O, Origins(O), NEW b, Kept(b, O)
  PROVE  \E k \in 0..Len(b.gops) : /\ After(RemoveWhile(b, OverBytes), b, O, k)
                                   /\ ~OverBytes(RemoveWhile(b, OverBytes))
<1> DEFINE S == {k \in 0..Len(b.gops) : ~OverBytes(RemoveOldest(b, k))}
<1>0. Len(b.gops) \in Nat
  BY KeptType
<1>1. Len(b.gops) \in S
  <2>1. Len(b.gops) \in 0..Len(b.gops)
    BY <1>0
  <2>2. After(RemoveOldest(b, Len(b.gops)), b, O, Len(b.gops))
    BY <2>1, RemoveOldestKept
  <2>3. Len(RemoveOldest(b, Len(b.gops)).gops) = Len(b.gops) - Len(b.gops)
    BY <2>2 DEF After
  <2>4. Len(RemoveOldest(b, Len(b.gops)).gops) = 0
    BY <1>0, <2>3
  <2>5. ~OverBytes(RemoveOldest(b, Len(b.gops)))
    BY <2>4 DEF OverBytes
  <2> QED BY <2>1, <2>5
<1>2. S \in SUBSET Nat
  BY <1>0
<1>3. Min(S) \in S
  BY <1>1, <1>2, MinIn
<1>4. RemoveWhile(b, OverBytes) = RemoveOldest(b, Min(S))
  BY DEF RemoveWhile
<1> DEFINE k == Min(S)
<1>5. k \in 0..Len(b.gops) /\ ~OverBytes(RemoveOldest(b, k)) /\ RemoveWhile(b, OverBytes) = RemoveOldest(b, k)
  BY <1>3, <1>4
<1> HIDE DEF k, S
<1> QED BY <1>5, RemoveOldestKept

LEMMA AgeLoop ==
  ASSUME NEW O, Origins(O), NEW b, Kept(b, O)
  PROVE  \E k \in 0..Len(b.gops) : After(RemoveWhile(b, TooOld), b, O, k)
<1> DEFINE S == {k \in 0..Len(b.gops) : ~TooOld(RemoveOldest(b, k))}
<1>0. Len(b.gops) \in Nat
  BY KeptType
<1>1. Len(b.gops) \in S
  <2>1. Len(b.gops) \in 0..Len(b.gops)
    BY <1>0
  <2> DEFINE d == RemoveOldest(b, Len(b.gops))
  <2>2. After(d, b, O, Len(b.gops))
    BY <2>1, RemoveOldestKept
  <2> HIDE DEF d
  <2>3. Len(d.gops) = Len(b.gops) - Len(b.gops) /\ Kept(d, O)
    BY <2>2 DEF After
  <2>4. Len(d.gops) = 0
    BY <1>0, <2>3
  <2>5. d.gops = <<>>
    BY <2>3, <2>4, KeptType
  <2>6. ~TooOld(d)
    BY <2>5 DEF TooOld
  <2> QED BY <2>1, <2>6 DEF d
<1>2. S \in SUBSET Nat
  BY <1>0
<1>3. Min(S) \in S
  BY <1>1, <1>2, MinIn
<1>4. RemoveWhile(b, TooOld) = RemoveOldest(b, Min(S))
  BY DEF RemoveWhile
<1> DEFINE k == Min(S)
<1>5. k \in 0..Len(b.gops) /\ RemoveWhile(b, TooOld) = RemoveOldest(b, k)
  BY <1>3, <1>4
<1> HIDE DEF k, S
<1> QED BY <1>5, RemoveOldestKept

\* The limits as the buffer counts.
Limited(b) == Len(b.gops) <= MaxGOPs /\ (b.bytes > MaxBytes => Len(b.gops) <= 1)

LEMMA EnforceKept ==
  ASSUME NEW O, Origins(O), NEW b, Kept(b, O)
  PROVE  /\ Kept(enforceBufferLimits(b), O) /\ Limited(enforceBufferLimits(b))
         /\ Strict(b) => Strict(enforceBufferLimits(b))
<1> DEFINE c == RemoveWhile(b, OverCount)
           d == RemoveWhile(c, OverBytes)
           e == RemoveWhile(d, TooOld)
<1>1. \E k \in 0..Len(b.gops) : After(c, b, O, k) /\ ~OverCount(c)
  BY CountLoop
<1>2. Kept(c, O) /\ ~(Len(c.gops) > MaxGOPs) /\ (Strict(b) => Strict(c))
  BY <1>1 DEF After, OverCount
<1>3. \E k \in 0..Len(c.gops) : After(d, c, O, k) /\ ~OverBytes(d)
  <2> HIDE DEF c
  <2> QED BY <1>2, BytesLoop
<1>4. PICK m \in 0..Len(c.gops) : After(d, c, O, m) /\ ~OverBytes(d)
  BY <1>3
<1>5. \E k \in 0..Len(d.gops) : After(e, d, O, k)
  <2>1. Kept(d, O)
    BY <1>4 DEF After
  <2> HIDE DEF d
  <2> QED BY <2>1, AgeLoop
<1>6. PICK n \in 0..Len(d.gops) : After(e, d, O, n)
  BY <1>5
<1>7. enforceBufferLimits(b) = d \/ enforceBufferLimits(b) = e
  BY DEF enforceBufferLimits
<1> HIDE DEF c, d, e
<1>8. Kept(d, O) /\ Kept(e, O) /\ (Strict(b) => Strict(d)) /\ (Strict(b) => Strict(e))
  BY <1>2, <1>4, <1>6 DEF After
<1>9. /\ Len(c.gops) \in Nat /\ Len(d.gops) \in Nat /\ Len(e.gops) \in Nat
      /\ d.bytes \in Int /\ e.bytes \in Int /\ MaxGOPs \in Nat /\ MaxBytes \in Nat
  BY <1>2, <1>8, KeptType, LimitsAssumption
<1>10. /\ Len(d.gops) = Len(c.gops) - m /\ Len(e.gops) = Len(d.gops) - n
       /\ e.bytes <= d.bytes /\ ~(d.bytes > MaxBytes /\ Len(d.gops) > 1)
  BY <1>4, <1>6 DEF After, OverBytes
<1>11. Len(d.gops) <= MaxGOPs /\ Len(e.gops) <= Len(d.gops)
  BY <1>2, <1>9, <1>10
<1>12. Limited(d) /\ Limited(e)
  BY <1>9, <1>10, <1>11 DEF Limited
<1> QED BY <1>7, <1>8, <1>12

-----------------------------------------------------------------------------
(* Adding a GOP *)

LEMMA WholePart == ASSUME NEW o, Whole(o) PROVE Part(o, o)
<1>1. o \in Seq(Frame) /\ o # <<>> /\ Sorted(o)
  BY DEF Whole
<1>2. 1 \in DOMAIN o
  BY <1>1
<1>3. o[1] \in Members(o)
  BY <1>2 DEF Members
<1>4. RefsKept(o, o)
  BY IdsOf DEF RefsKept
<1> QED BY <1>1, <1>3, <1>4 DEF Part

\* The current GOP of the detector, ready to be closed.
Closing(g, n) ==
  /\ g \in GOP /\ Whole(g.frames) /\ g.id = n
  /\ g.pCount = Len(Where(g.frames, IsP)) /\ g.bCount = Len(Where(g.frames, IsB))
  /\ g.totalSize = Bytes(Where(g.frames, NotKeyframe))

Fields(p, q, r, s) == [gops |-> p, index |-> q, bytes |-> r, newest |-> s]
WithAll(b, p, q, r, s) == [b EXCEPT !.gops = p, !.index = q, !.bytes = r, !.newest = s]

LEMMA WithFields ==
  ASSUME NEW b, IsBuffer(b), NEW p, NEW q, NEW r, NEW s
  PROVE  WithAll(b, p, q, r, s) = Fields(p, q, r, s)
<1> DEFINE x == b.gops
           y == b.index
           z == b.bytes
           v == b.newest
           c == [b EXCEPT !.gops = p]
           d == [c EXCEPT !.index = q]
           e == [d EXCEPT !.bytes = r]
<1>0. b = [gops |-> x, index |-> y, bytes |-> z, newest |-> v]
  BY DEF IsBuffer
<1> HIDE DEF x, y, z, v
<1>1. c = [gops |-> p, index |-> y, bytes |-> z, newest |-> v]
  BY <1>0
<1>2. [b EXCEPT !.gops = p, !.index = q, !.bytes = r, !.newest = s] = [e EXCEPT !.newest = s]
  OBVIOUS
<1> HIDE DEF c
<1>3. d = [gops |-> p, index |-> q, bytes |-> z, newest |-> v]
  BY <1>1
<1> HIDE DEF d
<1>4. e = [gops |-> p, index |-> q, bytes |-> r, newest |-> v]
  BY <1>3
<1> HIDE DEF e
<1>5. [e EXCEPT !.newest = s] = [gops |-> p, index |-> q, bytes |-> r, newest |-> s]
  BY <1>4
<1> QED BY <1>2, <1>5 DEF WithAll, Fields

LEMMA AddKept ==
  ASSUME NEW O, Origins(O), NEW b, Kept(b, O), NEW g, Closing(g, Len(O) + 1), Origins(Append(O, g.frames))
  PROVE  /\ Kept(AddGOP(b, g), Append(O, g.frames)) /\ Limited(AddGOP(b, g))
         /\ Strict(b) => Strict(AddGOP(b, g))
<1> DEFINE o == g.frames
           P == Append(O, o)
           q == Append(b.gops, g)
           ix == Locate(b.index, g.id, o)
           w == IF g.start > b.newest THEN g.start ELSE b.newest
           d == [gops |-> q, index |-> ix, bytes |-> b.bytes + g.totalSize, newest |-> w]
           n == Len(b.gops)
           m == Len(O)
<1>1. IsBuffer(b) /\ Listed(b.gops, O) /\ Indexed(b) /\ b.gops \in Seq(GOP) /\ b.bytes \in Int /\ b.newest \in Nat
  BY DEF Kept, Listed, IsBuffer
<1>2. AddGOP(b, g) = enforceBufferLimits(d)
  <2> DEFINE r == b.bytes + g.totalSize
  <2>1. AddGOP(b, g) = enforceBufferLimits(WithAll(b, q, ix, r, w))
    BY DEF AddGOP, WithAll
  <2>2. WithAll(b, q, ix, r, w) = Fields(q, ix, r, w)
    BY <1>1, WithFields
  <2>3. d = Fields(q, ix, r, w)
    BY DEF Fields
  <2> HIDE DEF q, ix, r, w, d
  <2> QED BY <2>1, <2>2, <2>3
<1>3. /\ g \in GOP /\ g.id = m + 1 /\ g.totalSize \in Int /\ g.start \in Nat /\ o \in Seq(Frame) /\ Sorted(o)
      /\ Whole(o) /\ o # <<>> /\ g.totalSize = Bytes(Where(o, NotKeyframe))
  BY GOPIs DEF Closing, Whole
<1>4. GoodGOP(g, o)
  <2>1. Bytes(Where(o, NotKeyframe)) >= Bytes(Where(o, NotKeyframe))
    BY <1>3
  <2> QED BY <1>3, <2>1, WholePart DEF Closing, GoodGOP, Counted
<1>5. /\ q \in Seq(GOP) /\ Len(q) = n + 1 /\ n \in Nat /\ DOMAIN q = 1..(n + 1) /\ q[n + 1] = g
      /\ DOMAIN b.gops = 1..n /\ \A i \in 1..n : q[i] = b.gops[i]
  BY <1>1, <1>3, AppendProperties
<1>6. /\ Len(P) = m + 1 /\ m \in Nat /\ P[m + 1] = o /\ \A a \in 1..m : P[a] = O[a]
      /\ DOMAIN P = 1..(m + 1) /\ DOMAIN O = 1..m
  BY <1>3, AppendProperties DEF Origins
<1>7. n <= m
  BY <1>1 DEF Listed
<1>8. \A i \in 1..n : b.gops[i].id = m - n + i /\ GoodGOP(b.gops[i], O[b.gops[i].id])
  BY <1>1, <1>5 DEF Listed
<1>9. Located(ix, b.index, g.id, o)
  <2> DEFINE y == b.index
             x == g.id
  <2> HIDE DEF x, y, o
  <2>1. Located(Locate(y, x, o), y, x, o)
    BY <1>3, LocateIs
  <2> QED BY <2>1 DEF x, y
<1>10. d.gops = q /\ d.index = ix /\ d.bytes = b.bytes + g.totalSize /\ d.newest = w
  OBVIOUS
<1>11. IsBuffer(d)
  <2>1. w \in Nat /\ b.bytes + g.totalSize \in Int
    BY <1>1, <1>3
  <2> HIDE DEF q, ix, w
  <2> QED BY <2>1 DEF IsBuffer
<1>12. Strict(b) => Strict(d)
  <2> SUFFICES ASSUME Strict(b) PROVE Strict(d)
    OBVIOUS
  <2>1. ~Rewritten(g)
    BY <1>3 DEF Rewritten
  <2>2. Plain(q)
    <3> SUFFICES ASSUME NEW i \in 1..(n + 1) PROVE ~Rewritten(q[i])
      BY <1>5 DEF Plain
    <3>1. i \in 1..n \/ i = n + 1
      BY <1>5
    <3> HIDE DEF q, n
    <3>2. CASE i \in 1..n
      BY <1>5, <3>2 DEF Strict, Plain
    <3>3. CASE i = n + 1
      BY <1>5, <2>1, <3>3
    <3> QED BY <3>1, <3>2, <3>3
  <2>3. GOPBytes(q) = GOPBytes(b.gops) + g.totalSize
    BY <1>1, <1>3, TotalAppend
  <2> QED BY <1>10, <2>2, <2>3 DEF Strict
<1> HIDE DEF o, P, q, ix, w, d, n, m
<1>13. Listed(q, P)
  <2> SUFFICES ASSUME NEW i \in 1..(n + 1) PROVE q[i].id = Len(P) - Len(q) + i /\ GoodGOP(q[i], P[q[i].id])
    BY <1>5, <1>6, <1>7 DEF Listed
  <2>1. CASE i \in 1..n
    <3>1. q[i].id = m - n + i /\ GoodGOP(q[i], O[q[i].id])
      BY <1>5, <1>8, <2>1
    <3>2. m - n + i \in 1..m /\ m - n + i = (m + 1) - (n + 1) + i
      BY <1>5, <1>6, <1>7, <2>1
    <3>3. P[q[i].id] = O[q[i].id]
      BY <1>6, <3>1, <3>2
    <3> QED BY <1>5, <1>6, <3>1, <3>2, <3>3
  <2>2. CASE i = n + 1
    <3>1. q[i] = g /\ g.id = m + 1 /\ m + 1 = (m + 1) - (n + 1) + i
      BY <1>3, <1>5, <1>6, <2>2
    <3> QED BY <1>4, <1>5, <1>6, <3>1
  <2> QED BY <1>5, <2>1, <2>2
<1>14. \A i \in 1..n : Ids(q[i].frames) \cap Ids(o) = {}
  <2> SUFFICES ASSUME NEW i \in 1..n PROVE Ids(q[i].frames) \cap Ids(o) = {}
    OBVIOUS
  <2>1. \A k, j \in DOMAIN q : k # j => Ids(q[k].frames) \cap Ids(q[j].frames) = {}
    BY <1>13, ListedApart DEF P, o
  <2>2. i \in DOMAIN q /\ n + 1 \in DOMAIN q /\ i # n + 1 /\ q[n + 1].frames = o
    BY <1>5 DEF o
  <2>3. Ids(q[i].frames) \cap Ids(q[n + 1].frames) = {}
    BY <2>1, <2>2
  <2> QED BY <2>2, <2>3
<1>15. DOMAIN ix = UNION {Ids(q[i].frames) : i \in DOMAIN q}
  <2>1. DOMAIN ix = DOMAIN b.index \cup Ids(o)
    BY <1>9 DEF Located
  <2>2. DOMAIN b.index = UNION {Ids(b.gops[i].frames) : i \in 1..n}
    BY <1>1, <1>5 DEF Indexed
  <2>3. q[n + 1].frames = o /\ n + 1 \in DOMAIN q /\ 1..n \subseteq DOMAIN q
    BY <1>5 DEF o
  <2>4. DOMAIN q \subseteq (1..n) \cup {n + 1}
    BY <1>5
  <2>5. ASSUME NEW i \in DOMAIN q PROVE Ids(q[i].frames) \subseteq DOMAIN ix
    <3>1. i \in 1..n \/ i = n + 1
      BY <2>4
    <3>2. CASE i \in 1..n
      BY <1>5, <2>1, <2>2, <3>2
    <3>3. CASE i = n + 1
      BY <2>1, <2>3, <3>3
    <3> QED BY <3>1, <3>2, <3>3
  <2>6. ASSUME NEW x \in DOMAIN ix PROVE \E i \in DOMAIN q : x \in Ids(q[i].frames)
    <3>1. CASE x \in Ids(o)
      BY <2>3, <3>1
    <3>2. CASE x \in DOMAIN b.index
      <4>1. PICK i \in 1..n : x \in Ids(b.gops[i].frames)
        BY <2>2, <3>2
      <4> QED BY <1>5, <2>3, <4>1
    <3> QED BY <2>1, <3>1, <3>2
  <2> QED BY <2>5, <2>6
<1>16. ASSUME NEW i \in DOMAIN q, NEW p \in DOMAIN q[i].frames
       PROVE  ix[q[i].frames[p].id] = [gop |-> q[i].id, pos |-> p]
  <2>1. i \in 1..n \/ i = n + 1
    BY <1>5
  <2>2. CASE i = n + 1
    BY <1>5, <1>9, <2>2 DEF Located, o
  <2>3. CASE i \in 1..n
    <3> DEFINE x == q[i].frames[p].id
    <3>1. q[i] = b.gops[i] /\ i \in DOMAIN b.gops
      BY <1>5, <2>3
    <3>2. x \in Ids(q[i].frames)
      BY DEF Ids
    <3>3. x \in DOMAIN b.index /\ b.index[x] = [gop |-> q[i].id, pos |-> p]
      BY <1>1, <3>1, <3>2 DEF Indexed
    <3>4. x \notin Ids(o)
      BY <1>14, <2>3, <3>2
    <3> HIDE DEF x
    <3>5. ix[x] = b.index[x]
      BY <1>9, <3>3, <3>4 DEF Located
    <3> QED BY <3>3, <3>5 DEF x
  <2> QED BY <2>1, <2>2, <2>3
<1>17. Kept(d, P)
  BY <1>10, <1>11, <1>13, <1>15, <1>16 DEF Kept, Indexed
<1>18. Origins(P)
  BY DEF P, o
<1> QED BY <1>2, <1>12, <1>17, <1>18, EnforceKept DEF P, o

-----------------------------------------------------------------------------
(* Giving up frames *)

\* d is what a drop leaves of b.
Less(d, b, O) ==
  /\ Kept(d, O) /\ Len(d.gops) <= Len(b.gops) /\ d.bytes <= b.bytes
  /\ Strict(b) /\ Plain(d.gops) => Strict(d)

LEMMA ReduceLess ==
  ASSUME NEW O, Origins(O), NEW b, Kept(b, O), NEW i \in DOMAIN b.gops,
         NEW g, GoodGOP(g, O[g.id]), g.id = b.gops[i].id, NEW K, g.frames = Lane(b.gops[i].frames, K)
  PROVE  /\ Less(Reduce(b, i, g), b, O)
         /\ Reduce(b, i, g).gops = [b.gops EXCEPT ![i] = g]
         /\ Strict(b) /\ ~Rewritten(g) => Strict(Reduce(b, i, g))
<1> DEFINE d == Reduce(b, i, g)
           h == b.gops[i]
           s == h.frames
           k == g.frames
           o == O[g.id]
           q == b.gops
<1>1. /\ Kept(d, O) /\ d.gops = [q EXCEPT ![i] = g] /\ d.bytes = b.bytes - Bytes(Gone(s, k))
      /\ d.bytes <= b.bytes
  BY ReduceKept
<1>2. Listed(q, O) /\ q \in Seq(GOP) /\ b.bytes \in Int
  BY KeptType DEF Kept
<1>3. GoodGOP(h, O[h.id]) /\ h \in GOP /\ Whole(o)
  <2>1. Whole(O[q[i].id])
    BY <1>2, ListedApart
  <2> QED BY <1>2, <2>1 DEF Listed
<1>4. /\ s \in Seq(Frame) /\ Sorted(s) /\ Members(s) \subseteq Members(o) /\ g \in GOP /\ Part(k, o)
      /\ k = Lane(s, K)
  BY <1>3 DEF GoodGOP, Part
<1>5. g.totalSize \in Int /\ h.totalSize \in Int /\ GOPBytes(q) \in Int
  BY <1>2, <1>3, <1>4, GOPIs, TotalType
<1>6. GOPBytes([q EXCEPT ![i] = g]) = GOPBytes(q) - h.totalSize + g.totalSize
  BY <1>2, <1>4, TotalExcept
<1>7. k \in Seq(Frame) /\ Gone(s, k) \in Seq(Frame) /\ Members(k) = Members(s) \cap K
  <2> HIDE DEF s, k
  <2> QED BY <1>4, KeptIs
<1>8. Bytes(Gone(s, k)) \in Nat /\ Bytes(Where(k, NotKeyframe)) \in Nat /\ Bytes(Where(s, NotKeyframe)) \in Nat
  <2> HIDE DEF s, k
  <2>1. Where(k, NotKeyframe) \in Seq(Frame) /\ Where(s, NotKeyframe) \in Seq(Frame)
    BY <1>4, <1>7, WhereLane, LaneIn
  <2> QED BY <1>7, <2>1, BytesType
<1>9. ASSUME Strict(b), ~Rewritten(g) PROVE Strict(d)
  <2>1. ~Rewritten(h) /\ b.bytes = GOPBytes(q)
    BY <1>9 DEF Strict, Plain
  <2>2. h.totalSize = Bytes(Where(s, NotKeyframe)) /\ g.totalSize = Bytes(Where(k, NotKeyframe)) /\ k # <<>>
    BY <1>9, <2>1 DEF Rewritten
  <2>3. Members(s) \cap Key \subseteq K
    <3>1. o[1] \in Members(k)
      BY <1>4, <2>2 DEF Part
    <3>2. o[1] \in K
      BY <1>7, <3>1
    <3> QED BY <1>3, <1>4, <3>2 DEF Whole
  <2>4. Bytes(Where(s, NotKeyframe)) = Bytes(Where(k, NotKeyframe)) + Bytes(Gone(s, k))
    <3> HIDE DEF s, k
    <3> QED BY <1>4, <2>3, GoneBehind
  <2> DEFINE x == Bytes(Where(s, NotKeyframe))
             y == Bytes(Where(k, NotKeyframe))
             z == Bytes(Gone(s, k))
             t == GOPBytes(q)
  <2>5. x = y + z /\ x \in Nat /\ y \in Nat /\ z \in Nat /\ t \in Int /\ GOPBytes(d.gops) = t - x + y /\ d.bytes = t - z
    BY <1>1, <1>5, <1>6, <1>8, <2>1, <2>2, <2>4
  <2> HIDE DEF x, y, z, t, d
  <2>6. d.bytes = GOPBytes(d.gops)
    BY <2>5
  <2>7. Plain(d.gops)
    <3>1. \A j \in DOMAIN q : ~Rewritten(q[j])
      BY <1>9 DEF Strict, Plain
    <3> HIDE DEF q
    <3> QED BY <1>1, <1>2, <1>9, <3>1 DEF Plain
  <2> QED BY <2>6, <2>7 DEF Strict
<1>10. Len(d.gops) = Len(q)
  BY <1>1, <1>2
<1>11. Plain(d.gops) => ~Rewritten(g)
  <2>1. d.gops[i] = g /\ i \in DOMAIN d.gops
    BY <1>1
  <2> QED BY <2>1 DEF Plain
<1>12. Len(q) \in Nat
  BY <1>2
<1> HIDE DEF d
<1>13. Less(d, b, O)
  BY <1>1, <1>9, <1>10, <1>11, <1>12 DEF Less
<1> QED BY <1>1, <1>9, <1>13 DEF d

\* d is b with only the frames k left of GOP number i.
Pruned(d, b, O, i, k) ==
  /\ Less(d, b, O) /\ (Strict(b) => Strict(d)) /\ Len(d.gops) = Len(b.gops) /\ d.gops[i].frames = k
  /\ \A j \in DOMAIN b.gops : j # i => d.gops[j] = b.gops[j]

\* Taking frames behind the keyframe out of a GOP.
LEMMA PruneLess ==
  ASSUME NEW O, Origins(O), NEW b, Kept(b, O), NEW i \in DOMAIN b.gops, NEW K, Key \subseteq K,
         NEW k, k = Lane(b.gops[i].frames, K), RefsKept(k, O[b.gops[i].id])
  PROVE  Pruned(Prune(b, i, k), b, O, i, k)
<1> DEFINE h == b.gops[i]
           s == h.frames
           o == O[h.id]
           r == Gone(s, k)
           z == h.totalSize - Bytes(r)
           g == Without(h, k, z)
           x == Bytes(Where(s, NotKeyframe))
           y == Bytes(Where(k, NotKeyframe))
<1>1. Listed(b.gops, O) /\ b.gops \in Seq(GOP)
  BY KeptType DEF Kept
<1>2. GoodGOP(h, o) /\ Whole(o)
  <2>1. Whole(O[b.gops[i].id])
    BY <1>1, ListedApart
  <2> QED BY <1>1, <2>1 DEF Listed
<1>3. Prune(b, i, k) = Reduce(b, i, g)
  BY DEF Prune
<1>4. h \in GOP /\ Part(s, o) /\ s \in Seq(Frame) /\ Sorted(s) /\ Members(s) \subseteq Members(o) /\ k = Lane(s, K)
  BY <1>2 DEF GoodGOP, Part
<1> HIDE DEF s, o
<1>5. k \in Seq(Frame) /\ Sorted(k) /\ Members(k) = Members(s) \cap K /\ r \in Seq(Frame)
  BY <1>4, KeptIs
<1>6. k # <<>> => s # <<>>
  BY <1>4, LaneEmpty
<1>7. s # <<>> => o[1] \in Members(k)
  <2>1. s # <<>> => o[1] \in Members(s) /\ o[1] \in Key
    BY <1>2, <1>4 DEF Part, Whole
  <2> QED BY <1>5, <2>1
<1>8. Part(k, o)
  <2>1. RefsKept(k, o)
    BY DEF o
  <2>2. Members(k) \subseteq Members(o)
    BY <1>4, <1>5
  <2> QED BY <1>5, <1>6, <1>7, <2>1, <2>2 DEF Part
<1>9. x = y + Bytes(r)
  BY <1>4, GoneBehind
<1>10. x \in Nat /\ y \in Nat /\ Bytes(r) \in Nat /\ h.totalSize \in Int
  <2>1. Where(k, NotKeyframe) \in Seq(Frame) /\ Where(s, NotKeyframe) \in Seq(Frame)
    BY <1>4, <1>5, WhereLane, LaneIn
  <2> QED BY <1>4, <1>5, <2>1, BytesType, GOPIs
<1>11. h.totalSize >= x
  BY <1>2 DEF GoodGOP, Counted, s
<1>12. z \in Int /\ z >= y /\ (h.totalSize = x => z = y)
  <2> DEFINE t == h.totalSize
             u == Bytes(r)
  <2> HIDE DEF t, u, x, y
  <2>1. z = t - u
    BY DEF t, u
  <2> HIDE DEF z
  <2> QED BY <1>9, <1>10, <1>11, <2>1 DEF t, u
<1>13. GoodGOP(g, o) /\ g.id = h.id /\ g.frames = k /\ g.totalSize = z
  <2>1. k = Lane(h.frames, K)
    OBVIOUS
  <2> HIDE DEF h, z
  <2>2. Reduced(g, h, o, k, z)
    BY <1>2, <1>8, <1>12, <2>1, WithoutGood
  <2> HIDE DEF g
  <2> QED BY <2>2 DEF Reduced
<1>14. Strict(b) => ~Rewritten(g)
  <2> SUFFICES ASSUME Strict(b) PROVE ~Rewritten(g)
    OBVIOUS
  <2>1. ~Rewritten(h)
    BY DEF Strict, Plain
  <2>2. s # <<>> /\ h.totalSize = x
    BY <2>1 DEF Rewritten, s
  <2>3. k # <<>>
    BY <1>7, <2>2, NoMembers
  <2> HIDE DEF g
  <2>4. g.totalSize = y
    BY <1>12, <1>13, <2>2
  <2> QED BY <1>13, <2>3, <2>4 DEF Rewritten
<1>15. /\ Less(Reduce(b, i, g), b, O) /\ Reduce(b, i, g).gops = [b.gops EXCEPT ![i] = g]
       /\ Strict(b) /\ ~Rewritten(g) => Strict(Reduce(b, i, g))
  <2>1. GoodGOP(g, O[g.id]) /\ g.id = b.gops[i].id /\ g.frames = Lane(b.gops[i].frames, K)
    BY <1>13 DEF o
  <2> HIDE DEF g
  <2> QED BY <2>1, ReduceLess
<1> HIDE DEF g
<1> DEFINE q == [b.gops EXCEPT ![i] = g]
<1>16. Len(q) = Len(b.gops) /\ q[i] = g /\ \A j \in DOMAIN b.gops : j # i => q[j] = b.gops[j]
  BY <1>1
<1> HIDE DEF q
<1>17. Prune(b, i, k).gops = q
  BY <1>3, <1>15 DEF q
<1> QED BY <1>3, <1>13, <1>14, <1>15, <1>16, <1>17 DEF Pruned

\* B frames are no references.
LEMMA PruneBLess ==
  ASSUME NEW O, Origins(O), NEW b, Kept(b, O), NEW i \in DOMAIN b.gops
  PROVE  /\ Less(PruneB(b, i), b, O) /\ (Strict(b) => Strict(PruneB(b, i)))
         /\ Len(PruneB(b, i).gops) = Len(b.gops)
         /\ Members(PruneB(b, i).gops[i].frames) \cap Typed({"B"}) = {}
         /\ \A j \in DOMAIN b.gops : j # i => PruneB(b, i).gops[j] = b.gops[j]
<1> DEFINE s == b.gops[i].frames
           o == O[b.gops[i].id]
           K == Typed({"I", "P", "M"})
           k == Lane(s, K)
<1>1. Listed(b.gops, O) /\ Whole(o)
  BY ListedApart DEF Kept
<1>2. s \in Seq(Frame) /\ Sorted(s) /\ Members(s) \subseteq Members(o) /\ RefsKept(s, o)
  BY <1>1 DEF Listed, GoodGOP, Part
<1>3. PruneB(b, i) = Prune(b, i, k)
  <2>1. Where(s, NotB) = k
    BY <1>2, WhereLane
  <2> QED BY <2>1 DEF PruneB
<1>4. Members(k) = Members(s) \cap K
  BY <1>2, KeptIs
<1>5. RefsKept(k, o)
  <2> SUFFICES ASSUME NEW f \in Members(k), f.type \in {"P", "B"}, NEW r \in Members(o),
                      r.type \in {"I", "P"}, r.id < f.id
               PROVE  r.id \in Ids(k)
    BY DEF RefsKept
  <2>1. r.id \in Ids(s)
    BY <1>2, <1>4 DEF RefsKept
  <2>2. PICK e \in Members(s) : e.id = r.id
    BY <2>1, IdsOf
  <2>3. e = r
    BY <1>1, <1>2, <2>2, SortedApart DEF Whole
  <2>4. r \in Frame
    BY <1>1 DEF Whole, Members
  <2>5. r \in K
    BY <2>4 DEF Typed
  <2>6. r \in Members(k)
    BY <1>4, <2>2, <2>3, <2>5
  <2> QED BY <2>6, IdsOf
<1>6. Key \subseteq K /\ K \cap Typed({"B"}) = {}
  BY DEF Key, Typed
<1> HIDE DEF K
<1>7. k = Lane(b.gops[i].frames, K) /\ RefsKept(k, O[b.gops[i].id])
  BY <1>5
<1> HIDE DEF k, o
<1>8. Pruned(Prune(b, i, k), b, O, i, k)
  BY <1>6, <1>7, PruneLess
<1> QED BY <1>3, <1>4, <1>6, <1>8 DEF Pruned

Pruning(r, b, n) == IF n = 0 THEN b ELSE PruneB(r[n - 1], n)

LEMMA PruningUpTo ==
  ASSUME NEW b, NEW k \in Nat
  PROVE  \E r : r = [n \in 0..k |-> Pruning(r, b, n)]
<1> DEFINE Fine == {m \in Nat : \E r : r = [n \in 0..m |-> Pruning(r, b, n)]}
<1>1. 0 \in Fine
  <2> DEFINE r == [n \in 0..0 |-> b]
  <2>1. r = [n \in 0..0 |-> Pruning(r, b, n)]
    BY DEF Pruning
  <2> QED BY <2>1
<1>2. ASSUME NEW m \in Nat, m \in Fine PROVE m + 1 \in Fine
  <2>1. PICK r : r = [n \in 0..m |-> Pruning(r, b, n)]
    BY <1>2
  <2> DEFINE h == [n \in 0..(m + 1) |-> Pruning(r, b, n)]
  <2>2. \A n \in 0..m : h[n] = r[n]
    BY <2>1
  <2>3. ASSUME NEW n \in 0..(m + 1) PROVE Pruning(r, b, n) = Pruning(h, b, n)
    <3>1. n # 0 => n - 1 \in 0..m
      OBVIOUS
    <3> HIDE DEF h
    <3> QED BY <2>2, <3>1 DEF Pruning
  <2>4. h = [n \in 0..(m + 1) |-> Pruning(h, b, n)]
    BY <2>3
  <2> HIDE DEF h
  <2> QED BY <2>4
<1> HIDE DEF Fine
<1>3. k \in Fine
  BY <1>1, <1>2, SetInduction
<1> QED BY <1>3 DEF Fine

\* The n oldest GOPs have no B frame left.
NoB(gops, n) == \A j \in 1..n : Members(gops[j].frames) \cap Typed({"B"}) = {}

\* d is b with the B frames of its n oldest GOPs dropped.
Thinned(d, b, O, n) ==
  /\ Less(d, b, O) /\ (Strict(b) => Strict(d)) /\ Len(d.gops) = Len(b.gops) /\ NoB(d.gops, n)

LEMMA LessLess ==
  ASSUME NEW O, NEW b, NEW c, NEW d, Kept(b, O), Less(c, b, O), Less(d, c, O)
  PROVE  Kept(d, O) /\ Len(d.gops) <= Len(b.gops) /\ d.bytes <= b.bytes
<1>1. Kept(c, O) /\ Kept(d, O)
  BY DEF Less
<1>2. /\ Len(b.gops) \in Nat /\ Len(c.gops) \in Nat /\ Len(d.gops) \in Nat
      /\ b.bytes \in Int /\ c.bytes \in Int /\ d.bytes \in Int
  BY <1>1, KeptType
<1>3. Len(c.gops) <= Len(b.gops) /\ c.bytes <= b.bytes /\ Len(d.gops) <= Len(c.gops) /\ d.bytes <= c.bytes
  BY DEF Less
<1> QED BY <1>1, <1>2, <1>3

LEMMA dropBFramesLess ==
  ASSUME NEW O, Origins(O), NEW b, Kept(b, O), NEW count \in Nat
  PROVE  /\ Less(dropBFrames(b, count), b, O) /\ (Strict(b) => Strict(dropBFrames(b, count)))
         /\ Len(dropBFrames(b, count).gops) = Len(b.gops)
         /\ count = Len(b.gops) => NoB(dropBFrames(b, count).gops, count)
<1>0. Len(b.gops) \in Nat /\ b.bytes \in Int
  BY KeptType
<1> DEFINE k == Min({count, Len(b.gops)})
           r == CHOOSE h : h = [n \in 0..k |-> Pruning(h, b, n)]
<1>1. k \in {count, Len(b.gops)} /\ k <= Len(b.gops)
  <2> DEFINE S == {count, Len(b.gops)}
  <2>1. S \in SUBSET Nat /\ S # {} /\ Len(b.gops) \in S
    BY <1>0
  <2> HIDE DEF S
  <2>2. Min(S) \in S /\ Min(S) <= Len(b.gops)
    BY <2>1, MinIn
  <2> QED BY <2>2 DEF S
<1>2. dropBFrames(b, count) = r[k]
  BY DEF dropBFrames, Pruning
<1>3. k \in Nat /\ (count = Len(b.gops) => k = count)
  BY <1>0, <1>1
<1> HIDE DEF k
<1>4. r = [n \in 0..k |-> Pruning(r, b, n)]
  BY <1>3, PruningUpTo
<1> HIDE DEF r
<1> DEFINE Fine == {n \in Nat : n <= k => Thinned(r[n], b, O, n)}
<1>5. 0 \in Fine
  <2>1. r[0] = b
    BY <1>3, <1>4 DEF Pruning
  <2>2. Len(b.gops) <= Len(b.gops) /\ b.bytes <= b.bytes
    BY <1>0
  <2>3. NoB(b.gops, 0)
    BY DEF NoB
  <2> QED BY <2>1, <2>2, <2>3 DEF Thinned, Less
<1>6. ASSUME NEW n \in Nat, n \in Fine PROVE n + 1 \in Fine
  <2> SUFFICES ASSUME n + 1 <= k PROVE Thinned(r[n + 1], b, O, n + 1)
    OBVIOUS
  <2>1. n <= k /\ n + 1 \in 0..k /\ n + 1 # 0 /\ (n + 1) - 1 = n
    BY <1>3
  <2> DEFINE c == r[n]
             d == r[n + 1]
  <2>2. Thinned(c, b, O, n)
    BY <1>6, <2>1
  <2>3. d = PruneB(c, n + 1)
    BY <1>4, <2>1 DEF Pruning
  <2>4. Kept(c, O) /\ Len(c.gops) = Len(b.gops) /\ Less(c, b, O)
    BY <2>2 DEF Thinned, Less
  <2> HIDE DEF c, d
  <2>5. DOMAIN c.gops = 1..Len(b.gops)
    BY <2>4, KeptType
  <2>6. n + 1 \in DOMAIN c.gops /\ 1..(n + 1) \subseteq DOMAIN c.gops
    BY <1>0, <1>1, <1>3, <2>1, <2>5
  <2>7. /\ Less(d, c, O) /\ (Strict(c) => Strict(d)) /\ Len(d.gops) = Len(c.gops)
        /\ Members(d.gops[n + 1].frames) \cap Typed({"B"}) = {}
        /\ \A j \in DOMAIN c.gops : j # n + 1 => d.gops[j] = c.gops[j]
    BY <2>3, <2>4, <2>6, PruneBLess
  <2>8. NoB(d.gops, n + 1)
    <3> SUFFICES ASSUME NEW j \in 1..(n + 1) PROVE Members(d.gops[j].frames) \cap Typed({"B"}) = {}
      BY DEF NoB
    <3>1. CASE j = n + 1
      BY <2>7, <3>1
    <3>2. CASE j # n + 1
      <4>1. j \in 1..n /\ j \in DOMAIN c.gops
        BY <2>6, <3>2
      <4>2. Members(c.gops[j].frames) \cap Typed({"B"}) = {}
        BY <2>2, <4>1 DEF Thinned, NoB
      <4> QED BY <2>7, <3>2, <4>1, <4>2
    <3> QED BY <3>1, <3>2
  <2>9. Strict(b) => Strict(d)
    BY <2>2, <2>7 DEF Thinned
  <2>10. Less(d, b, O)
    BY <2>4, <2>7, <2>9, LessLess DEF Less
  <2> QED BY <2>4, <2>7, <2>8, <2>9, <2>10 DEF Thinned, d
<1> HIDE DEF Fine
<1>7. k \in Fine
  BY <1>3, <1>5, <1>6, SetInduction
<1>8. Thinned(r[k], b, O, k)
  BY <1>3, <1>7 DEF Fine
<1> QED BY <1>2, <1>3, <1>8 DEF Thinned

LEMMA SuffixCons ==
  ASSUME NEW T, NEW s \in Seq(T), NEW m \in 1..Len(s)
  PROVE  /\ SubSeq(s, m + 1, Len(s)) \in Seq(T) /\ s[m] \in T
         /\ SubSeq(s, m, Len(s)) = <<s[m]>> \o SubSeq(s, m + 1, Len(s))
<1> DEFINE n == Len(s)
           a == SubSeq(s, m, n)
           q == SubSeq(s, m + 1, n)
           c == <<s[m]>> \o q
<1>0. n \in Nat /\ m \in 1..n /\ s[m] \in T
  OBVIOUS
<1>1. a \in Seq(T) /\ Len(a) = n - m + 1 /\ \A i \in 1..(n - m + 1) : a[i] = s[m + i - 1]
  <2>1. m \in 1..(Len(s) + 1) /\ n \in (m - 1)..Len(s)
    BY <1>0
  <2> QED BY <2>1, SubSeqIs
<1>2. q \in Seq(T) /\ Len(q) = n - m /\ \A i \in 1..(n - m) : q[i] = s[m + i]
  <2>1. /\ m + 1 \in 1..(Len(s) + 1) /\ n \in ((m + 1) - 1)..Len(s) /\ n - (m + 1) + 1 = n - m
        /\ \A i \in 1..(n - m) : (m + 1) + i - 1 = m + i
    BY <1>0
  <2>2. q \in Seq(T) /\ Len(q) = n - (m + 1) + 1 /\ \A i \in 1..(n - (m + 1) + 1) : q[i] = s[(m + 1) + i - 1]
    <3> DEFINE j == m + 1
    <3>1. j \in 1..(Len(s) + 1) /\ n \in (j - 1)..Len(s)
      BY <2>1
    <3> HIDE DEF j
    <3>2. /\ SubSeq(s, j, n) \in Seq(T) /\ Len(SubSeq(s, j, n)) = n - j + 1
          /\ \A i \in 1..(n - j + 1) : SubSeq(s, j, n)[i] = s[j + i - 1]
      BY <3>1, SubSeqIs
    <3> QED BY <3>2 DEF j
  <2> QED BY <2>1, <2>2
<1> HIDE DEF n, a, q
<1>3. /\ c \in Seq(T) /\ Len(c) = 1 + (n - m)
      /\ \A i \in 1..(1 + (n - m)) : c[i] = IF i <= 1 THEN <<s[m]>>[i] ELSE q[i - 1]
  <2>1. <<s[m]>> \in Seq(T) /\ Len(<<s[m]>>) = 1
    BY <1>0
  <2> QED BY <1>2, <2>1, ConcatProperties
<1> HIDE DEF c
<1>4. ASSUME NEW i \in 1..(n - m + 1) PROVE c[i] = a[i]
  <2>1. i \in 1..(1 + (n - m))
    BY <1>0
  <2>2. CASE i = 1
    <3>1. c[1] = s[m] /\ m + 1 - 1 = m
      BY <1>0, <1>3, <2>1, <2>2
    <3> QED BY <1>1, <2>2, <3>1
  <2>3. CASE i # 1
    <3>1. ~(i <= 1) /\ i - 1 \in 1..(n - m) /\ m + (i - 1) = m + i - 1
      BY <1>0, <2>1, <2>3
    <3>2. c[i] = q[i - 1] /\ q[i - 1] = s[m + (i - 1)]
      BY <1>2, <1>3, <2>1, <3>1
    <3> QED BY <1>1, <3>1, <3>2
  <2> QED BY <2>2, <2>3
<1>5. Len(c) = Len(a)
  BY <1>0, <1>1, <1>3
<1>6. c = a
  BY <1>1, <1>3, <1>4, <1>5
<1> QED BY <1>0, <1>2, <1>6 DEF c, a, q, n

LeavingOf(r, s, i) == IF i = 0 THEN <<>> ELSE KeepUnlessP(s[Len(s) + 1 - i], r[i - 1])

LEMMA LeavingUpTo ==
  ASSUME NEW s, NEW k \in Nat
  PROVE  \E r : r = [n \in 0..k |-> LeavingOf(r, s, n)]
<1> DEFINE Fine == {m \in Nat : \E r : r = [n \in 0..m |-> LeavingOf(r, s, n)]}
<1>1. 0 \in Fine
  <2> DEFINE r == [n \in 0..0 |-> <<>>]
  <2>1. r = [n \in 0..0 |-> LeavingOf(r, s, n)]
    BY DEF LeavingOf
  <2> QED BY <2>1
<1>2. ASSUME NEW m \in Nat, m \in Fine PROVE m + 1 \in Fine
  <2>1. PICK r : r = [n \in 0..m |-> LeavingOf(r, s, n)]
    BY <1>2
  <2> DEFINE h == [n \in 0..(m + 1) |-> LeavingOf(r, s, n)]
  <2>2. \A n \in 0..m : h[n] = r[n]
    BY <2>1
  <2>3. ASSUME NEW n \in 0..(m + 1) PROVE LeavingOf(r, s, n) = LeavingOf(h, s, n)
    <3>1. n # 0 => n - 1 \in 0..m
      OBVIOUS
    <3> HIDE DEF h
    <3> QED BY <2>2, <3>1 DEF LeavingOf
  <2>4. h = [n \in 0..(m + 1) |-> LeavingOf(h, s, n)]
    BY <2>3
  <2> HIDE DEF h
  <2> QED BY <2>4
<1> HIDE DEF Fine
<1>3. k \in Fine
  BY <1>1, <1>2, SetInduction
<1> QED BY <1>3 DEF Fine

\* Without B frames nothing holds a P frame back.
LEMMA NoBNoDependence ==
  ASSUME NEW s \in Seq(Frame), Members(s) \cap Typed({"B"}) = {}
  PROVE  NoBDepends(s)
<1> DEFINE S == {i \in DOMAIN s : s[i].type \in {"I", "P", "B"}}
<1>1. DOMAIN s \subseteq Nat /\ S \in SUBSET Nat /\ S \subseteq DOMAIN s
  OBVIOUS
<1>2. ASSUME S # {} PROVE ~IsB(s[Min(S)])
  <2>1. Min(S) \in S
    BY <1>1, <1>2, MinIn
  <2>2. Min(S) \in DOMAIN s
    BY <1>1, <2>1
  <2> DEFINE j == Min(S)
  <2> HIDE DEF j
  <2>3. s[j] \in Members(s) /\ s[j] \in Frame
    <3>1. j \in DOMAIN s
      BY <2>2 DEF j
    <3> QED BY <3>1 DEF Members
  <2>4. ~IsB(s[j])
    BY <2>3 DEF IsB, Typed
  <2> QED BY <2>4 DEF j
<1> QED BY <1>2 DEF NoBDepends

LEMMA KeepUnlessPIs ==
  ASSUME NEW s \in Seq(Frame), NEW f \in Frame, f \notin Typed({"B"}), NEW l \in Seq(Frame),
         Members(l) \cap Typed({"B"}) = {}, l = Lane(s, Typed({"I", "B", "M"}))
  PROVE  KeepUnlessP(f, l) = Lane(<<f>> \o s, Typed({"I", "B", "M"}))
<1> DEFINE R == Typed({"I", "B", "M"})
<1>1. Lane(<<f>> \o s, R) = IF f \in R THEN <<f>> \o l ELSE l
  <2> HIDE DEF R
  <2>1. l = Lane(s, R)
    BY DEF R
  <2>2. Lane(<<f>> \o s, R) = IF f \in R THEN <<f>> \o Lane(s, R) ELSE Lane(s, R)
    BY LaneCons
  <2> QED BY <2>1, <2>2, Zenon
<1>2. CASE f.type = "P"
  <2>1. KeepUnlessP(f, l) = l
    <3>1. IsP(f) /\ CanDropFrame(f, l)
      BY <1>2, NoBNoDependence DEF IsP, CanDropFrame, IsKeyframe
    <3> QED BY <3>1 DEF KeepUnlessP
  <2>2. f \notin Typed({"I", "B", "M"})
    BY <1>2 DEF Typed
  <2> QED BY <1>1, <2>1, <2>2
<1>3. CASE f.type # "P"
  <2>1. KeepUnlessP(f, l) = <<f>> \o l
    BY <1>3 DEF KeepUnlessP, IsP
  <2>2. f \in Typed({"I", "B", "M"})
    BY <1>3, FrameIs DEF Typed
  <2> QED BY <1>1, <2>1, <2>2
<1> QED BY <1>2, <1>3

LEMMA LeftOfIs ==
  ASSUME NEW s \in Seq(Frame), Members(s) \cap Typed({"B"}) = {}
  PROVE  LeftOf(s) = Lane(s, Typed({"I", "B", "M"}))
<1> DEFINE n == Len(s)
           R == Typed({"I", "B", "M"})
           r == CHOOSE h : h = [i \in 0..n |-> LeavingOf(h, s, i)]
<1>0. n \in Nat /\ DOMAIN s = 1..n
  OBVIOUS
<1>1. r = [i \in 0..n |-> LeavingOf(r, s, i)]
  BY <1>0, LeavingUpTo
<1>2. LeftOf(s) = r[n]
  BY DEF LeftOf, LeavingOf
<1> HIDE DEF r
<1> DEFINE Fine == {i \in Nat : i <= n => r[i] = Lane(SubSeq(s, n + 1 - i, n), R)}
<1>3. 0 \in Fine
  <2>1. r[0] = <<>>
    BY <1>0, <1>1 DEF LeavingOf
  <2>2. SubSeq(s, n + 1 - 0, n) = <<>>
    <3>1. n + 1 - 0 \in 1..(Len(s) + 1) /\ n \in ((n + 1 - 0) - 1)..Len(s) /\ n - (n + 1 - 0) + 1 = 0
      BY <1>0
    <3> DEFINE e == SubSeq(s, n + 1 - 0, n)
    <3>2. e \in Seq(Frame) /\ Len(e) = n - (n + 1 - 0) + 1
      BY <3>1, SubSeqIs
    <3> HIDE DEF e
    <3>3. e = <<>>
      BY <3>1, <3>2
    <3> QED BY <3>3 DEF e
  <2>3. Lane(<<>>, R) = <<>>
    BY LaneEmpty
  <2>4. r[0] = Lane(SubSeq(s, n + 1 - 0, n), R)
    BY <2>1, <2>2, <2>3
  <2> QED BY <2>4
<1>4. ASSUME NEW i \in Nat, i \in Fine PROVE i + 1 \in Fine
  <2> SUFFICES ASSUME i + 1 <= n PROVE r[i + 1] = Lane(SubSeq(s, n + 1 - (i + 1), n), R)
    OBVIOUS
  <2> DEFINE m == n - i
             q == SubSeq(s, m + 1, n)
             l == Lane(q, R)
  <2>1. /\ i <= n /\ i + 1 \in 0..n /\ i + 1 # 0 /\ (i + 1) - 1 = i /\ m \in 1..n
        /\ n + 1 - i = m + 1 /\ n + 1 - (i + 1) = m
    <3> HIDE DEF n
    <3> QED BY <1>0
  <2>2. r[i] = l
    BY <1>4, <2>1
  <2>3. r[i + 1] = KeepUnlessP(s[m], r[i])
    BY <1>1, <2>1 DEF LeavingOf
  <2> HIDE DEF m
  <2>4. q \in Seq(Frame) /\ s[m] \in Frame /\ SubSeq(s, m, n) = <<s[m]>> \o q
    BY <2>1, SuffixCons
  <2>5. s[m] \in Members(s) /\ s[m] \notin Typed({"B"})
    <3>1. s[m] \in Members(s)
      BY <1>0, <2>1 DEF Members
    <3> QED BY <3>1
  <2>6. Members(q) \subseteq Members(s)
    <3>1. m + 1 \in 1..(Len(s) + 1) /\ n \in ((m + 1) - 1)..Len(s)
      BY <1>0, <2>1
    <3>2. Len(q) = n - (m + 1) + 1 /\ \A j \in 1..(n - (m + 1) + 1) : q[j] = s[(m + 1) + j - 1]
      BY <3>1, SubSeqIs
    <3> HIDE DEF q, n
    <3>3. ASSUME NEW j \in DOMAIN q PROVE q[j] \in Members(s)
      <4>1. j \in 1..(n - (m + 1) + 1)
        BY <2>4, <3>2
      <4>2. q[j] = s[(m + 1) + j - 1] /\ (m + 1) + j - 1 \in DOMAIN s
        BY <1>0, <2>1, <3>2, <4>1
      <4> QED BY <4>2 DEF Members
    <3> QED BY <3>3 DEF Members
  <2> HIDE DEF q
  <2>7. l \in Seq(Frame) /\ Members(l) \cap Typed({"B"}) = {}
    BY <2>4, <2>6, LaneIn, LaneMembers
  <2>8. KeepUnlessP(s[m], l) = Lane(<<s[m]>> \o q, R)
    <3> DEFINE f == s[m]
    <3> HIDE DEF f, l
    <3>1. f \in Frame /\ f \notin Typed({"B"}) /\ l = Lane(q, Typed({"I", "B", "M"}))
      BY <2>4, <2>5 DEF f, l
    <3>2. KeepUnlessP(f, l) = Lane(<<f>> \o q, Typed({"I", "B", "M"}))
      BY <2>4, <2>7, <3>1, KeepUnlessPIs
    <3> QED BY <3>2 DEF f
  <2> HIDE DEF l, R, n
  <2>9. r[i + 1] = Lane(SubSeq(s, m, n), R)
    BY <2>2, <2>3, <2>4, <2>8
  <2> QED BY <2>1, <2>9
<1> HIDE DEF Fine
<1>5. n \in Fine
  BY <1>0, <1>3, <1>4, SetInduction
<1>6. r[n] = Lane(SubSeq(s, n + 1 - n, n), R)
  BY <1>0, <1>5 DEF Fine
<1>7. SubSeq(s, n + 1 - n, n) = s
  <2>1. n + 1 - n = 1 /\ SubSeq(s, 1, Len(s)) = s
    BY <1>0
  <2> QED BY <2>1
<1> QED BY <1>2, <1>6, <1>7

\* What is listed of one GOP.
LEMMA ListedGOP ==
  ASSUME NEW O, Origins(O), NEW b, Kept(b, O), NEW i \in DOMAIN b.gops
  PROVE  /\ b.gops[i] \in GOP /\ GoodGOP(b.gops[i], O[b.gops[i].id]) /\ Whole(O[b.gops[i].id])
         /\ Part(b.gops[i].frames, O[b.gops[i].id])
         /\ b.gops[i].frames \in Seq(Frame) /\ Sorted(b.gops[i].frames)
<1>1. Listed(b.gops, O)
  BY DEF Kept
<1>2. b.gops[i] \in GOP /\ Whole(O[b.gops[i].id])
  BY <1>1, ListedApart
<1>3. GoodGOP(b.gops[i], O[b.gops[i].id])
  BY <1>1 DEF Listed
<1> QED BY <1>2, <1>3 DEF GoodGOP, Part

\* Once the B frames are gone nothing refers to the P frames that are dropped.
LEMMA dropPFramesLess ==
  ASSUME NEW O, Origins(O), NEW b, Kept(b, O), NoB(b.gops, Len(b.gops))
  PROVE  Less(dropPFrames(b), b, O) /\ (Strict(b) => Strict(dropPFrames(b)))
<1>0. Len(b.gops) \in Nat /\ DOMAIN b.gops = 1..Len(b.gops) /\ (Len(b.gops) = 0 <=> b.gops = <<>>) /\ b.bytes \in Int
  BY KeptType
<1>1. CASE b.gops = <<>>
  <2>1. dropPFrames(b) = b
    BY <1>1 DEF dropPFrames
  <2>2. Len(b.gops) <= Len(b.gops) /\ b.bytes <= b.bytes
    BY <1>0
  <2> QED BY <2>1, <2>2 DEF Less
<1>2. CASE b.gops # <<>>
  <2> DEFINE s == b.gops[1].frames
             o == O[b.gops[1].id]
             K == Typed({"I", "B", "M"})
             k == Lane(s, K)
  <2>1. 1 \in DOMAIN b.gops /\ 1 \in 1..Len(b.gops)
    BY <1>0, <1>2
  <2>2. s \in Seq(Frame) /\ Sorted(s)
    BY <2>1, ListedGOP
  <2>3. Members(s) \cap Typed({"B"}) = {}
    BY <2>1 DEF NoB
  <2>4. dropPFrames(b) = Prune(b, 1, k)
    <3>1. LeftOf(s) = k
      BY <2>2, <2>3, LeftOfIs
    <3> QED BY <1>2, <3>1 DEF dropPFrames
  <2>5. Members(k) = Members(s) \cap K
    BY <2>2, LaneMembers
  <2>6. RefsKept(k, o)
    <3> SUFFICES ASSUME NEW f \in Members(k), f.type \in {"P", "B"} PROVE FALSE
      BY DEF RefsKept
    <3>1. f \in Members(s) /\ f \in Frame /\ f.type \in {"I", "B", "M"}
      BY <2>5 DEF Typed
    <3>2. f.type = "B"
      BY <3>1
    <3> QED BY <2>3, <3>1, <3>2 DEF Typed
  <2>7. Key \subseteq K
    BY DEF Key, Typed
  <2>8. k = Lane(b.gops[1].frames, K) /\ RefsKept(k, O[b.gops[1].id])
    BY <2>6
  <2> HIDE DEF k, K, s, o
  <2>9. Pruned(Prune(b, 1, k), b, O, 1, k)
    BY <2>1, <2>7, <2>8, PruneLess
  <2> QED BY <2>4, <2>9 DEF Pruned
<1> QED BY <1>1, <1>2

LEMMA KeepKeyframesLess ==
  ASSUME NEW O, Origins(O), NEW b, Kept(b, O), NEW i \in DOMAIN b.gops
  PROVE  Less(KeepKeyframes(b, i), b, O)
<1> DEFINE h == b.gops[i]
           s == h.frames
           o == O[h.id]
           k == Lane(s, Key)
           z == IF k = <<>> THEN 0 ELSE k[1].size
           g == [id |-> h.id, frames |-> k, totalSize |-> z, pCount |-> 0, bCount |-> 0, start |-> h.start]
<1>1. h \in GOP /\ GoodGOP(h, o) /\ Whole(o) /\ Part(s, o) /\ s \in Seq(Frame) /\ Sorted(s)
  BY ListedGOP
<1>2. KeepKeyframes(b, i) = Reduce(b, i, g)
  <2>1. Where(s, IsKeyframe) = k
    BY <1>1, WhereLane DEF Key
  <2> DEFINE e == [h EXCEPT !.frames = k, !.totalSize = z, !.pCount = 0, !.bCount = 0]
  <2>2. KeepKeyframes(b, i) = Reduce(b, i, e)
    BY <2>1 DEF KeepKeyframes
  <2>3. e = g
    <3> DEFINE a1 == h.id
               a2 == h.frames
               a3 == h.totalSize
               a4 == h.pCount
               a5 == h.bCount
               a6 == h.start
    <3>1. h = [id |-> a1, frames |-> a2, totalSize |-> a3, pCount |-> a4, bCount |-> a5, start |-> a6]
      BY <1>1, GOPIs
    <3> HIDE DEF h, a1, a2, a3, a4, a5, a6, k, z
    <3> DEFINE e1 == [h EXCEPT !.frames = k]
               e2 == [e1 EXCEPT !.totalSize = z]
               e3 == [e2 EXCEPT !.pCount = 0]
    <3>2. e1 = [id |-> a1, frames |-> k, totalSize |-> a3, pCount |-> a4, bCount |-> a5, start |-> a6]
      BY <3>1
    <3>3. e = [e3 EXCEPT !.bCount = 0]
      OBVIOUS
    <3> HIDE DEF e1, e
    <3>5. e2 = [id |-> a1, frames |-> k, totalSize |-> z, pCount |-> a4, bCount |-> a5, start |-> a6]
      BY <3>2
    <3> HIDE DEF e2
    <3>6. e3 = [id |-> a1, frames |-> k, totalSize |-> z, pCount |-> 0, bCount |-> a5, start |-> a6]
      BY <3>5
    <3> HIDE DEF e3
    <3>4. e = [id |-> a1, frames |-> k, totalSize |-> z, pCount |-> 0, bCount |-> 0, start |-> a6]
      BY <3>3, <3>6
    <3> QED BY <3>4 DEF a1, a6
  <2> QED BY <2>2, <2>3
<1>3. g.id = h.id /\ g.frames = k /\ g.totalSize = z /\ g.pCount = 0 /\ g.bCount = 0
  OBVIOUS
<1> HIDE DEF s, o
<1>4. k \in Seq(Frame) /\ Sorted(k) /\ Members(k) = Members(s) \cap Key
  BY <1>1, KeptIs
<1>5. z \in Nat
  <2>1. k # <<>> => k[1] \in Frame
    BY <1>4
  <2> QED BY <2>1, FrameIs
<1>6. g \in GOP
  <2>1. h.id \in Nat /\ h.start \in Nat
    BY <1>1, GOPIs
  <2> HIDE DEF k, z, h
  <2> QED BY <1>4, <1>5, <2>1 DEF GOP
<1> HIDE DEF g
<1>7. /\ Where(k, IsP) = <<>> /\ Where(k, IsB) = <<>> /\ Where(k, NotKeyframe) = <<>>
  <2>1. /\ Members(k) \cap Typed({"P"}) = {} /\ Members(k) \cap Typed({"B"}) = {}
        /\ Members(k) \cap Typed({"P", "B", "M"}) = {}
    <3> HIDE DEF k
    <3> QED BY <1>4 DEF Key, Typed
  <2> HIDE DEF k
  <2> QED BY <1>4, <2>1, WhereLane, LaneNone
<1>8. Part(k, o)
  <2>1. RefsKept(k, o)
    <3> SUFFICES ASSUME NEW f \in Members(k), f.type \in {"P", "B"} PROVE FALSE
      BY DEF RefsKept
    <3> HIDE DEF k
    <3> QED BY <1>4 DEF Key, Typed
  <2>2. Members(s) \subseteq Members(o) /\ (s # <<>> => o[1] \in Members(s)) /\ o[1] \in Key
    BY <1>1 DEF Part, Whole
  <2>3. k # <<>> => s # <<>>
    BY LaneEmpty
  <2> HIDE DEF k
  <2> QED BY <1>4, <2>1, <2>2, <2>3 DEF Part
<1>9. Counted(g)
  <2>1. Len(<<>>) = 0 /\ z >= 0
    BY <1>5
  <2> HIDE DEF k, z
  <2> QED BY <1>3, <1>7, <2>1, BytesEmpty DEF Counted
<1>10. GoodGOP(g, O[g.id]) /\ g.id = b.gops[i].id /\ g.frames = Lane(b.gops[i].frames, Key)
  BY <1>3, <1>6, <1>8, <1>9 DEF GoodGOP, o, s
<1>11. Less(Reduce(b, i, g), b, O)
  BY <1>10, ReduceLess
<1> QED BY <1>2, <1>11

LEMMA SameLess == ASSUME NEW O, NEW b, Kept(b, O) PROVE Less(b, b, O)
<1>1. Len(b.gops) \in Nat /\ b.bytes \in Int
  BY KeptType
<1> QED BY <1>1 DEF Less

LEMMA RemoveLess ==
  ASSUME NEW O, Origins(O), NEW b, Kept(b, O), b.gops # <<>>
  PROVE  Less(removeOldestGOP(b), b, O)
<1> DEFINE d == removeOldestGOP(b)
<1>1. After(d, b, O, 1)
  BY RemoveKept
<1> HIDE DEF d
<1>2. Len(b.gops) \in Nat /\ Len(d.gops) = Len(b.gops) - 1
  BY <1>1, KeptType DEF After
<1>3. Len(d.gops) <= Len(b.gops)
  BY <1>2
<1> QED BY <1>1, <1>3 DEF After, Less, d

Keeping(r, b, n) == IF n = 0 THEN b ELSE KeepKeyframes(r[n - 1], n)

\* It runs with one GOP or none.
LEMMA dropAllLess ==
  ASSUME NEW O, Origins(O), NEW b, Kept(b, O), ~(Len(b.gops) > 1)
  PROVE  Less(dropAllNonKeyframes(b), b, O)
<1> DEFINE n == Len(b.gops)
           r == CHOOSE h : h = [i \in 0..n |-> Keeping(h, b, i)]
<1>0. n \in Nat /\ DOMAIN b.gops = 1..n
  BY KeptType
<1>1. n \in {0, 1}
  <2>1. ~(n > 1)
    OBVIOUS
  <2> HIDE DEF n
  <2> QED BY <1>0, <2>1
<1>2. dropAllNonKeyframes(b) = r[n]
  BY DEF dropAllNonKeyframes, Keeping
<1>3. \E h : h = [i \in 0..n |-> Keeping(h, b, i)]
  <2> HIDE DEF n
  <2> DEFINE h == [i \in 0..n |-> IF i = 0 THEN b ELSE KeepKeyframes(b, 1)]
  <2>1. h[0] = b
    BY <1>1
  <2>2. ASSUME NEW i \in 0..n PROVE h[i] = Keeping(h, b, i)
    <3>1. i = 0 \/ (i = 1 /\ i - 1 = 0)
      BY <1>1
    <3> QED BY <2>1, <3>1 DEF Keeping
  <2>3. h = [i \in 0..n |-> h[i]]
    OBVIOUS
  <2> HIDE DEF h
  <2>4. h = [i \in 0..n |-> Keeping(h, b, i)]
    BY <2>2, <2>3
  <2> QED BY <2>4
<1>4. r = [i \in 0..n |-> Keeping(r, b, i)]
  BY <1>3
<1> HIDE DEF r
<1>5. CASE n = 0
  <2>1. r[0] = b
    BY <1>4, <1>5 DEF Keeping
  <2> QED BY <1>2, <1>5, <2>1, SameLess
<1>6. CASE n = 1
  <2>1. 0 \in 0..1 /\ 1 \in 0..1 /\ 1 - 1 = 0
    OBVIOUS
  <2>2. r[0] = b /\ r[1] = KeepKeyframes(r[0], 1)
    BY <1>4, <1>6, <2>1 DEF Keeping
  <2>3. 1 \in DOMAIN b.gops
    BY <1>0, <1>6
  <2> QED BY <1>2, <1>6, <2>2, <2>3, KeepKeyframesLess
<1> QED BY <1>1, <1>5, <1>6

LEMMA PressureLess ==
  ASSUME NEW O, Origins(O), NEW b, Kept(b, O), NEW p \in Nat
  PROVE  Less(DropFramesForPressure(b, p), b, O)
<1>0. Len(b.gops) \in Nat /\ DOMAIN b.gops = 1..Len(b.gops) /\ (Len(b.gops) = 0 <=> b.gops = <<>>)
  BY KeptType
<1>1. Less(dropBFrames(b, 2), b, O)
  BY dropBFramesLess
<1>2. Less(dropPFrames(dropBFrames(b, Len(b.gops))), b, O)
  <2> DEFINE n == Len(b.gops)
             c == dropBFrames(b, n)
             d == dropPFrames(c)
  <2>1. Less(c, b, O) /\ (Strict(b) => Strict(c)) /\ Len(c.gops) = n /\ NoB(c.gops, n)
    BY <1>0, dropBFramesLess
  <2>2. Kept(c, O)
    BY <2>1 DEF Less
  <2> HIDE DEF c
  <2>3. NoB(c.gops, Len(c.gops))
    BY <2>1
  <2>4. Less(d, c, O) /\ (Strict(c) => Strict(d))
    BY <2>2, <2>3, dropPFramesLess
  <2> HIDE DEF d
  <2>5. Less(d, b, O)
    BY <2>1, <2>4, LessLess DEF Less
  <2> QED BY <2>5 DEF d, c
<1>3. ASSUME ~(Len(b.gops) <= 1) PROVE Less(dropOldGOPs(b, FALSE), b, O) /\ Less(dropOldGOPs(b, TRUE), b, O)
  <2>1. 1 \in DOMAIN b.gops /\ b.gops # <<>>
    BY <1>0, <1>3
  <2> QED BY <1>3, <2>1, KeepKeyframesLess, RemoveLess DEF dropOldGOPs
<1>4. ASSUME Len(b.gops) <= 1 PROVE dropOldGOPs(b, FALSE) = b /\ dropOldGOPs(b, TRUE) = b
  BY <1>4 DEF dropOldGOPs
<1>5. ~(Len(b.gops) > 1) => Less(dropAllNonKeyframes(b), b, O)
  BY dropAllLess
<1>6. Less(b, b, O)
  BY SameLess
<1>7. Less(dropOldGOPs(b, FALSE), b, O) /\ Less(dropOldGOPs(b, TRUE), b, O)
  BY <1>3, <1>4, <1>6
<1> QED BY <1>1, <1>2, <1>5, <1>6, <1>7 DEF DropFramesForPressure

\* What is left of a GOP begins with its keyframe.
LEMMA FirstIsKey ==
  ASSUME NEW o, Whole(o), NEW s, Part(s, o), s # <<>>
  PROVE  s[1] = o[1] /\ 1 \in DOMAIN s
<1>1. /\ s \in Seq(Frame) /\ Sorted(s) /\ Members(s) \subseteq Members(o) /\ o[1] \in Members(s)
      /\ o \in Seq(Frame) /\ Sorted(o) /\ o # <<>>
  BY DEF Part, Whole
<1>2. 1 \in DOMAIN s /\ \A i \in DOMAIN s : i \in Nat /\ s[i] \in Frame /\ (i = 1 \/ 1 < i)
  BY <1>1
<1>3. 1 \in DOMAIN o /\ \A i \in DOMAIN o : i \in Nat /\ o[i] \in Frame /\ (i = 1 \/ 1 < i)
  BY <1>1
<1>4. PICK p \in DOMAIN s : s[p] = o[1]
  BY <1>1 DEF Members
<1>5. s[1] \in Members(o)
  BY <1>1, <1>2 DEF Members
<1>6. PICK q \in DOMAIN o : o[q] = s[1]
  BY <1>5 DEF Members
<1>7. s[1].id \in Nat /\ o[1].id \in Nat
  BY <1>2, <1>3, FrameIs
<1>8. p = 1 \/ s[1].id < s[p].id
  BY <1>1, <1>2 DEF Sorted
<1>9. q = 1 \/ o[1].id < o[q].id
  BY <1>1, <1>3 DEF Sorted
<1>10. p = 1 \/ s[1].id < o[1].id
  BY <1>4, <1>8
<1>11. q = 1 \/ o[1].id < s[1].id
  BY <1>6, <1>9
<1>12. p = 1 \/ q = 1
  BY <1>7, <1>10, <1>11
<1> QED BY <1>2, <1>4, <1>6, <1>12

LEMMA BehindBytes == ASSUME NEW s \in Seq(Frame) PROVE Bytes(s) >= Bytes(Where(s, NotKeyframe))
<1>1. Bytes(Lane(s, Key \cup Behind)) = Bytes(Lane(s, Key)) + Bytes(Lane(s, Behind))
  <2>1. Key \cap Behind = {}
    BY DEF Key, Behind, Typed
  <2> QED BY <2>1, LaneBytes
<1>2. Lane(s, Key \cup Behind) = s
  <2>1. Members(s) \subseteq Key \cup Behind
    <3> SUFFICES ASSUME NEW i \in DOMAIN s PROVE s[i] \in Key \cup Behind
      BY DEF Members
    <3>1. s[i] \in Frame
      OBVIOUS
    <3> QED BY <3>1, FrameIs DEF Key, Behind, Typed
  <2> QED BY <2>1, LaneAll
<1>3. Where(s, NotKeyframe) = Lane(s, Behind)
  BY WhereLane DEF Behind
<1>4. Bytes(Lane(s, Key)) \in Nat /\ Bytes(Lane(s, Behind)) \in Nat
  BY LaneIn, BytesType
<1> QED BY <1>1, <1>2, <1>3, <1>4

\* A cut takes a frame and everything behind it, so what is left refers to
\* nothing that is gone.
LEMMA CutLess ==
  ASSUME NEW O, Origins(O), NEW b, Kept(b, O), NEW i \in DOMAIN b.gops, NEW m \in 0..(Len(b.gops[i].frames) - 1)
  PROVE  Less(DropFramesFromGOP(b, i, m), b, O)
<1> DEFINE h == b.gops[i]
           s == h.frames
           o == O[h.id]
           k == SubSeq(s, 1, m)
           K == Members(k)
           z == Bytes(k)
           g == Without(h, k, z)
<1>1. h \in GOP /\ GoodGOP(h, o) /\ Whole(o) /\ Part(s, o) /\ s \in Seq(Frame) /\ Sorted(s)
  BY ListedGOP
<1>2. DropFramesFromGOP(b, i, m) = Reduce(b, i, g)
  BY DEF DropFramesFromGOP
<1>3. m \in 0..Len(s) /\ m \in Nat /\ Len(s) \in Nat
  BY <1>1
<1> HIDE DEF s, o
<1>4. k \in Seq(Frame) /\ Len(k) = m /\ (\A j \in 1..m : k[j] = s[j]) /\ k = Lane(s, K)
  <2>1. IsInjective(s)
    BY <1>1, SortedApart
  <2> QED BY <1>1, <1>3, <2>1, PrefixLane
<1> HIDE DEF k
<1>5. DOMAIN k = 1..m /\ 1..m \subseteq DOMAIN s /\ DOMAIN s = 1..Len(s)
  BY <1>1, <1>3, <1>4
<1>6. Sorted(k)
  BY <1>1, <1>4, LaneSorted
<1>7. Members(k) \subseteq Members(s)
  BY <1>4, <1>5 DEF Members
<1>8. k # <<>> => o[1] \in Members(k)
  <2> SUFFICES ASSUME k # <<>> PROVE o[1] \in Members(k)
    OBVIOUS
  <2>1. 1 \in DOMAIN k
    BY <1>4
  <2>2. s # <<>>
    BY <1>5, <2>1
  <2>3. s[1] = o[1]
    BY <1>1, <2>2, FirstIsKey
  <2> QED BY <1>4, <1>5, <2>1, <2>3 DEF Members
<1>9. RefsKept(k, o)
  <2> SUFFICES ASSUME NEW q \in DOMAIN k, k[q].type \in {"P", "B"}, NEW r \in Members(o),
                      r.type \in {"I", "P"}, r.id < k[q].id
               PROVE  r.id \in Ids(k)
    BY DEF RefsKept, Members
  <2>1. k[q] = s[q] /\ q \in DOMAIN s /\ q \in 1..m
    BY <1>4, <1>5
  <2>2. s[q] \in Members(s)
    BY <2>1 DEF Members
  <2>3. r.id \in Ids(s)
    BY <1>1, <2>1, <2>2 DEF Part, RefsKept
  <2>4. PICK p \in DOMAIN s : s[p].id = r.id
    BY <2>3 DEF Ids
  <2>5. s[p] \in Frame /\ s[q] \in Frame /\ p \in Nat /\ q \in Nat
    BY <1>1, <1>5, <2>1
  <2>6. s[p].id \in Nat /\ s[q].id \in Nat /\ s[p].id < s[q].id
    BY <2>1, <2>4, <2>5, FrameIs
  <2>7. q < p => s[q].id < s[p].id
    BY <1>1, <2>1 DEF Sorted
  <2>8. ~(q < p)
    BY <2>6, <2>7
  <2>9. p \in 1..m
    BY <1>3, <1>5, <2>1, <2>5, <2>8
  <2>10. k[p].id = r.id /\ p \in DOMAIN k
    BY <1>4, <1>5, <2>4, <2>9
  <2> QED BY <2>10 DEF Ids
<1>10. Part(k, o)
  <2>1. Members(s) \subseteq Members(o)
    BY <1>1 DEF Part
  <2> QED BY <1>4, <1>6, <1>7, <1>8, <1>9, <2>1 DEF Part
<1>11. z \in Int /\ z >= Bytes(Where(k, NotKeyframe))
  <2>1. z \in Nat
    BY <1>4, BytesType
  <2> QED BY <1>4, <2>1, BehindBytes
<1>12. GoodGOP(g, o) /\ g.id = h.id /\ g.frames = k
  <2>1. k = Lane(h.frames, K)
    BY <1>4 DEF s
  <2>2. GoodGOP(h, o)
    BY <1>1
  <2> HIDE DEF h, z, K
  <2>3. Reduced(g, h, o, k, z)
    BY <1>10, <1>11, <2>1, <2>2, WithoutGood
  <2> HIDE DEF g
  <2> QED BY <2>3 DEF Reduced
<1>13. GoodGOP(g, O[g.id]) /\ g.id = b.gops[i].id /\ g.frames = Lane(b.gops[i].frames, K)
  BY <1>4, <1>12 DEF o, s
<1> HIDE DEF g, K
<1>14. Less(Reduce(b, i, g), b, O)
  BY <1>13, ReduceLess
<1> QED BY <1>2, <1>14 DEF g, k, s

-----------------------------------------------------------------------------
(* The gate *)

LEMMA LessLimited ==
  ASSUME NEW O, NEW b, NEW d, Kept(b, O), Less(d, b, O), Limited(b) PROVE Limited(d)
<1>1. Kept(d, O) /\ Len(d.gops) <= Len(b.gops) /\ d.bytes <= b.bytes
  BY DEF Less
<1>2. Len(b.gops) \in Nat /\ Len(d.gops) \in Nat /\ b.bytes \in Int /\ d.bytes \in Int
  BY <1>1, KeptType
<1> QED BY <1>1, <1>2, LimitsAssumption DEF Limited

LEMMA DropsLess ==
  ASSUME NEW O, Origins(O), NEW b, Kept(b, O), NEW f, NEW p \in Nat
  PROVE  Less(GOPBufferDrops(b, f, p), b, O)
BY SameLess, PressureLess DEF GOPBufferDrops

LEMMA MakeGOP ==
  ASSUME NEW n \in Nat, NEW s \in Seq(Frame), NEW z \in Int, NEW p \in Int, NEW q \in Int, NEW c \in Nat
  PROVE  [id |-> n, frames |-> s, totalSize |-> z, pCount |-> p, bCount |-> q, start |-> c] \in GOP
BY DEF GOP

\* A GOP and the frame that joins it.
LEMMA JoinIs ==
  ASSUME NEW g \in GOP, NEW f
  PROVE  [g EXCEPT !.frames = Append(@, f), !.totalSize = @ + f.size,
                   !.pCount = @ + Count(f, "P"), !.bCount = @ + Count(f, "B")]
           = [id |-> g.id, frames |-> Append(g.frames, f), totalSize |-> g.totalSize + f.size,
              pCount |-> g.pCount + Count(f, "P"), bCount |-> g.bCount + Count(f, "B"), start |-> g.start]
<1> DEFINE a1 == g.id
           a2 == g.frames
           a3 == g.totalSize
           a4 == g.pCount
           a5 == g.bCount
           a6 == g.start
           t == Append(a2, f)
           b3 == a3 + f.size
           b4 == a4 + Count(f, "P")
           b5 == a5 + Count(f, "B")
           d == [g EXCEPT !.frames = t, !.totalSize = b3, !.pCount = b4, !.bCount = b5]
           e1 == [g EXCEPT !.frames = t]
           e2 == [e1 EXCEPT !.totalSize = b3]
           e3 == [e2 EXCEPT !.pCount = b4]
<1>1. g = [id |-> a1, frames |-> a2, totalSize |-> a3, pCount |-> a4, bCount |-> a5, start |-> a6]
  BY GOPIs
<1> HIDE DEF a1, a2, a3, a4, a5, a6, b3, b4, b5, t
<1>2. e1 = [id |-> a1, frames |-> t, totalSize |-> a3, pCount |-> a4, bCount |-> a5, start |-> a6]
  BY <1>1
<1>3. d = [e3 EXCEPT !.bCount = b5]
  OBVIOUS
<1> HIDE DEF e1, d
<1>4. e2 = [id |-> a1, frames |-> t, totalSize |-> b3, pCount |-> a4, bCount |-> a5, start |-> a6]
  BY <1>2
<1> HIDE DEF e2
<1>5. e3 = [id |-> a1, frames |-> t, totalSize |-> b3, pCount |-> b4, bCount |-> a5, start |-> a6]
  BY <1>4
<1> HIDE DEF e3
<1>6. d = [id |-> a1, frames |-> t, totalSize |-> b3, pCount |-> b4, bCount |-> b5, start |-> a6]
  BY <1>3, <1>5
<1> QED BY <1>6 DEF a1, a2, a3, a4, a5, a6, b3, b4, b5, t, d

LEMMA JoinClosing ==
  ASSUME NEW g, NEW n, Closing(g, n), NEW f \in Frame, f \notin Key, \A x \in Ids(g.frames) : x < f.id, NEW d,
         d = [id |-> g.id, frames |-> Append(g.frames, f), totalSize |-> g.totalSize + f.size,
              pCount |-> g.pCount + Count(f, "P"), bCount |-> g.bCount + Count(f, "B"), start |-> g.start]
  PROVE  Closing(d, n) /\ d.frames = Append(g.frames, f)
<1> DEFINE s == g.frames
           t == Append(s, f)
<1>1. g \in GOP /\ Whole(s) /\ g.id = n /\ s \in Seq(Frame) /\ Sorted(s) /\ s # <<>>
  BY DEF Closing, Whole
<1>2. d = [id |-> g.id, frames |-> t, totalSize |-> g.totalSize + f.size, pCount |-> g.pCount + Count(f, "P"),
           bCount |-> g.bCount + Count(f, "B"), start |-> g.start]
  OBVIOUS
<1>0. /\ d.id = g.id /\ d.frames = t /\ d.totalSize = g.totalSize + f.size
      /\ d.pCount = g.pCount + Count(f, "P") /\ d.bCount = g.bCount + Count(f, "B")
  OBVIOUS
<1> HIDE DEF s
<1>3. t \in Seq(Frame) /\ Members(t) = Members(s) \cup {f} /\ t # <<>> /\ t[1] = s[1]
  <2>1. t \in Seq(Frame) /\ Members(t) = Members(s) \cup {f}
    BY <1>1, AppendMembers
  <2>2. Len(s) \in Nat /\ Len(s) # 0
    BY <1>1
  <2>3. Len(t) = Len(s) + 1 /\ t[1] = s[1]
    BY <1>1, <2>2
  <2>4. Len(t) # 0
    BY <2>2, <2>3
  <2> HIDE DEF t
  <2> QED BY <2>1, <2>3, <2>4
<1>4. Sorted(t)
  <2>1. \A e \in Members(s) : e.id < f.id
    BY IdsOf DEF s
  <2> QED BY <1>1, <2>1, AppendSorted
<1> HIDE DEF t
<1>5. Whole(t)
  BY <1>1, <1>3, <1>4 DEF Whole
<1>6. /\ Where(s, IsP) = Lane(s, Typed({"P"})) /\ Where(s, IsB) = Lane(s, Typed({"B"}))
      /\ Where(s, NotKeyframe) = Lane(s, Behind)
      /\ Where(t, IsP) = Lane(t, Typed({"P"})) /\ Where(t, IsB) = Lane(t, Typed({"B"}))
      /\ Where(t, NotKeyframe) = Lane(t, Behind)
  BY <1>1, <1>3, WhereLane DEF Behind
<1>7. \A a : Lane(t, a) = IF f \in a THEN Append(Lane(s, a), f) ELSE Lane(s, a)
  BY <1>1, LaneAppend DEF t
<1>8. \A a : Lane(s, a) \in Seq(Frame)
  BY <1>1, LaneIn
<1>9. f \in Behind
  BY FrameIs DEF Behind, Key, Typed
<1>10. Bytes(Where(t, NotKeyframe)) = Bytes(Where(s, NotKeyframe)) + f.size
  BY <1>6, <1>7, <1>8, <1>9, BytesAppend
<1>11. Len(Where(t, IsP)) = Len(Where(s, IsP)) + Count(f, "P")
  <2> DEFINE l == Lane(s, Typed({"P"}))
  <2>1. l \in Seq(Frame) /\ Where(s, IsP) = l /\ Where(t, IsP) = IF f \in Typed({"P"}) THEN Append(l, f) ELSE l
    BY <1>6, <1>7, <1>8
  <2> HIDE DEF l
  <2>2. Len(Append(l, f)) = Len(l) + 1 /\ Len(l) \in Nat /\ (f \in Typed({"P"}) <=> f.type = "P")
    BY <2>1 DEF Typed
  <2> QED BY <2>1, <2>2 DEF Count
<1>12. Len(Where(t, IsB)) = Len(Where(s, IsB)) + Count(f, "B")
  <2> DEFINE l == Lane(s, Typed({"B"}))
  <2>1. l \in Seq(Frame) /\ Where(s, IsB) = l /\ Where(t, IsB) = IF f \in Typed({"B"}) THEN Append(l, f) ELSE l
    BY <1>6, <1>7, <1>8
  <2> HIDE DEF l
  <2>2. Len(Append(l, f)) = Len(l) + 1 /\ Len(l) \in Nat /\ (f \in Typed({"B"}) <=> f.type = "B")
    BY <2>1 DEF Typed
  <2> QED BY <2>1, <2>2 DEF Count
<1>13. g.pCount = Len(Where(s, IsP)) /\ g.bCount = Len(Where(s, IsB)) /\ g.totalSize = Bytes(Where(s, NotKeyframe))
  BY DEF Closing, s
<1>14. /\ d.id = g.id /\ d.frames = t /\ d.totalSize = Bytes(Where(t, NotKeyframe)) /\ d.pCount = Len(Where(t, IsP))
       /\ d.bCount = Len(Where(t, IsB))
  BY <1>0, <1>10, <1>11, <1>12, <1>13
<1>15. d \in GOP
  <2>1. g.id \in Nat /\ g.totalSize \in Int /\ g.pCount \in Int /\ g.bCount \in Int /\ g.start \in Nat /\ f.size \in Nat
    BY <1>1, GOPIs, FrameIs
  <2>2. g.totalSize + f.size \in Int /\ g.pCount + Count(f, "P") \in Int /\ g.bCount + Count(f, "B") \in Int
    BY <2>1 DEF Count
  <2> DEFINE a == g.id
             z == g.totalSize + f.size
             p == g.pCount + Count(f, "P")
             q == g.bCount + Count(f, "B")
             c == g.start
  <2>3. a \in Nat /\ z \in Int /\ p \in Int /\ q \in Int /\ c \in Nat
    BY <2>1, <2>2
  <2>4. d = [id |-> a, frames |-> t, totalSize |-> z, pCount |-> p, bCount |-> q, start |-> c]
    BY <1>2
  <2> HIDE DEF a, z, p, q, c
  <2>5. [id |-> a, frames |-> t, totalSize |-> z, pCount |-> p, bCount |-> q, start |-> c] \in GOP
    BY <1>3, <2>3, MakeGOP
  <2> QED BY <2>4, <2>5, Zenon
<1> QED BY <1>1, <1>5, <1>14, <1>15 DEF Closing, t, s

\* A keyframe opens a GOP.
LEMMA OpenIs ==
  ASSUME NEW f, NEW n, NEW c
  PROVE  [NoGOP EXCEPT !.id = n, !.frames = <<f>>, !.start = c]
           = [id |-> n, frames |-> <<f>>, totalSize |-> 0, pCount |-> 0, bCount |-> 0, start |-> c]
<1> DEFINE t == <<f>>
           d == [NoGOP EXCEPT !.id = n, !.frames = t, !.start = c]
           e1 == [NoGOP EXCEPT !.id = n]
           e2 == [e1 EXCEPT !.frames = t]
<1> HIDE DEF t
<1>1. e1 = [id |-> n, frames |-> <<>>, totalSize |-> 0, pCount |-> 0, bCount |-> 0, start |-> 0]
  BY DEF NoGOP
<1>2. d = [e2 EXCEPT !.start = c]
  OBVIOUS
<1> HIDE DEF e1, d
<1>3. e2 = [id |-> n, frames |-> t, totalSize |-> 0, pCount |-> 0, bCount |-> 0, start |-> 0]
  BY <1>1
<1> HIDE DEF e2
<1>4. d = [id |-> n, frames |-> t, totalSize |-> 0, pCount |-> 0, bCount |-> 0, start |-> c]
  BY <1>2, <1>3
<1> QED BY <1>4 DEF t, d

LEMMA OpenClosing ==
  ASSUME NEW f \in Frame, f \in Key, NEW n \in Nat, NEW c \in Nat, NEW d,
         d = [id |-> n, frames |-> <<f>>, totalSize |-> 0, pCount |-> 0, bCount |-> 0, start |-> c]
  PROVE  Closing(d, n) /\ d.frames = <<f>> /\ d # NoGOP
<1> DEFINE t == <<f>>
<1>1. d = [id |-> n, frames |-> t, totalSize |-> 0, pCount |-> 0, bCount |-> 0, start |-> c]
  OBVIOUS
<1>0. d.id = n /\ d.frames = t /\ d.totalSize = 0 /\ d.pCount = 0 /\ d.bCount = 0
  OBVIOUS
<1>2. t \in Seq(Frame) /\ DOMAIN t = {1} /\ t[1] = f /\ t # <<>>
  OBVIOUS
<1> HIDE DEF t
<1>3. Members(t) = {f}
  BY <1>2 DEF Members
<1>4. Sorted(t)
  BY <1>2 DEF Sorted
<1>5. Whole(t)
  BY <1>2, <1>3, <1>4 DEF Whole
<1>6. Where(t, IsP) = <<>> /\ Where(t, IsB) = <<>> /\ Where(t, NotKeyframe) = <<>>
  <2>1. /\ Members(t) \cap Typed({"P"}) = {} /\ Members(t) \cap Typed({"B"}) = {}
        /\ Members(t) \cap Typed({"P", "B", "M"}) = {}
    BY <1>3 DEF Key, Typed
  <2> QED BY <1>2, <2>1, WhereLane, LaneNone
<1>7. d \in GOP
  BY <1>1, <1>2 DEF GOP
<1>8. Len(<<>>) = 0
  OBVIOUS
<1>9. Closing(d, n)
  BY <1>0, <1>5, <1>6, <1>7, <1>8, BytesEmpty DEF Closing
<1>10. d # NoGOP
  BY <1>1, <1>2 DEF NoGOP
<1> QED BY <1>1, <1>9, <1>10 DEF t

\* The detector: the frames seen so far have smaller IDs, and no two GOPs
\* share one.
Detecting ==
  /\ nextId \in Nat /\ now \in Nat /\ Origins(origin)
  /\ \A a \in DOMAIN origin : \A x \in Ids(origin[a]) : x < nextId
  /\ current = NoGOP => origin = <<>>
  /\ current # NoGOP =>
       /\ Closing(current, Len(origin) + 1)
       /\ \A x \in Ids(current.frames) : x < nextId
       /\ \A a \in DOMAIN origin : Ids(origin[a]) \cap Ids(current.frames) = {}

Buffering == Kept(buf, origin) /\ Limited(buf) /\ (~recounted => Strict(buf))

Shedding ==
  /\ shedAt \in Int /\ shedAt > 70 /\ (current = NoGOP => shedAt = 100)
  /\ ~orphaned

GateInv == Detecting /\ Buffering /\ Shedding

LEMMA OriginsAppend ==
  ASSUME NEW O, Origins(O), NEW o, Whole(o), \A a \in DOMAIN O : Ids(O[a]) \cap Ids(o) = {}
  PROVE  Origins(Append(O, o))
<1> DEFINE P == Append(O, o)
           m == Len(O)
<1>1. O \in Seq(Seq(Frame)) /\ o \in Seq(Frame) /\ \A a \in DOMAIN O : Whole(O[a])
  BY DEF Origins, Whole
<1>2. /\ P \in Seq(Seq(Frame)) /\ m \in Nat /\ DOMAIN O = 1..m /\ DOMAIN P = 1..(m + 1) /\ P[m + 1] = o
      /\ \A a \in 1..m : P[a] = O[a]
  BY <1>1, AppendProperties
<1> HIDE DEF P, m
<1>3. \A a \in DOMAIN P : a \in 1..m \/ a = m + 1
  BY <1>2
<1>4. \A a \in DOMAIN P : Whole(P[a])
  BY <1>1, <1>2, <1>3
<1>5. \A a, c \in 1..m : a # c => Ids(O[a]) \cap Ids(O[c]) = {}
  BY <1>2 DEF Origins
<1>6. ASSUME NEW a \in DOMAIN P, NEW c \in DOMAIN P, a # c PROVE Ids(P[a]) \cap Ids(P[c]) = {}
  <2>1. CASE a = m + 1
    BY <1>2, <1>3, <1>6, <2>1
  <2>2. CASE c = m + 1
    BY <1>2, <1>3, <1>6, <2>2
  <2>3. CASE a \in 1..m /\ c \in 1..m
    BY <1>2, <1>5, <1>6, <2>3
  <2> QED BY <1>3, <2>1, <2>2, <2>3
<1> QED BY <1>2, <1>4, <1>6 DEF Origins, P

LEMMA MinOfTwo == ASSUME NEW a \in Nat, NEW c \in Nat PROVE Min({a, c}) \in {a, c}
<1> DEFINE S == {a, c}
<1>1. S \in SUBSET Nat /\ S # {}
  OBVIOUS
<1> HIDE DEF S
<1>2. Min(S) \in S
  BY <1>1, MinIn
<1> QED BY <1>2 DEF S

\* Nothing lies behind the frame that is shed.
LEMMA LastDrops == ASSUME NEW f, f.type \in {"P", "B"} PROVE CanDropFrame(f, <<>>)
<1>1. NoBDepends(<<>>)
  <2>1. {i \in DOMAIN <<>> : <<>>[i].type \in {"I", "P", "B"}} = {}
    OBVIOUS
  <2> QED BY <2>1 DEF NoBDepends
<1> QED BY <1>1 DEF CanDropFrame, IsKeyframe, IsB, IsP

LEMMA QueueSheds ==
  ASSUME NEW f, NEW p \in 0..100, Shedding, Queue(f, current', p),
         f.type = "I" => current' # NoGOP,
         f.type # "I" => (current' = NoGOP => current = NoGOP) /\ (current' # NoGOP => Len(current'.frames) > 1)
  PROVE  Shedding'
<1> DEFINE drop == shouldDropFrame(f, current', p)
           before == IF IsKeyframe(f) THEN 100 ELSE shedAt
<1>1. /\ shedAt' = IF drop /\ IsP(f) /\ current' # NoGOP THEN Min({before, p}) ELSE before
      /\ orphaned' = (orphaned \/ (~drop /\ f.type \in {"P", "B"} /\ before <= p))
  BY DEF Queue
<1>2. shedAt \in Int /\ shedAt > 70 /\ (current = NoGOP => shedAt = 100) /\ ~orphaned
  BY DEF Shedding
<1>3. before \in Nat /\ before > 70 /\ p \in Nat
  BY <1>2
<1>4. CASE f.type = "I"
  <2>1. ~IsP(f) /\ before = 100
    BY <1>4 DEF IsP, IsKeyframe
  <2>2. shedAt' = 100 /\ ~orphaned'
    BY <1>1, <1>2, <1>4, <2>1
  <2> QED BY <1>4, <2>2 DEF Shedding
<1>5. CASE f.type # "I" /\ current' = NoGOP
  <2>1. before = 100 /\ ~IsKeyframe(f) /\ current = NoGOP
    BY <1>2, <1>5 DEF IsKeyframe
  <2>2. shedAt' = 100
    BY <1>1, <1>5, <2>1
  <2>3. ASSUME f.type \in {"P", "B"}, 100 <= p PROVE drop
    <3>1. p > 80 /\ p > 60
      BY <2>3
    <3>2. ~ShedByGOP(f, current')
      BY <1>5 DEF ShedByGOP
    <3>3. ShedByType(f, p)
      BY <2>3, <3>1 DEF ShedByType
    <3> QED BY <2>1, <3>2, <3>3 DEF shouldDropFrame
  <2>4. ~orphaned'
    BY <1>1, <1>2, <2>1, <2>3
  <2> QED BY <2>2, <2>4 DEF Shedding
<1>6. CASE f.type # "I" /\ current' # NoGOP
  <2>1. ~IsKeyframe(f) /\ Len(current'.frames) > 1 /\ before = shedAt
    BY <1>6 DEF IsKeyframe
  <2>2. ASSUME f.type \in {"P", "B"} PROVE drop <=> p > (IF IsB(f) THEN 50 ELSE 70)
    <3>1. ShedByGOP(f, current')
      BY <1>6, <2>1, <2>2, LastDrops DEF ShedByGOP
    <3> QED BY <2>1, <3>1 DEF shouldDropFrame
  <2>3. ~orphaned'
    <3> SUFFICES ASSUME f.type \in {"P", "B"}, before <= p PROVE drop
      BY <1>1, <1>2
    <3>1. p > 70 /\ p > 50
      BY <1>3
    <3> QED BY <2>2, <3>1
  <2>4. ASSUME drop, IsP(f) PROVE p > 70
    <3>1. f.type = "P" /\ ~IsB(f)
      BY <2>4 DEF IsP, IsB
    <3> QED BY <2>2, <2>4, <3>1
  <2> HIDE DEF before, drop
  <2>5. shedAt' \in Int /\ shedAt' > 70
    <3>1. CASE drop /\ IsP(f)
      <4>1. Min({before, p}) \in {before, p} /\ p > 70
        BY <1>3, <2>4, <3>1, MinOfTwo
      <4>2. shedAt' \in {before, p}
        BY <1>1, <1>6, <3>1, <4>1
      <4> QED BY <1>3, <4>1, <4>2
    <3>2. CASE ~(drop /\ IsP(f))
      BY <1>1, <1>3, <3>2
    <3> QED BY <3>1, <3>2
  <2> QED BY <1>6, <2>3, <2>5 DEF Shedding
<1> QED BY <1>4, <1>5, <1>6

\* What every step owes the byte count.
LEMMA RecountStep ==
  ASSUME Buffering, recounted' = (recounted \/ \E i \in DOMAIN buf'.gops : Rewritten(buf'.gops[i])),
         Strict(buf) /\ Plain(buf'.gops) => Strict(buf')
  PROVE  (~recounted => Strict(buf))'
<1>1. ASSUME ~recounted' PROVE Strict(buf)'
  <2>1. ~recounted /\ Plain(buf'.gops)
    BY <1>1 DEF Plain
  <2>2. Strict(buf')
    BY <2>1 DEF Buffering
  <2> QED BY <2>2 DEF Strict
<1> QED BY <1>1

LEMMA KeyframeInv ==
  ASSUME GateInv, NEW p \in Pressures, NEW gap \in 0..MaxGap, nextId' = nextId + 1, ProcessKeyframe(p, gap),
         recounted' = (recounted \/ \E i \in DOMAIN buf'.gops : Rewritten(buf'.gops[i]))
  PROVE  GateInv'
<1> DEFINE f == [id |-> nextId, type |-> "I", size |-> Size["I"]]
           added == IF current = NoGOP THEN buf ELSE AddGOP(buf, current)
<1>1. /\ "I" \in Types /\ now' = now + gap /\ current' = StartGOP(f, now')
      /\ origin' = (IF current = NoGOP THEN origin ELSE Append(origin, current.frames))
      /\ buf' = GOPBufferDrops(added, f, p) /\ Queue(f, current', p)
  BY DEF ProcessKeyframe
<1>2. p \in Nat /\ p \in 0..100 /\ gap \in Nat /\ Size["I"] \in Nat
  BY <1>1, GateAssumption
<1>3. /\ nextId \in Nat /\ now \in Nat /\ Origins(origin) /\ Kept(buf, origin) /\ Limited(buf)
      /\ \A a \in DOMAIN origin : \A x \in Ids(origin[a]) : x < nextId
  BY DEF GateInv, Detecting, Buffering
<1>4. f \in Frame /\ f \in Key /\ f.id = nextId /\ f.type = "I"
  BY <1>2, <1>3 DEF Frame, Key, Typed
<1> HIDE DEF f
<1>5. Len(origin) \in Nat /\ DOMAIN origin = 1..Len(origin)
  BY <1>3 DEF Origins
<1> DEFINE ClosedNow ==
             /\ current.id = Len(origin') /\ Len(origin') \in Nat
             /\ Kept(added, origin') /\ Limited(added) /\ Origins(origin') /\ (Strict(buf) => Strict(added))
             /\ \A a \in DOMAIN origin' : \A x \in Ids(origin'[a]) : x < nextId
<1>6. ASSUME current = NoGOP PROVE ClosedNow
  <2>1. origin = <<>> /\ origin' = origin /\ added = buf
    BY <1>1, <1>6 DEF GateInv, Detecting
  <2>2. current.id = Len(origin') /\ Len(origin') = 0
    BY <1>6, <2>1 DEF NoGOP
  <2>3. Kept(added, origin') /\ Limited(added) /\ Origins(origin') /\ (Strict(buf) => Strict(added))
    BY <1>3, <2>1
  <2>4. \A a \in DOMAIN origin' : \A x \in Ids(origin'[a]) : x < nextId
    BY <1>3, <2>1
  <2> QED BY <2>2, <2>3, <2>4
<1>7. ASSUME current # NoGOP PROVE ClosedNow
  <2> DEFINE o == current.frames
             m == Len(origin)
  <2>1. origin' = Append(origin, o) /\ added = AddGOP(buf, current)
    BY <1>1, <1>7
  <2>2. /\ Closing(current, m + 1) /\ (\A x \in Ids(o) : x < nextId)
        /\ \A a \in DOMAIN origin : Ids(origin[a]) \cap Ids(o) = {}
    BY <1>7 DEF GateInv, Detecting
  <2>3. Whole(o) /\ o \in Seq(Frame) /\ current.id = m + 1
    BY <2>2 DEF Closing, Whole
  <2>4. Origins(Append(origin, o))
    BY <1>3, <2>2, <2>3, OriginsAppend
  <2>5. Kept(AddGOP(buf, current), Append(origin, o)) /\ Limited(AddGOP(buf, current))
        /\ (Strict(buf) => Strict(AddGOP(buf, current)))
    BY <1>3, <2>2, <2>4, AddKept
  <2> HIDE DEF o
  <2>6. /\ Len(Append(origin, o)) = m + 1 /\ Append(origin, o)[m + 1] = o /\ DOMAIN Append(origin, o) = 1..(m + 1)
        /\ \A a \in 1..m : Append(origin, o)[a] = origin[a]
    BY <1>3, <2>3, AppendProperties DEF Origins
  <2>7. ASSUME NEW a \in DOMAIN origin', NEW x \in Ids(origin'[a]) PROVE x < nextId
    <3>1. a \in 1..m \/ a = m + 1
      BY <1>5, <2>1, <2>6
    <3>2. CASE a \in 1..m
      BY <1>3, <1>5, <2>1, <2>6, <2>7, <3>2
    <3>3. CASE a = m + 1
      BY <2>1, <2>2, <2>6, <2>7, <3>3
    <3> QED BY <3>1, <3>2, <3>3
  <2>8. current.id = Len(origin') /\ Len(origin') \in Nat
    BY <1>5, <2>1, <2>3, <2>6
  <2> HIDE DEF added
  <2>9. Kept(added, origin') /\ Limited(added) /\ Origins(origin') /\ (Strict(buf) => Strict(added))
    BY <2>1, <2>4, <2>5
  <2> QED BY <2>7, <2>8, <2>9
<1>8. ClosedNow
  BY <1>6, <1>7
<1> HIDE DEF added
<1>9. Less(buf', added, origin')
  BY <1>1, <1>2, <1>8, DropsLess
<1>10. Kept(buf', origin') /\ Limited(buf')
  BY <1>8, <1>9, LessLimited DEF Less
<1>11. Strict(buf) /\ Plain(buf'.gops) => Strict(buf')
  BY <1>8, <1>9 DEF Less
<1>12. Buffering'
  <2>1. (~recounted => Strict(buf))'
    BY <1>11, RecountStep DEF GateInv
  <2> QED BY <1>10, <2>1 DEF Buffering, Limited, Strict
<1>13. Closing(current', Len(origin') + 1) /\ current'.frames = <<f>> /\ current' # NoGOP
  <2> DEFINE n == current.id + 1
             c == now'
             d == current'
  <2>1. n \in Nat /\ c \in Nat /\ n = Len(origin') + 1
    BY <1>1, <1>2, <1>3, <1>8
  <2>2. d = [NoGOP EXCEPT !.id = n, !.frames = <<f>>, !.start = c]
    BY <1>1 DEF StartGOP
  <2> HIDE DEF n, c, d
  <2>3. d = [id |-> n, frames |-> <<f>>, totalSize |-> 0, pCount |-> 0, bCount |-> 0, start |-> c]
    BY <2>2, OpenIs
  <2>4. Closing(d, n) /\ d.frames = <<f>> /\ d # NoGOP
    BY <1>4, <2>1, <2>3, OpenClosing
  <2> QED BY <2>1, <2>4 DEF d
<1>14. Detecting'
  <2>1. Ids(<<f>>) = {nextId}
    BY <1>4 DEF Ids
  <2>2. nextId' \in Nat /\ nextId < nextId' /\ now' \in Nat
    BY <1>1, <1>2, <1>3
  <2>3. \A a \in DOMAIN origin' : \A x \in Ids(origin'[a]) : x < nextId'
    <3> SUFFICES ASSUME NEW a \in DOMAIN origin', NEW x \in Ids(origin'[a]) PROVE x < nextId'
      OBVIOUS
    <3>1. x < nextId
      BY <1>8
    <3>2. x \in Nat
      <4>1. origin'[a] \in Seq(Frame)
        BY <1>8 DEF Origins
      <4>2. PICK i \in DOMAIN origin'[a] : x = origin'[a][i].id
        BY DEF Ids
      <4>3. origin'[a][i] \in Frame
        BY <4>1, <4>2
      <4> QED BY <4>2, <4>3, FrameIs
    <3> QED BY <1>3, <2>2, <3>1, <3>2
  <2>4. \A a \in DOMAIN origin' : Ids(origin'[a]) \cap {nextId} = {}
    <3>1. ~(nextId < nextId)
      BY <1>3
    <3> QED BY <1>8, <3>1
  <2> QED BY <1>8, <1>13, <2>1, <2>2, <2>3, <2>4 DEF Detecting, Origins
<1>15. Shedding'
  BY <1>1, <1>2, <1>4, <1>13, QueueSheds DEF GateInv
<1> QED BY <1>12, <1>14, <1>15 DEF GateInv

LEMMA FrameInv ==
  ASSUME GateInv, NEW p \in Pressures, NEW t \in Types \ {"I"}, nextId' = nextId + 1, ProcessFrame(t, p),
         recounted' = (recounted \/ \E i \in DOMAIN buf'.gops : Rewritten(buf'.gops[i]))
  PROVE  GateInv'
<1> DEFINE f == [id |-> nextId, type |-> t, size |-> Size[t]]
<1>1. /\ current' = JoinGOP(f) /\ buf' = GOPBufferDrops(buf, f, p) /\ Queue(f, current', p)
      /\ now' = now /\ origin' = origin
  BY DEF ProcessFrame
<1>2. p \in Nat /\ p \in 0..100 /\ Size[t] \in Nat /\ t \in {"P", "B", "M"}
  BY GateAssumption
<1>3. /\ nextId \in Nat /\ now \in Nat /\ Origins(origin) /\ Kept(buf, origin) /\ Limited(buf)
      /\ \A a \in DOMAIN origin : \A x \in Ids(origin[a]) : x < nextId
  BY DEF GateInv, Detecting, Buffering
<1>4. f \in Frame /\ f \notin Key /\ f.id = nextId /\ f.type = t
  BY <1>2, <1>3 DEF Frame, Key, Typed
<1> HIDE DEF f
<1>5. Less(buf', buf, origin)
  BY <1>1, <1>2, <1>3, DropsLess
<1>6. Buffering'
  <2>1. Kept(buf', origin') /\ Limited(buf')
    BY <1>1, <1>3, <1>5, LessLimited DEF Less
  <2>2. Strict(buf) /\ Plain(buf'.gops) => Strict(buf')
    BY <1>5 DEF Less
  <2>3. (~recounted => Strict(buf))'
    BY <2>2, RecountStep DEF GateInv
  <2> QED BY <2>1, <2>3 DEF Buffering, Limited, Strict
<1>7. nextId' \in Nat /\ nextId < nextId'
  BY <1>3
<1>8. \A s \in Seq(Frame) : \A x \in Ids(s) : x < nextId => x < nextId'
  <2> SUFFICES ASSUME NEW s \in Seq(Frame), NEW x \in Ids(s), x < nextId PROVE x < nextId'
    OBVIOUS
  <2>1. PICK i \in DOMAIN s : x = s[i].id
    BY DEF Ids
  <2>2. s[i] \in Frame
    BY <2>1
  <2>3. x \in Nat
    BY <2>1, <2>2, FrameIs
  <2> QED BY <1>3, <1>7, <2>3
<1>9. \A a \in DOMAIN origin : origin[a] \in Seq(Frame)
  BY <1>3 DEF Origins
<1>10. \A a \in DOMAIN origin' : \A x \in Ids(origin'[a]) : x < nextId'
  BY <1>1, <1>3, <1>8, <1>9
<1>11. CASE current = NoGOP
  <2>1. current' = NoGOP /\ origin = <<>>
    BY <1>1, <1>11 DEF JoinGOP, GateInv, Detecting
  <2>2. Detecting'
    BY <1>1, <1>3, <1>7, <1>10, <2>1 DEF Detecting, Origins
  <2>3. Shedding'
    BY <1>1, <1>2, <1>4, <1>11, <2>1, QueueSheds DEF GateInv
  <2> QED BY <1>6, <2>2, <2>3 DEF GateInv
<1>12. CASE current # NoGOP
  <2> DEFINE m == Len(origin) + 1
             s == current.frames
             d == current'
  <2>1. /\ Closing(current, m) /\ (\A x \in Ids(s) : x < nextId)
        /\ \A a \in DOMAIN origin : Ids(origin[a]) \cap Ids(s) = {}
    BY <1>12 DEF GateInv, Detecting
  <2>2. current \in GOP /\ s \in Seq(Frame) /\ s # <<>>
    BY <2>1 DEF Closing, Whole
  <2>3. d = [current EXCEPT !.frames = Append(@, f), !.totalSize = @ + f.size,
                            !.pCount = @ + Count(f, "P"), !.bCount = @ + Count(f, "B")]
    BY <1>1, <1>12 DEF JoinGOP
  <2> DEFINE g == current
  <2> HIDE DEF d, g, m
  <2>4. d = [id |-> g.id, frames |-> Append(g.frames, f), totalSize |-> g.totalSize + f.size,
             pCount |-> g.pCount + Count(f, "P"), bCount |-> g.bCount + Count(f, "B"), start |-> g.start]
    BY <2>2, <2>3, JoinIs DEF g
  <2>5. Closing(d, m) /\ d.frames = Append(g.frames, f)
    <3>1. Closing(g, m) /\ \A x \in Ids(g.frames) : x < f.id
      BY <1>4, <2>1 DEF g
    <3> QED BY <1>4, <2>4, <3>1, JoinClosing
  <2>6. Len(s) \in Nat /\ Len(s) # 0 /\ Len(Append(s, f)) = Len(s) + 1
    BY <2>2
  <2>7. Closing(current', m) /\ current'.frames = Append(s, f)
    BY <2>5 DEF d, g
  <2>8. Len(current'.frames) > 1
    BY <2>6, <2>7
  <2>9. current' # NoGOP
    BY <2>8 DEF NoGOP
  <2>10. Ids(Append(s, f)) = Ids(s) \cup {nextId}
    <3>1. Members(Append(s, f)) = Members(s) \cup {f}
      BY <2>2, AppendMembers
    <3>2. Ids(Append(s, f)) = {e.id : e \in Members(s) \cup {f}} /\ Ids(s) = {e.id : e \in Members(s)}
      BY <3>1, IdsOf
    <3> QED BY <1>4, <3>2
  <2>11. \A x \in Ids(Append(s, f)) : x < nextId'
    BY <1>7, <1>8, <2>1, <2>2, <2>10
  <2>12. \A a \in DOMAIN origin : Ids(origin[a]) \cap Ids(Append(s, f)) = {}
    <3>1. ~(nextId < nextId)
      BY <1>3
    <3> QED BY <1>3, <2>1, <2>10, <3>1
  <2>13. Detecting'
    BY <1>1, <1>3, <1>7, <1>10, <2>7, <2>9, <2>11, <2>12 DEF Detecting, Origins, m
  <2>14. Shedding'
    BY <1>1, <1>2, <1>4, <2>8, <2>9, QueueSheds DEF GateInv
  <2> QED BY <1>6, <2>13, <2>14 DEF GateInv
<1> QED BY <1>11, <1>12

LEMMA GateInvInit == GateInit => GateInv
<1> SUFFICES ASSUME GateInit PROVE GateInv
  OBVIOUS
<1>1. /\ current = NoGOP /\ buf = EmptyBuffer /\ nextId = 1 /\ now = 0 /\ origin = <<>> /\ shedAt = 100
      /\ orphaned = FALSE
  BY DEF GateInit
<1>2. buf.gops = <<>> /\ buf.index = <<>> /\ buf.bytes = 0 /\ buf.newest = 0
  BY <1>1 DEF EmptyBuffer
<1>3. Origins(origin)
  <2>1. <<>> \in Seq(Seq(Frame)) /\ DOMAIN <<>> = {}
    OBVIOUS
  <2> QED BY <1>1, <2>1 DEF Origins
<1>4. IsBuffer(buf)
  BY <1>1, <1>2 DEF IsBuffer, EmptyBuffer
<1>5. Listed(<<>>, <<>>)
  <2>1. <<>> \in Seq(GOP) /\ DOMAIN <<>> = {} /\ Len(<<>>) <= Len(<<>>)
    OBVIOUS
  <2> QED BY <2>1 DEF Listed
<1>6. Indexed(buf)
  BY <1>2 DEF Indexed
<1>7. Strict(buf)
  <2>1. [i \in DOMAIN <<>> |-> <<>>[i].totalSize] = <<>>
    OBVIOUS
  <2>2. GOPBytes(<<>>) = 0
    BY <2>1, SumOfEmpty DEF GOPBytes
  <2> QED BY <1>2, <2>2 DEF Strict, Plain
<1>8. Limited(buf)
  <2>1. Len(<<>>) = 0
    OBVIOUS
  <2> QED BY <1>2, <2>1, LimitsAssumption DEF Limited
<1>9. Detecting
  BY <1>1, <1>3 DEF Detecting
<1>10. Shedding
  BY <1>1 DEF Shedding
<1>11. Kept(buf, origin)
  BY <1>1, <1>2, <1>4, <1>5, <1>6 DEF Kept
<1> QED BY <1>7, <1>8, <1>9, <1>10, <1>11 DEF GateInv, Buffering

\* A step that only gives up frames of the buffer.
LEMMA DropInv ==
  ASSUME GateInv, Less(buf', buf, origin), UNCHANGED <<current, now, origin, history>>, nextId' \in {nextId, nextId + 1},
         recounted' = (recounted \/ \E i \in DOMAIN buf'.gops : Rewritten(buf'.gops[i]))
  PROVE  GateInv'
<1>1. Kept(buf, origin) /\ Limited(buf) /\ origin' = origin /\ nextId \in Nat
  BY DEF GateInv, Buffering, Detecting
<1>2. Kept(buf', origin') /\ Limited(buf')
  BY <1>1, LessLimited DEF Less
<1>3. Strict(buf) /\ Plain(buf'.gops) => Strict(buf')
  BY DEF Less
<1>4. (~recounted => Strict(buf))'
  BY <1>3, RecountStep DEF GateInv
<1>5. Buffering'
  BY <1>2, <1>4 DEF Buffering, Limited, Strict
<1>6. Shedding'
  BY DEF GateInv, Shedding, history
<1>7. nextId' \in Nat /\ \A x \in Nat : x < nextId => x < nextId'
  BY <1>1
<1>8. \A s \in Seq(Frame) : Ids(s) \subseteq Nat
  <2> SUFFICES ASSUME NEW s \in Seq(Frame), NEW i \in DOMAIN s PROVE s[i].id \in Nat
    BY DEF Ids
  <2>1. s[i] \in Frame
    OBVIOUS
  <2> QED BY <2>1, FrameIs
<1>9. \A a \in DOMAIN origin : origin[a] \in Seq(Frame)
  BY DEF GateInv, Detecting, Origins
<1>10. current # NoGOP => current.frames \in Seq(Frame)
  BY DEF GateInv, Detecting, Closing, Whole
<1>11. \A a \in DOMAIN origin : \A x \in Ids(origin[a]) : x < nextId'
  BY <1>7, <1>8, <1>9 DEF GateInv, Detecting
<1>12. current # NoGOP => \A x \in Ids(current.frames) : x < nextId'
  BY <1>7, <1>8, <1>10 DEF GateInv, Detecting
<1>13. Detecting'
  BY <1>7, <1>11, <1>12 DEF GateInv, Detecting, Origins
<1> QED BY <1>5, <1>6, <1>13 DEF GateInv

LEMMA GateInvStep == GateInv /\ [GateNext]_gateVars => GateInv'
<1> SUFFICES ASSUME GateInv, [GateNext]_gateVars PROVE GateInv'
  OBVIOUS
<1>1. CASE UNCHANGED gateVars
  <2>1. /\ current' = current /\ buf' = buf /\ nextId' = nextId /\ now' = now /\ origin' = origin
        /\ shedAt' = shedAt /\ orphaned' = orphaned /\ recounted' = recounted
    BY <1>1 DEF gateVars, history
  <2>2. Detecting'
    BY <2>1 DEF GateInv, Detecting, Origins
  <2>3. Buffering'
    BY <2>1 DEF GateInv, Buffering, Limited, Strict
  <2>4. Shedding'
    BY <2>1 DEF GateInv, Shedding
  <2> QED BY <2>2, <2>3, <2>4 DEF GateInv
<1>2. CASE GateNext
  <2>0. Kept(buf, origin) /\ Origins(origin) /\ recounted' = (recounted \/ \E i \in DOMAIN buf'.gops : Rewritten(buf'.gops[i]))
    BY <1>2 DEF GateNext, GateInv, Buffering, Detecting
  <2>1. CASE HandleFrame
    <3>1. PICK p \in Pressures : \/ \E gap \in 0..MaxGap : ProcessKeyframe(p, gap)
                                 \/ \E t \in Types \ {"I"} : ProcessFrame(t, p)
      BY <2>1 DEF HandleFrame
    <3>2. nextId' = nextId + 1
      BY <2>1 DEF HandleFrame
    <3>3. ASSUME NEW gap \in 0..MaxGap, ProcessKeyframe(p, gap) PROVE GateInv'
      BY <2>0, <3>2, <3>3, KeyframeInv
    <3>4. ASSUME NEW t \in Types \ {"I"}, ProcessFrame(t, p) PROVE GateInv'
      BY <2>0, <3>2, <3>4, FrameInv
    <3> QED BY <3>1, <3>3, <3>4
  <2>2. CASE SkipCorrupted
    <3>1. buf' = buf /\ nextId' = nextId + 1 /\ UNCHANGED <<current, now, origin, history>>
      BY <2>2 DEF SkipCorrupted
    <3>2. Less(buf', buf, origin)
      BY <2>0, <3>1, SameLess
    <3> QED BY <2>0, <3>1, <3>2, DropInv
  <2>3. CASE DropOldestGOP
    <3>1. buf' = DropFramesForPressure(buf, 99) /\ nextId' = nextId /\ UNCHANGED <<current, now, origin, history>>
      BY <2>3 DEF DropOldestGOP
    <3>2. Less(buf', buf, origin)
      BY <2>0, <3>1, PressureLess
    <3> QED BY <2>0, <3>1, <3>2, DropInv
  <2>4. CASE DropCorruptedFrames
    <3>1. nextId' = nextId /\ UNCHANGED <<current, now, origin, history>>
      BY <2>4 DEF DropCorruptedFrames
    <3>2. PICK i \in DOMAIN buf.gops : \E k \in 0..(Len(buf.gops[i].frames) - 1) : buf' = DropFramesFromGOP(buf, i, k)
      BY <2>4 DEF DropCorruptedFrames
    <3>3. PICK k \in 0..(Len(buf.gops[i].frames) - 1) : buf' = DropFramesFromGOP(buf, i, k)
      BY <3>2
    <3>4. Less(DropFramesFromGOP(buf, i, k), buf, origin)
      BY <2>0, CutLess
    <3>5. Less(buf', buf, origin)
      BY <3>3, <3>4
    <3> QED BY <2>0, <3>1, <3>5, DropInv
  <2> QED BY <1>2, <2>1, <2>2, <2>3, <2>4 DEF GateNext
<1> QED BY <1>1, <1>2

LEMMA GateInvAlways == GateSpec => []GateInv
BY GateInvInit, GateInvStep, PTL DEF GateSpec

LEMMA GateBufferExact == GateInv => BufferExact
<1> SUFFICES ASSUME GateInv PROVE BufferExact
  OBVIOUS
<1>1. Kept(buf, origin) /\ Listed(buf.gops, origin) /\ Indexed(buf) /\ Limited(buf) /\ (~recounted => Strict(buf))
  BY DEF GateInv, Buffering, Kept
<1>2. IndexExact
  BY <1>1 DEF Indexed, IndexExact, GOPs
<1>3. CountsExact
  <2>1. BytesMatch
    BY <1>1 DEF BytesMatch, Strict
  <2>2. \A i \in DOMAIN buf.gops : Counted(buf.gops[i])
    BY <1>1 DEF Listed, GoodGOP
  <2> QED BY <2>1, <2>2 DEF CountsExact, Counted, GOPs
<1>4. LimitsKept
  BY <1>1 DEF LimitsKept, NewestKept, Limited, Listed
<1> QED BY <1>2, <1>3, <1>4 DEF BufferExact

LEMMA GateDecodable == GateInv => StaysDecodable
<1> SUFFICES ASSUME GateInv PROVE StaysDecodable
  OBVIOUS
<1>1. Listed(buf.gops, origin)
  BY DEF GateInv, Buffering, Kept
<1>2. \A i \in DOMAIN buf.gops : RefsKept(buf.gops[i].frames, origin[buf.gops[i].id])
  BY <1>1 DEF Listed, GoodGOP, Part
<1>3. Decodable
  BY <1>2 DEF Decodable, RefsKept, GOPs, FrameSet, Members
<1>4. ShedWithDependents
  BY DEF GateInv, Shedding, ShedWithDependents
<1> QED BY <1>3, <1>4 DEF StaysDecodable

\* GateInv is inductive.  Detecting is about the detector: frame IDs grow and
\* no two GOPs share one.  Buffering is about the buffer, against the GOPs as
\* the detector closed them: what is left of each, its counts, the index, the
\* limits, and the byte count until a drop has rewritten a size.  Shedding is
\* about shouldDropFrame: no P frame was shed at or below pressure 70.

\* The GOP buffer's books are right in every state, after any sequence of
\* frames, closed GOPs and drops (AddGOP, enforceBufferLimits, DropFrames,
\* DropFramesFromGOP): the index names each frame where it is, the byte and
\* type counts are those of what is held, and the limits hold by them.
THEOREM Gate_BufferExact == GateSpec => []BufferExact
BY GateInvAlways, GateBufferExact, PTL

\* Whatever the pressure did, the frames kept by the GOP buffer and the ones
\* shouldDropFrame queues at a pressure that has not fallen have the frames
\* they refer to (CanDropFrame, dropPFrames, shouldDropFrame).
THEOREM Gate_StaysDecodable == GateSpec => []StaysDecodable
BY GateInvAlways, GateDecodable, PTL
=============================================================================
