-------------------------- MODULE HybridQueueProofs --------------------------
(* Theorems about HybridQueue, for every number of producers and consumers, *)
(* every capacity and every set of messages.                                *)
EXTENDS HybridQueue, CommonLemmas

Words == [kind : {"length", "data"}, msg : Msgs, n : Nat]

(* A record is a sequence of Size[m] + 1 words. *)
LEMMA RecordType ==
  ASSUME NEW m \in Msgs
  PROVE  Record(m) \in Seq(Words) /\ Len(Record(m)) = Size[m] + 1
<1>1. Size[m] \in Nat \ {0}
  BY QueueAssumption
<1>2. Record(m) \in [1 .. Size[m] + 1 -> Words]
  BY <1>1 DEF Record, Words
<1>3. Size[m] + 1 \in Nat
  BY <1>1
<1>. QED
  BY <1>2, <1>3, IsASeq, LenProperties

LEMMA SizeType ==
  ASSUME NEW m \in Msgs
  PROVE  Size[m] \in Nat \ {0} /\ RecordWords(m) \in Nat
<1>1. Size[m] \in Nat \ {0}
  BY QueueAssumption
<1>. QED
  BY <1>1 DEF RecordWords

(* What the reader decodes is a message or garbage. *)
LEMMA DecodeType ==
  ASSUME NEW words PROVE Decode(words) \in Msgs \cup {Garbage}
BY DEF Decode

(* The next-state relation, one case per action: the form in which every    *)
(* inductive step below splits it.                                          *)
LEMMA NextCases ==
  ASSUME [Next]_vars
  PROVE  \/ \E p \in Producers :
              \/ \E m \in Msgs : EnqueueBegin(p, m)
              \/ EnqueueSend(p) \/ EnqueueAddDepth(p) \/ EnqueueAddMemCount(p)
              \/ WriteToDisk(p) \/ WriteToDiskFails(p)
         \/ \E c \in Consumers :
              \/ \E call \in Calls : DequeueBegin(c, call)
              \/ DequeueCheck(c) \/ DequeueReceive(c) \/ DequeueSubDepth(c)
              \/ DequeueSubMemCount(c) \/ DequeueTimer(c) \/ DequeueEmpty(c)
              \/ DequeueClosing(c)
         \/ PumpCheck \/ ReadFromDisk \/ PumpSend \/ PumpAddMemCount \/ PumpExit
         \/ CloseMark \/ CloseSignal \/ CloseHandles \/ CloseRemove
         \/ Reopen
         \/ UNCHANGED vars
BY DEF Next, Enqueue, EnqueueReturns, Dequeue, Pump, Close

LEMMA TypeInit == Init => TypeOK
<1>1. Init => FlagTypes
  BY DEF Init, FlagTypes
<1>2. Init => CounterTypes /\ DiskTypes /\ MessageTypes
  BY QueueAssumption DEF Init, CounterTypes, DiskTypes, MessageTypes
<1>3. Init => ProducerTypes
  BY DEF Init, ProducerTypes, None
<1>4. Init => ConsumerTypes /\ PumpTypes
  BY DEF Init, ConsumerTypes, PumpTypes, Calls, Results
<1>. QED
  BY <1>1, <1>2, <1>3, <1>4 DEF TypeOK

LEMMA FlagStep == FlagTypes /\ [Next]_vars => FlagTypes'
<1>. SUFFICES ASSUME FlagTypes, [Next]_vars PROVE FlagTypes'
  OBVIOUS
<1>. USE DEF FlagTypes, disk, counters, ends, history
<1>1. ASSUME NEW p \in Producers, NEW m \in Msgs, EnqueueBegin(p, m) PROVE FlagTypes'
  BY <1>1, Zenon DEF EnqueueBegin
<1>2. ASSUME NEW p \in Producers,
             EnqueueSend(p) \/ EnqueueAddDepth(p) \/ EnqueueAddMemCount(p)
      PROVE  FlagTypes'
  BY <1>2, Zenon DEF EnqueueSend, EnqueueAddDepth, EnqueueAddMemCount
<1>3. ASSUME NEW p \in Producers, WriteToDisk(p) \/ WriteToDiskFails(p) PROVE FlagTypes'
  BY <1>3, Zenon DEF WriteToDisk, WriteToDiskFails
<1>4. ASSUME NEW c \in Consumers, NEW call \in Calls, DequeueBegin(c, call) PROVE FlagTypes'
  BY <1>4, Zenon DEF DequeueBegin
<1>5. ASSUME NEW c \in Consumers,
             \/ DequeueCheck(c) \/ DequeueReceive(c) \/ DequeueSubDepth(c)
             \/ DequeueSubMemCount(c) \/ DequeueTimer(c) \/ DequeueEmpty(c)
             \/ DequeueClosing(c)
      PROVE  FlagTypes'
  BY <1>5, Zenon DEF DequeueCheck, DequeueReceive, DequeueSubDepth, DequeueSubMemCount,
     DequeueTimer, DequeueEmpty, DequeueClosing
<1>6. CASE PumpCheck \/ ReadFromDisk \/ PumpSend \/ PumpAddMemCount \/ PumpExit
  BY <1>6, Zenon DEF PumpCheck, ReadFromDisk, PumpSend, PumpAddMemCount, PumpExit
<1>7. CASE CloseMark \/ CloseSignal \/ CloseHandles \/ CloseRemove
  BY <1>7, Zenon DEF CloseMark, CloseSignal, CloseHandles, CloseRemove
<1>8. CASE Reopen
  BY <1>8, Zenon DEF Reopen
<1>9. CASE UNCHANGED vars
  BY <1>9, Zenon DEF vars
<1>. QED
  BY NextCases, <1>1, <1>2, <1>3, <1>4, <1>5, <1>6, <1>7, <1>8, <1>9, Zenon

LEMMA ProducerStep == ProducerTypes /\ [Next]_vars => ProducerTypes'
<1>. SUFFICES ASSUME ProducerTypes, [Next]_vars PROVE ProducerTypes'
  OBVIOUS
<1>1. ASSUME NEW p \in Producers, NEW m \in Msgs, EnqueueBegin(p, m) PROVE ProducerTypes'
  BY <1>1 DEF EnqueueBegin, ProducerTypes
<1>2. ASSUME NEW p \in Producers, EnqueueSend(p) PROVE ProducerTypes'
  <2>1. prod[p].pc = "send" /\ prod' \in {[prod EXCEPT ![p].pc = pc] : pc \in {"depth", "disk"}}
    BY <1>2 DEF EnqueueSend, Goto
  <2>. QED
    BY <2>1 DEF ProducerTypes
<1>3. ASSUME NEW p \in Producers, EnqueueAddDepth(p) PROVE ProducerTypes'
  <2>1. prod[p].pc = "depth" /\ prod' = [prod EXCEPT ![p].pc = "memCount"]
    BY <1>3 DEF EnqueueAddDepth, Goto
  <2>. QED
    BY <2>1 DEF ProducerTypes
<1>4. ASSUME NEW p \in Producers,
             EnqueueAddMemCount(p) \/ WriteToDisk(p) \/ WriteToDiskFails(p)
      PROVE  ProducerTypes'
  <2>1. prod' = [prod EXCEPT ![p] = None]
    BY <1>4, Zenon DEF EnqueueAddMemCount, WriteToDisk, WriteToDiskFails, Leave
  <2>. QED
    BY <2>1 DEF ProducerTypes, None
<1>5. CASE Reopen
  BY <1>5 DEF Reopen, ProducerTypes, None
<1>6. CASE UNCHANGED prod
  BY <1>6 DEF ProducerTypes
<1>. QED
  <2>1. ASSUME NEW c \in Consumers,
               \/ \E call \in Calls : DequeueBegin(c, call)
               \/ DequeueCheck(c) \/ DequeueReceive(c) \/ DequeueSubDepth(c)
               \/ DequeueSubMemCount(c) \/ DequeueTimer(c) \/ DequeueEmpty(c)
               \/ DequeueClosing(c)
        PROVE  UNCHANGED prod
    BY <2>1, Zenon DEF DequeueBegin, DequeueCheck, DequeueReceive, DequeueSubDepth,
       DequeueSubMemCount, DequeueTimer, DequeueEmpty, DequeueClosing
  <2>2. CASE \/ PumpCheck \/ ReadFromDisk \/ PumpSend \/ PumpAddMemCount \/ PumpExit
             \/ CloseMark \/ CloseSignal \/ CloseHandles \/ CloseRemove \/ UNCHANGED vars
    <3>1. UNCHANGED prod
      BY <2>2, Zenon DEF PumpCheck, ReadFromDisk, PumpSend, PumpAddMemCount, PumpExit,
         CloseMark, CloseSignal, CloseHandles, CloseRemove, vars
    <3>. QED
      BY <3>1, <1>6
  <2>. QED
    BY NextCases, <1>1, <1>2, <1>3, <1>4, <1>5, <1>6, <2>1, <2>2

LEMMA ConsumerStep == ConsumerTypes /\ [Next]_vars => ConsumerTypes'
<1>. SUFFICES ASSUME ConsumerTypes, [Next]_vars PROVE ConsumerTypes'
  OBVIOUS
<1>1. ASSUME NEW c \in Consumers, NEW call \in Calls, DequeueBegin(c, call)
      PROVE  ConsumerTypes'
  BY <1>1 DEF DequeueBegin, ConsumerTypes, Results
<1>2. ASSUME NEW c \in Consumers, NEW pc \in {"check", "select", "closing", "depth", "memCount"},
             cons' = [cons EXCEPT ![c].pc = pc]
      PROVE  ConsumerTypes'
  BY <1>2 DEF ConsumerTypes
<1>3. ASSUME NEW c \in Consumers, NEW result \in Results, Return(c, result)
      PROVE  ConsumerTypes'
  BY <1>3 DEF ConsumerTypes, Return
<1>4. ASSUME NEW c \in Consumers,
             DequeueCheck(c) \/ DequeueReceive(c) \/ DequeueSubDepth(c)
             \/ DequeueSubMemCount(c) \/ DequeueTimer(c) \/ DequeueEmpty(c)
             \/ DequeueClosing(c)
      PROVE  \/ \E pc \in {"check", "select", "closing", "depth", "memCount"} :
                  cons' = [cons EXCEPT ![c].pc = pc]
             \/ \E result \in Results : Return(c, result)
  BY <1>4 DEF DequeueCheck, DequeueReceive, DequeueSubDepth, DequeueSubMemCount,
     DequeueTimer, DequeueEmpty, DequeueClosing, Results
<1>5. CASE Reopen
  BY <1>5 DEF Reopen, ConsumerTypes, Calls, Results
<1>6. CASE UNCHANGED cons
  BY <1>6 DEF ConsumerTypes
<1>. QED
  <2>1. ASSUME NEW p \in Producers,
               \/ \E m \in Msgs : EnqueueBegin(p, m)
               \/ EnqueueSend(p) \/ EnqueueAddDepth(p) \/ EnqueueAddMemCount(p)
               \/ WriteToDisk(p) \/ WriteToDiskFails(p)
        PROVE  UNCHANGED cons
    BY <2>1, Zenon DEF EnqueueBegin, EnqueueSend, EnqueueAddDepth, EnqueueAddMemCount,
       WriteToDisk, WriteToDiskFails
  <2>2. CASE \/ PumpCheck \/ ReadFromDisk \/ PumpSend \/ PumpAddMemCount \/ PumpExit
             \/ CloseMark \/ CloseSignal \/ CloseHandles \/ CloseRemove \/ UNCHANGED vars
    <3>1. UNCHANGED cons
      BY <2>2, Zenon DEF PumpCheck, ReadFromDisk, PumpSend, PumpAddMemCount, PumpExit,
         CloseMark, CloseSignal, CloseHandles, CloseRemove, vars
    <3>. QED
      BY <3>1, <1>6
  <2>. QED
    BY NextCases, <1>1, <1>2, <1>3, <1>4, <1>5, <1>6, <2>1, <2>2

LEMMA PumpStep == PumpTypes /\ [Next]_vars => PumpTypes'
<1>. SUFFICES ASSUME PumpTypes, [Next]_vars PROVE PumpTypes'
  OBVIOUS
<1>1. CASE PumpCheck \/ PumpSend \/ PumpAddMemCount \/ PumpExit
  BY <1>1 DEF PumpCheck, PumpSend, PumpAddMemCount, PumpExit, PumpTypes
<1>2. CASE ReadFromDisk
  <2>1. \/ pump' = [pump EXCEPT !.pc = "top"]
        \/ \E words : pump' = [pc |-> "send", data |-> Decode(words)]
    BY <1>2 DEF ReadFromDisk
  <2>. QED
    BY <2>1, DecodeType DEF PumpTypes
<1>3. CASE Reopen
  BY <1>3 DEF Reopen, PumpTypes
<1>4. CASE UNCHANGED pump
  BY <1>4 DEF PumpTypes
<1>. QED
  <2>1. ASSUME NEW p \in Producers,
               \/ \E m \in Msgs : EnqueueBegin(p, m)
               \/ EnqueueSend(p) \/ EnqueueAddDepth(p) \/ EnqueueAddMemCount(p)
               \/ WriteToDisk(p) \/ WriteToDiskFails(p)
        PROVE  UNCHANGED pump
    BY <2>1, Zenon DEF EnqueueBegin, EnqueueSend, EnqueueAddDepth, EnqueueAddMemCount,
       WriteToDisk, WriteToDiskFails
  <2>2. ASSUME NEW c \in Consumers,
               \/ \E call \in Calls : DequeueBegin(c, call)
               \/ DequeueCheck(c) \/ DequeueReceive(c) \/ DequeueSubDepth(c)
               \/ DequeueSubMemCount(c) \/ DequeueTimer(c) \/ DequeueEmpty(c)
               \/ DequeueClosing(c)
        PROVE  UNCHANGED pump
    BY <2>2, Zenon DEF DequeueBegin, DequeueCheck, DequeueReceive, DequeueSubDepth,
       DequeueSubMemCount, DequeueTimer, DequeueEmpty, DequeueClosing
  <2>3. CASE CloseMark \/ CloseSignal \/ CloseHandles \/ CloseRemove \/ UNCHANGED vars
    <3>1. UNCHANGED pump
      BY <2>3, Zenon DEF CloseMark, CloseSignal, CloseHandles, CloseRemove, vars
    <3>. QED
      BY <3>1, <1>4
  <2>. QED
    BY NextCases, <1>1, <1>2, <1>3, <1>4, <2>1, <2>2, <2>3

(* The word the reader stands on denotes a natural number. *)
LEMMA LengthType ==
  ASSUME CounterTypes, DiskTypes, ~(readOffset >= Len(file)),
         NEW len \in Lengths(file[readOffset + 1])
  PROVE  len \in Nat
<1>1. readOffset + 1 \in 1 .. Len(file) /\ file \in Seq(Words)
  BY LenProperties DEF CounterTypes, DiskTypes, Words
<1>2. file[readOffset + 1] \in Words
  BY <1>1, ElementOfSeq
<1>. QED
  BY <1>2, QueueAssumption DEF Lengths, Words

(* What a call of readFromDisk changes: nothing, a bad length skipped, or a *)
(* record consumed.                                                         *)
LEMMA ReadOutcome ==
  ASSUME ReadFromDisk, CounterTypes, DiskTypes, PumpTypes
  PROVE  \/ UNCHANGED <<readOffset, diskBytes, pumped>> /\ pump'.pc = "top"
         \/ readOffset' = readOffset + 1 /\ UNCHANGED <<diskBytes, pumped>> /\ pump'.pc = "top"
         \/ \E words : \E len \in Nat :
              /\ readOffset' = readOffset + 1 + len
              /\ diskBytes' = diskBytes - (1 + len)
              /\ pumped' = Append(pumped, Decode(words))
              /\ pump' = [pc |-> "send", data |-> Decode(words)]
<1>1. CASE readOffset >= Len(file)
  BY <1>1 DEF ReadFromDisk, PumpTypes
<1>2. CASE ~(readOffset >= Len(file))
  <2>1. PICK len \in Lengths(file[readOffset + 1]) :
            \/ /\ readOffset' = readOffset + 1
               /\ pump' = [pump EXCEPT !.pc = "top"]
               /\ UNCHANGED <<diskBytes, pumped>>
            \/ /\ pump' = [pump EXCEPT !.pc = "top"]
               /\ UNCHANGED <<readOffset, diskBytes, pumped>>
            \/ /\ readOffset' = NextOffset(len)
               /\ diskBytes' = diskBytes - (1 + len)
               /\ pump' = [pc |-> "send", data |-> Decode(RecordData(len))]
               /\ pumped' = Append(pumped, Decode(RecordData(len)))
    BY <1>2 DEF ReadFromDisk
  <2>2. len \in Nat
    BY <1>2, LengthType
  <2>3. pump' = [pump EXCEPT !.pc = "top"] => pump'.pc = "top"
    BY DEF PumpTypes
  <2>. QED
    BY <2>1, <2>2, <2>3, Zenon DEF NextOffset
<1>. QED BY <1>1, <1>2

LEMMA CounterStep == TypeOK /\ [Next]_vars => CounterTypes'
<1>. SUFFICES ASSUME TypeOK, [Next]_vars PROVE CounterTypes'
  OBVIOUS
<1>0. CounterTypes
  BY DEF TypeOK
<1>. USE DEF CounterTypes, counters, disk
<1>1. ASSUME NEW p \in Producers, NEW m \in Msgs, EnqueueBegin(p, m) PROVE CounterTypes'
  BY <1>0, <1>1 DEF EnqueueBegin
<1>2. ASSUME NEW p \in Producers, EnqueueSend(p) PROVE CounterTypes'
  BY <1>0, <1>2 DEF EnqueueSend
<1>3. ASSUME NEW p \in Producers, EnqueueAddDepth(p) \/ EnqueueAddMemCount(p) PROVE CounterTypes'
  BY <1>0, <1>3 DEF EnqueueAddDepth, EnqueueAddMemCount
<1>4. ASSUME NEW p \in Producers, WriteToDisk(p) \/ WriteToDiskFails(p) PROVE CounterTypes'
  <2>1. prod[p].pc = "disk"
    BY <1>4 DEF WriteToDisk, WriteToDiskFails
  <2>2. RecordWords(prod[p].msg) \in Nat
    <3>1. prod[p].msg \in Msgs
      BY <2>1 DEF TypeOK, ProducerTypes
    <3>. QED
      BY <3>1, SizeType
  <2>. QED
    BY <1>0, <1>4, <2>2 DEF WriteToDisk, WriteToDiskFails
<1>5. ASSUME NEW c \in Consumers, NEW call \in Calls, DequeueBegin(c, call) PROVE CounterTypes'
  BY <1>0, <1>5 DEF DequeueBegin
<1>6. ASSUME NEW c \in Consumers,
             DequeueCheck(c) \/ DequeueReceive(c) \/ DequeueTimer(c) \/ DequeueEmpty(c)
             \/ DequeueClosing(c)
      PROVE  CounterTypes'
  BY <1>0, <1>6 DEF DequeueCheck, DequeueReceive, DequeueTimer, DequeueEmpty, DequeueClosing
<1>7. ASSUME NEW c \in Consumers, DequeueSubDepth(c) \/ DequeueSubMemCount(c) PROVE CounterTypes'
  BY <1>0, <1>7 DEF DequeueSubDepth, DequeueSubMemCount
<1>8. CASE PumpCheck \/ PumpSend \/ PumpAddMemCount \/ PumpExit
  BY <1>0, <1>8 DEF PumpCheck, PumpSend, PumpAddMemCount, PumpExit
<1>9. CASE ReadFromDisk
  <2>1. UNCHANGED <<depth, memCount, life>>
    BY <1>9 DEF ReadFromDisk
  <2>2. readOffset' \in Nat /\ diskBytes' \in Int
    BY <1>0, <1>9, ReadOutcome DEF TypeOK
  <2>3. old' = old \/ \E n \in {old.read, old.read + 1} : old' = [old EXCEPT !.read = n]
    BY <1>9, Zenon DEF ReadFromDisk
  <2>4. old' \in [words : Nat, read : Nat]
    BY <1>0, <2>3
  <2>. QED
    BY <1>0, <2>1, <2>2, <2>4
<1>10. CASE CloseMark \/ CloseSignal \/ CloseHandles \/ CloseRemove
  BY <1>0, <1>10 DEF CloseMark, CloseSignal, CloseHandles, CloseRemove
<1>11. CASE Reopen
  BY <1>0, <1>11, QueueAssumption DEF Reopen
<1>12. CASE UNCHANGED vars
  BY <1>0, <1>12 DEF vars
<1>. QED
  BY NextCases, <1>1, <1>2, <1>3, <1>4, <1>5, <1>6, <1>7, <1>8, <1>9, <1>10, <1>11, <1>12

LEMMA DiskStep == TypeOK /\ [Next]_vars => DiskTypes'
<1>. SUFFICES ASSUME TypeOK, [Next]_vars PROVE DiskTypes'
  OBVIOUS
<1>0. DiskTypes
  BY DEF TypeOK
<1>1. ASSUME NEW p \in Producers, WriteToDisk(p) PROVE DiskTypes'
  <2>1. prod[p].msg \in Msgs
    BY <1>1 DEF WriteToDisk, TypeOK, ProducerTypes
  <2>2. file' \in Seq(Words)
    BY <1>0, <1>1, <2>1, RecordType, ConcatProperties DEF WriteToDisk, Words, DiskTypes
  <2>. QED
    BY <1>0, <1>1, <2>2 DEF WriteToDisk, DiskTypes, ends, Words
<1>2. ASSUME NEW p \in Producers, WriteToDiskFails(p) PROVE DiskTypes'
  <2>1. prod[p].msg \in Msgs
    BY <1>2 DEF WriteToDiskFails, TypeOK, ProducerTypes
  <2>2. \A k \in 0 .. Size[prod[p].msg] : SubSeq(Record(prod[p].msg), 1, k) \in Seq(Words)
    <3>. TAKE k \in 0 .. Size[prod[p].msg]
    <3>1. Record(prod[p].msg) \in Seq(Words) /\ Len(Record(prod[p].msg)) = Size[prod[p].msg] + 1
      BY <2>1, RecordType
    <3>2. Size[prod[p].msg] \in Nat
      BY <2>1, QueueAssumption
    <3>3. \A i \in 1 .. k : Record(prod[p].msg)[i] \in Words
      BY <3>1, <3>2, ElementOfSeq
    <3>. QED
      BY <3>2, <3>3, SubSeqProperties
  <2>3. file' \in Seq(Words)
    <3>1. file \in Seq(Words)
      BY <1>0 DEF Words, DiskTypes
    <3>2. file' = file \/ \E k \in 0 .. Size[prod[p].msg] :
                              file' = file \o SubSeq(Record(prod[p].msg), 1, k)
      BY <1>2, Zenon DEF WriteToDiskFails
    <3>. QED
      BY <2>2, <3>1, <3>2, ConcatProperties
  <2>. QED
    BY <1>0, <1>2, <2>3 DEF WriteToDiskFails, DiskTypes, ends, Words
<1>3. CASE CloseMark \/ CloseSignal \/ CloseHandles
  BY <1>0, <1>3 DEF CloseMark, CloseSignal, CloseHandles, DiskTypes, disk
<1>4. CASE CloseRemove
  BY <1>0, <1>4 DEF CloseRemove, DiskTypes
<1>5. CASE Reopen
  BY <1>0, <1>5 DEF Reopen, DiskTypes
<1>6. CASE UNCHANGED <<file, writer, handles, closer>>
  BY <1>0, <1>6 DEF DiskTypes
<1>. QED
  <2>1. ASSUME NEW p \in Producers,
               \/ \E m \in Msgs : EnqueueBegin(p, m)
               \/ EnqueueSend(p) \/ EnqueueAddDepth(p) \/ EnqueueAddMemCount(p)
        PROVE  UNCHANGED <<file, writer, handles, closer>>
    BY <2>1, Zenon DEF EnqueueBegin, EnqueueSend, EnqueueAddDepth, EnqueueAddMemCount, disk, ends
  <2>2. ASSUME NEW c \in Consumers,
               \/ \E call \in Calls : DequeueBegin(c, call)
               \/ DequeueCheck(c) \/ DequeueReceive(c) \/ DequeueSubDepth(c)
               \/ DequeueSubMemCount(c) \/ DequeueTimer(c) \/ DequeueEmpty(c)
               \/ DequeueClosing(c)
        PROVE  UNCHANGED <<file, writer, handles, closer>>
    BY <2>2, Zenon DEF DequeueBegin, DequeueCheck, DequeueReceive, DequeueSubDepth,
       DequeueSubMemCount, DequeueTimer, DequeueEmpty, DequeueClosing, disk, ends
  <2>3. CASE PumpCheck \/ ReadFromDisk \/ PumpSend \/ PumpAddMemCount \/ PumpExit \/ UNCHANGED vars
    <3>1. UNCHANGED <<file, writer, handles, closer>>
      BY <2>3, Zenon DEF PumpCheck, ReadFromDisk, PumpSend, PumpAddMemCount, PumpExit,
         vars, disk, ends
    <3>. QED
      BY <3>1, <1>6
  <2>. QED
    BY NextCases, <1>1, <1>2, <1>3, <1>4, <1>5, <1>6, <2>1, <2>2, <2>3

LEMMA MessageStep == TypeOK /\ [Next]_vars => MessageTypes'
<1>. SUFFICES ASSUME TypeOK, [Next]_vars PROVE MessageTypes'
  OBVIOUS
<1>0. MessageTypes
  BY DEF TypeOK
<1>. USE DEF MessageTypes, history
<1>1. ASSUME NEW p \in Producers, NEW m \in Msgs, EnqueueBegin(p, m) PROVE MessageTypes'
  BY <1>0, <1>1 DEF EnqueueBegin
<1>2. ASSUME NEW p \in Producers, EnqueueSend(p) PROVE MessageTypes'
  <2>1. prod[p].msg \in Msgs
    BY <1>2 DEF EnqueueSend, TypeOK, ProducerTypes
  <2>. QED
    <3>1. CASE Len(memQueue) < MemSize
      <4>1. memQueue' = Append(memQueue, prod[p].msg) /\ accepted' = Append(accepted, prod[p].msg)
        BY <1>2, <3>1 DEF EnqueueSend
      <4>2. memQueue' \in Seq(Msgs \cup {Garbage}) /\ accepted' \in Seq(Msgs)
        BY <1>0, <2>1, <4>1
      <4>. QED
        BY <1>0, <1>2, <4>2 DEF EnqueueSend
    <3>2. CASE ~(Len(memQueue) < MemSize)
      BY <1>0, <1>2, <3>2 DEF EnqueueSend
    <3>. QED BY <3>1, <3>2
<1>3. ASSUME NEW p \in Producers, WriteToDisk(p) PROVE MessageTypes'
  <2>1. prod[p].msg \in Msgs
    BY <1>3 DEF WriteToDisk, TypeOK, ProducerTypes
  <2>. QED
    BY <1>0, <1>3, <2>1 DEF WriteToDisk
<1>4. ASSUME NEW c \in Consumers, DequeueReceive(c) PROVE MessageTypes'
  BY <1>0, <1>4 DEF DequeueReceive
<1>5. CASE PumpSend
  <2>1. pump.data \in Msgs \cup {Garbage}
    BY DEF TypeOK, PumpTypes
  <2>. QED
    BY <1>0, <1>5, <2>1 DEF PumpSend
<1>6. CASE ReadFromDisk
  <2>1. UNCHANGED <<offered, accepted, diskLog, memQueue, delivered>>
    BY <1>6 DEF ReadFromDisk
  <2>2. pumped' = pumped \/ \E words : pumped' = Append(pumped, Decode(words))
    BY <1>6, ReadOutcome DEF TypeOK
  <2>3. pumped' \in Seq(Msgs \cup {Garbage})
    <3>1. ASSUME NEW words, pumped' = Append(pumped, Decode(words))
          PROVE  pumped' \in Seq(Msgs \cup {Garbage})
      <4>1. Decode(words) \in Msgs \cup {Garbage}
        BY DecodeType
      <4>. QED
        BY <1>0, <3>1, <4>1
    <3>. QED
      BY <1>0, <2>2, <3>1
  <2>. QED
    BY <1>0, <2>1, <2>3
<1>7. CASE Reopen
  BY <1>0, <1>7 DEF Reopen
<1>8. CASE UNCHANGED <<memQueue, offered, accepted, diskLog, pumped, delivered>>
  BY <1>0, <1>8
<1>. QED
  <2>1. ASSUME NEW p \in Producers,
               EnqueueAddDepth(p) \/ EnqueueAddMemCount(p) \/ WriteToDiskFails(p)
        PROVE  UNCHANGED <<memQueue, offered, accepted, diskLog, pumped, delivered>>
    BY <2>1, Zenon DEF EnqueueAddDepth, EnqueueAddMemCount, WriteToDiskFails
  <2>2. ASSUME NEW c \in Consumers,
               \/ \E call \in Calls : DequeueBegin(c, call)
               \/ DequeueCheck(c) \/ DequeueSubDepth(c) \/ DequeueSubMemCount(c)
               \/ DequeueTimer(c) \/ DequeueEmpty(c) \/ DequeueClosing(c)
        PROVE  UNCHANGED <<memQueue, offered, accepted, diskLog, pumped, delivered>>
    BY <2>2, Zenon DEF DequeueBegin, DequeueCheck, DequeueSubDepth,
       DequeueSubMemCount, DequeueTimer, DequeueEmpty, DequeueClosing
  <2>3. CASE \/ PumpCheck \/ PumpAddMemCount \/ PumpExit
             \/ CloseMark \/ CloseSignal \/ CloseHandles \/ CloseRemove \/ UNCHANGED vars
    <3>1. UNCHANGED <<memQueue, offered, accepted, diskLog, pumped, delivered>>
      BY <2>3, Zenon DEF PumpCheck, PumpAddMemCount, PumpExit,
         CloseMark, CloseSignal, CloseHandles, CloseRemove, vars
    <3>. QED
      BY <3>1, <1>8
  <2>. QED
    BY NextCases, <1>1, <1>2, <1>3, <1>4, <1>5, <1>6, <1>7, <1>8, <2>1, <2>2, <2>3

(* Every variable of the queue keeps its type: counters stay integers, the  *)
(* program counters stay in range, and a goroutine inside Enqueue always    *)
(* holds a message.                                                         *)
THEOREM TypeCorrect == Spec => []TypeOK
<1>1. TypeOK /\ [Next]_vars => TypeOK'
  BY FlagStep, CounterStep, DiskStep, MessageStep, ProducerStep, ConsumerStep, PumpStep DEF TypeOK
<1>. QED
  BY TypeInit, <1>1, PTL DEF Spec

-----------------------------------------------------------------------------
(* Counting goroutines at a program counter. *)

(* When one element of a finite set P moves, the number of those that are   *)
(* in A changes by that element only.                                       *)
LEMMA CountMove ==
  ASSUME NEW P, IsFiniteSet(P), NEW A \in SUBSET P, NEW B \in SUBSET P, NEW x \in P,
         \A q \in P \ {x} : q \in B <=> q \in A
  PROVE  /\ Cardinality(A) \in Nat
         /\ x \in A /\ x \in B => Cardinality(B) = Cardinality(A)
         /\ x \notin A /\ x \notin B => Cardinality(B) = Cardinality(A)
         /\ x \notin A /\ x \in B => Cardinality(B) = Cardinality(A) + 1
         /\ x \in A /\ x \notin B => Cardinality(B) = Cardinality(A) - 1
<1>1. IsFiniteSet(A) /\ Cardinality(A) \in Nat
  BY FS_Subset, FS_CardinalityType
<1>2. (x \in A <=> x \in B) => A = B
  OBVIOUS
<1>3. x \notin A /\ x \in B => B = A \cup {x}
  OBVIOUS
<1>4. x \in A /\ x \notin B => B = A \ {x}
  OBVIOUS
<1>5. x \notin A => Cardinality(A \cup {x}) = Cardinality(A) + 1
  BY <1>1, FS_AddElement
<1>6. x \in A => Cardinality(A \ {x}) = Cardinality(A) - 1
  BY <1>1, FS_RemoveElement
<1>. QED
  BY <1>1, <1>2, <1>3, <1>4, <1>5, <1>6

(* How a move of one producer changes the two producer counts. *)
LEMMA ProducerMoves ==
  ASSUME NEW p \in Producers, \A q \in Producers \ {p} : prod'[q].pc = prod[q].pc
  PROVE  /\ prod[p].pc = "depth" /\ prod'[p].pc # "depth" => EnqueuesOwingDepth' = EnqueuesOwingDepth - 1
         /\ prod[p].pc # "depth" /\ prod'[p].pc # "depth" => EnqueuesOwingDepth' = EnqueuesOwingDepth
         /\ prod[p].pc # "depth" /\ prod'[p].pc = "depth" => EnqueuesOwingDepth' = EnqueuesOwingDepth + 1
         /\ prod[p].pc \in {"depth", "memCount"} /\ prod'[p].pc \in {"depth", "memCount"} =>
              EnqueuesOwingMemCount' = EnqueuesOwingMemCount
         /\ prod[p].pc \in {"depth", "memCount"} /\ prod'[p].pc \notin {"depth", "memCount"} =>
              EnqueuesOwingMemCount' = EnqueuesOwingMemCount - 1
         /\ prod[p].pc \notin {"depth", "memCount"} /\ prod'[p].pc \in {"depth", "memCount"} =>
              EnqueuesOwingMemCount' = EnqueuesOwingMemCount + 1
         /\ prod[p].pc \notin {"depth", "memCount"} /\ prod'[p].pc \notin {"depth", "memCount"} =>
              EnqueuesOwingMemCount' = EnqueuesOwingMemCount
<1>. DEFINE A == {q \in Producers : prod[q].pc = "depth"}
            B == {q \in Producers : prod'[q].pc = "depth"}
            C == {q \in Producers : prod[q].pc \in {"depth", "memCount"}}
            D == {q \in Producers : prod'[q].pc \in {"depth", "memCount"}}
<1>1. IsFiniteSet(Producers)
  BY QueueAssumption
<1>4. EnqueuesOwingDepth = Cardinality(A) /\ EnqueuesOwingDepth' = Cardinality(B)
      /\ EnqueuesOwingMemCount = Cardinality(C) /\ EnqueuesOwingMemCount' = Cardinality(D)
  BY Zenon DEF EnqueuesOwingDepth, EnqueuesOwingMemCount
<1>5. A \in SUBSET Producers /\ B \in SUBSET Producers /\ C \in SUBSET Producers /\ D \in SUBSET Producers
  OBVIOUS
<1>6. \A q \in Producers \ {p} : (q \in B <=> q \in A) /\ (q \in D <=> q \in C)
  OBVIOUS
<1>7. (p \in A <=> prod[p].pc = "depth") /\ (p \in B <=> prod'[p].pc = "depth")
      /\ (p \in C <=> prod[p].pc \in {"depth", "memCount"}) /\ (p \in D <=> prod'[p].pc \in {"depth", "memCount"})
  OBVIOUS
<1>. HIDE DEF A, B, C, D
<1>8. /\ p \in A /\ p \in B => Cardinality(B) = Cardinality(A)
      /\ p \notin A /\ p \notin B => Cardinality(B) = Cardinality(A)
      /\ p \notin A /\ p \in B => Cardinality(B) = Cardinality(A) + 1
      /\ p \in A /\ p \notin B => Cardinality(B) = Cardinality(A) - 1
  BY <1>1, <1>5, <1>6, CountMove
<1>9. /\ p \in C /\ p \in D => Cardinality(D) = Cardinality(C)
      /\ p \notin C /\ p \notin D => Cardinality(D) = Cardinality(C)
      /\ p \notin C /\ p \in D => Cardinality(D) = Cardinality(C) + 1
      /\ p \in C /\ p \notin D => Cardinality(D) = Cardinality(C) - 1
  BY <1>1, <1>5, <1>6, CountMove
<1>. QED
  BY <1>4, <1>7, <1>8, <1>9, Zenon

(* How a move of one consumer changes the two consumer counts. *)
LEMMA ConsumerMoves ==
  ASSUME NEW c \in Consumers, \A q \in Consumers \ {c} : cons'[q].pc = cons[q].pc
  PROVE  /\ cons[c].pc = "depth" /\ cons'[c].pc # "depth" => DequeuesOwingDepth' = DequeuesOwingDepth - 1
         /\ cons[c].pc # "depth" /\ cons'[c].pc # "depth" => DequeuesOwingDepth' = DequeuesOwingDepth
         /\ cons[c].pc # "depth" /\ cons'[c].pc = "depth" => DequeuesOwingDepth' = DequeuesOwingDepth + 1
         /\ cons[c].pc \in {"depth", "memCount"} /\ cons'[c].pc \in {"depth", "memCount"} =>
              DequeuesOwingMemCount' = DequeuesOwingMemCount
         /\ cons[c].pc \in {"depth", "memCount"} /\ cons'[c].pc \notin {"depth", "memCount"} =>
              DequeuesOwingMemCount' = DequeuesOwingMemCount - 1
         /\ cons[c].pc \notin {"depth", "memCount"} /\ cons'[c].pc \in {"depth", "memCount"} =>
              DequeuesOwingMemCount' = DequeuesOwingMemCount + 1
         /\ cons[c].pc \notin {"depth", "memCount"} /\ cons'[c].pc \notin {"depth", "memCount"} =>
              DequeuesOwingMemCount' = DequeuesOwingMemCount
<1>. DEFINE A == {q \in Consumers : cons[q].pc = "depth"}
            B == {q \in Consumers : cons'[q].pc = "depth"}
            C == {q \in Consumers : cons[q].pc \in {"depth", "memCount"}}
            D == {q \in Consumers : cons'[q].pc \in {"depth", "memCount"}}
<1>1. IsFiniteSet(Consumers)
  BY QueueAssumption
<1>4. DequeuesOwingDepth = Cardinality(A) /\ DequeuesOwingDepth' = Cardinality(B)
      /\ DequeuesOwingMemCount = Cardinality(C) /\ DequeuesOwingMemCount' = Cardinality(D)
  BY Zenon DEF DequeuesOwingDepth, DequeuesOwingMemCount
<1>5. A \in SUBSET Consumers /\ B \in SUBSET Consumers /\ C \in SUBSET Consumers /\ D \in SUBSET Consumers
  OBVIOUS
<1>6. \A q \in Consumers \ {c} : (q \in B <=> q \in A) /\ (q \in D <=> q \in C)
  OBVIOUS
<1>7. (c \in A <=> cons[c].pc = "depth") /\ (c \in B <=> cons'[c].pc = "depth")
      /\ (c \in C <=> cons[c].pc \in {"depth", "memCount"}) /\ (c \in D <=> cons'[c].pc \in {"depth", "memCount"})
  OBVIOUS
<1>. HIDE DEF A, B, C, D
<1>8. /\ c \in A /\ c \in B => Cardinality(B) = Cardinality(A)
      /\ c \notin A /\ c \notin B => Cardinality(B) = Cardinality(A)
      /\ c \notin A /\ c \in B => Cardinality(B) = Cardinality(A) + 1
      /\ c \in A /\ c \notin B => Cardinality(B) = Cardinality(A) - 1
  BY <1>1, <1>5, <1>6, CountMove
<1>9. /\ c \in C /\ c \in D => Cardinality(D) = Cardinality(C)
      /\ c \notin C /\ c \notin D => Cardinality(D) = Cardinality(C)
      /\ c \notin C /\ c \in D => Cardinality(D) = Cardinality(C) + 1
      /\ c \in C /\ c \notin D => Cardinality(D) = Cardinality(C) - 1
  BY <1>1, <1>5, <1>6, CountMove
<1>. QED
  BY <1>4, <1>7, <1>8, <1>9, Zenon

LEMMA OwingTypes ==
  /\ EnqueuesOwingDepth \in Nat /\ EnqueuesOwingMemCount \in Nat
  /\ DequeuesOwingDepth \in Nat /\ DequeuesOwingMemCount \in Nat
  /\ PumpOwingMemCount \in Nat /\ PumpHolding \in Nat
<1>1. IsFiniteSet(Producers) /\ IsFiniteSet(Consumers)
  BY QueueAssumption
<1>2. EnqueuesOwingDepth \in Nat /\ EnqueuesOwingMemCount \in Nat
  BY <1>1, FS_Subset, FS_CardinalityType DEF EnqueuesOwingDepth, EnqueuesOwingMemCount
<1>3. DequeuesOwingDepth \in Nat /\ DequeuesOwingMemCount \in Nat
  BY <1>1, FS_Subset, FS_CardinalityType DEF DequeuesOwingDepth, DequeuesOwingMemCount
<1>4. PumpOwingMemCount \in Nat /\ PumpHolding \in Nat
  BY DEF PumpOwingMemCount, PumpHolding
<1>. QED
  BY <1>2, <1>3, <1>4

LEMMA OwingUnchanged ==
  /\ UNCHANGED prod => UNCHANGED <<EnqueuesOwingDepth, EnqueuesOwingMemCount>>
  /\ UNCHANGED cons => UNCHANGED <<DequeuesOwingDepth, DequeuesOwingMemCount>>
  /\ UNCHANGED pump => UNCHANGED <<PumpOwingMemCount, PumpHolding>>
BY DEF EnqueuesOwingDepth, EnqueuesOwingMemCount, DequeuesOwingDepth, DequeuesOwingMemCount,
   PumpOwingMemCount, PumpHolding

(* A fresh queue: nobody inside a call. *)
LEMMA OwingFresh ==
  ASSUME \A p \in Producers : prod[p].pc = "idle", \A c \in Consumers : cons[c].pc = "idle",
         pump.pc = "top"
  PROVE  /\ EnqueuesOwingDepth = 0 /\ EnqueuesOwingMemCount = 0
         /\ DequeuesOwingDepth = 0 /\ DequeuesOwingMemCount = 0
         /\ PumpOwingMemCount = 0 /\ PumpHolding = 0
<1>1. /\ {p \in Producers : prod[p].pc = "depth"} = {}
      /\ {p \in Producers : prod[p].pc \in {"depth", "memCount"}} = {}
      /\ {c \in Consumers : cons[c].pc = "depth"} = {}
      /\ {c \in Consumers : cons[c].pc \in {"depth", "memCount"}} = {}
  OBVIOUS
<1>. QED
  BY <1>1, FS_EmptySet DEF EnqueuesOwingDepth, EnqueuesOwingMemCount, DequeuesOwingDepth,
     DequeuesOwingMemCount, PumpOwingMemCount, PumpHolding

LEMMA FreshNext ==
  ASSUME \A p \in Producers : prod'[p].pc = "idle", \A c \in Consumers : cons'[c].pc = "idle",
         pump'.pc = "top"
  PROVE  /\ EnqueuesOwingDepth' = 0 /\ EnqueuesOwingMemCount' = 0
         /\ DequeuesOwingDepth' = 0 /\ DequeuesOwingMemCount' = 0
         /\ PumpOwingMemCount' = 0 /\ PumpHolding' = 0
<1>1. /\ {p \in Producers : prod'[p].pc = "depth"} = {}
      /\ {p \in Producers : prod'[p].pc \in {"depth", "memCount"}} = {}
      /\ {c \in Consumers : cons'[c].pc = "depth"} = {}
      /\ {c \in Consumers : cons'[c].pc \in {"depth", "memCount"}} = {}
  OBVIOUS
<1>. QED
  BY <1>1, FS_EmptySet DEF EnqueuesOwingDepth, EnqueuesOwingMemCount, DequeuesOwingDepth,
     DequeuesOwingMemCount, PumpOwingMemCount, PumpHolding

-----------------------------------------------------------------------------
(* The counters.  Both accounting invariants are inductive over the types;  *)
(* every action moves the two sides of each equation by the same amount.    *)

LEMMA AccountStep ==
  ASSUME TypeOK, [Next]_vars, ~\E p \in Producers : WriteToDiskFails(p)
  PROVE  (MemAccounting => MemAccounting') /\ (DepthExact => DepthExact')
<1>. DEFINE L == Len(memQueue)
            D == Len(diskLog) - Len(pumped)
            M == memCount = L - EnqueuesOwingMemCount - PumpOwingMemCount + DequeuesOwingMemCount
            X == depth = (L + D + PumpHolding) - EnqueuesOwingDepth + DequeuesOwingDepth
            Goal == (M => M') /\ (X => X')
<1>0. L \in Nat /\ D \in Int /\ depth \in Int /\ memCount \in Int
  BY LenProperties DEF TypeOK, MessageTypes, CounterTypes
<1>T. ProducerTypes /\ ConsumerTypes /\ PumpTypes /\ MessageTypes
  BY DEF TypeOK
<1>F. (DepthExact <=> X) /\ (DepthExact' <=> X')
  <2>1. CounterTypes /\ CounterTypes' /\ MessageTypes'
    BY CounterStep, MessageStep DEF TypeOK
  <2>2. /\ old.read \in Nat /\ Len(diskLog) \in Nat /\ Len(pumped) \in Nat
        /\ (old.read)' \in Nat /\ Len(diskLog)' \in Nat /\ Len(pumped)' \in Nat
        /\ L' \in Nat
    BY <1>T, <2>1, LenProperties DEF CounterTypes, MessageTypes
  <2>3. /\ Waiting - old.read = L + D + PumpHolding
        /\ Waiting' - (old.read)' = L' + D' + PumpHolding'
    <3>1. PumpHolding \in Nat /\ PumpHolding' \in Nat
      BY DEF PumpHolding
    <3>2. PICK l \in Nat, a \in Nat, b \in Nat, q \in Nat, h \in Nat :
            Len(memQueue) = l /\ Len(diskLog) = a /\ Len(pumped) = b /\ old.read = q
            /\ PumpHolding = h
      BY <1>0, <2>2, <3>1, Zenon
    <3>3. PICK m \in Nat, c \in Nat, d \in Nat, r \in Nat, g \in Nat :
            Len(memQueue)' = m /\ Len(diskLog)' = c /\ Len(pumped)' = d /\ (old.read)' = r
            /\ PumpHolding' = g
      BY <1>0, <2>2, <3>1, Zenon
    <3>4. Waiting = l + (a - (b - q)) + h /\ Waiting' = m + (c - (d - r)) + g
      BY <3>2, <3>3, Zenon DEF Waiting, OwnOnDisk
    <3>5. (l + (a - (b - q)) + h) - q = l + (a - b) + h
      OBVIOUS
    <3>6. (m + (c - (d - r)) + g) - r = m + (c - d) + g
      OBVIOUS
    <3>. QED
      BY <3>2, <3>3, <3>4, <3>5, <3>6, Zenon
  <2>. QED
    BY <2>3, Zenon DEF DepthExact
<1>. SUFFICES Goal
  BY <1>F, Zenon DEF MemAccounting
<1>. HIDE DEF L, D
<1>1. ASSUME NEW p \in Producers, NEW m \in Msgs, EnqueueBegin(p, m) PROVE Goal
  <2>1. EnqueuesOwingDepth' = EnqueuesOwingDepth /\ EnqueuesOwingMemCount' = EnqueuesOwingMemCount
    <3>1. prod[p].pc = "idle"
          /\ (prod' = prod \/ prod' = [prod EXCEPT ![p] = [pc |-> "send", msg |-> m]])
      BY <1>1 DEF EnqueueBegin
    <3>. QED
      <4>1. CASE UNCHANGED prod
        BY <4>1, OwingUnchanged
      <4>2. CASE prod' = [prod EXCEPT ![p] = [pc |-> "send", msg |-> m]]
        <5>1. prod'[p].pc = "send" /\ \A q \in Producers \ {p} : prod'[q].pc = prod[q].pc
          BY <1>T, <4>2 DEF ProducerTypes
        <5>. QED
          BY <3>1, <5>1, ProducerMoves
      <4>. QED
        BY <3>1, <4>1, <4>2
  <2>2. UNCHANGED <<memQueue, diskLog, pumped, depth, memCount, cons, pump>>
    BY <1>1 DEF EnqueueBegin, counters, history
  <2>. QED
    BY <1>0, OwingTypes, OwingUnchanged, <2>1, <2>2 DEF L, D
<1>2. ASSUME NEW p \in Producers, EnqueueSend(p) PROVE Goal
  <2>1. UNCHANGED <<diskLog, pumped, depth, memCount, cons, pump>>
    BY <1>2 DEF EnqueueSend, counters
  <2>2. CASE Len(memQueue) < MemSize
    <3>1. prod[p].pc = "send" /\ prod' = [prod EXCEPT ![p].pc = "depth"]
          /\ memQueue' = Append(memQueue, prod[p].msg)
      BY <1>2, <2>2 DEF EnqueueSend, Goto
    <3>2. EnqueuesOwingDepth' = EnqueuesOwingDepth + 1 /\ EnqueuesOwingMemCount' = EnqueuesOwingMemCount + 1
      <4>1. prod'[p].pc = "depth" /\ \A q \in Producers \ {p} : prod'[q].pc = prod[q].pc
        BY <1>T, <3>1 DEF ProducerTypes, None
      <4>. QED
        BY <3>1, <4>1, ProducerMoves
    <3>3. L' = L + 1
      BY <1>T, <3>1 DEF MessageTypes, L, D
    <3>. QED
      BY <1>0, OwingTypes, OwingUnchanged, <2>1, <3>2, <3>3 DEF L, D
  <2>3. CASE ~(Len(memQueue) < MemSize)
    <3>1. prod[p].pc = "send" /\ prod' = [prod EXCEPT ![p].pc = "disk"] /\ memQueue' = memQueue
      BY <1>2, <2>3 DEF EnqueueSend, Goto
    <3>2. EnqueuesOwingDepth' = EnqueuesOwingDepth /\ EnqueuesOwingMemCount' = EnqueuesOwingMemCount
      <4>1. prod'[p].pc = "disk" /\ \A q \in Producers \ {p} : prod'[q].pc = prod[q].pc
        BY <1>T, <3>1 DEF ProducerTypes, None
      <4>. QED
        BY <3>1, <4>1, ProducerMoves
    <3>. QED
      BY <1>0, OwingTypes, OwingUnchanged, <2>1, <3>1, <3>2 DEF L, D
  <2>. QED BY <2>2, <2>3
<1>3. ASSUME NEW p \in Producers, EnqueueAddDepth(p) PROVE Goal
  <2>1. prod[p].pc = "depth" /\ prod' = [prod EXCEPT ![p].pc = "memCount"] /\ depth' = depth + 1
        /\ UNCHANGED <<memQueue, diskLog, pumped, memCount, cons, pump>>
    BY <1>3 DEF EnqueueAddDepth, Goto, history
  <2>2. EnqueuesOwingDepth' = EnqueuesOwingDepth - 1 /\ EnqueuesOwingMemCount' = EnqueuesOwingMemCount
    <3>1. prod'[p].pc = "memCount" /\ \A q \in Producers \ {p} : prod'[q].pc = prod[q].pc
      BY <1>T, <2>1 DEF ProducerTypes, None
    <3>. QED
      BY <2>1, <3>1, ProducerMoves
  <2>. QED
    BY <1>0, OwingTypes, OwingUnchanged, <2>1, <2>2 DEF L, D
<1>4. ASSUME NEW p \in Producers, EnqueueAddMemCount(p) PROVE Goal
  <2>1. prod[p].pc = "memCount" /\ prod' = [prod EXCEPT ![p] = None] /\ memCount' = memCount + 1
        /\ UNCHANGED <<memQueue, diskLog, pumped, depth, cons, pump>>
    BY <1>4 DEF EnqueueAddMemCount, Leave, history
  <2>2. EnqueuesOwingDepth' = EnqueuesOwingDepth /\ EnqueuesOwingMemCount' = EnqueuesOwingMemCount - 1
    <3>1. prod'[p].pc = "idle" /\ \A q \in Producers \ {p} : prod'[q].pc = prod[q].pc
      BY <1>T, <2>1 DEF ProducerTypes, None
    <3>. QED
      BY <2>1, <3>1, ProducerMoves
  <2>. QED
    BY <1>0, OwingTypes, OwingUnchanged, <2>1, <2>2 DEF L, D
<1>5. ASSUME NEW p \in Producers, WriteToDisk(p) PROVE Goal
  <2>1. prod[p].pc = "disk" /\ prod' = [prod EXCEPT ![p] = None] /\ depth' = depth + 1
        /\ diskLog' = Append(diskLog, prod[p].msg)
        /\ UNCHANGED <<memQueue, pumped, memCount, cons, pump>>
    BY <1>5 DEF WriteToDisk, Leave
  <2>2. EnqueuesOwingDepth' = EnqueuesOwingDepth /\ EnqueuesOwingMemCount' = EnqueuesOwingMemCount
    <3>1. prod'[p].pc = "idle" /\ \A q \in Producers \ {p} : prod'[q].pc = prod[q].pc
      BY <1>T, <2>1 DEF ProducerTypes, None
    <3>. QED
      BY <2>1, <3>1, ProducerMoves
  <2>3. prod[p].msg \in Msgs
    BY <1>T, <2>1 DEF ProducerTypes
  <2>4. D' = D + 1
    BY <1>T, <2>1, <2>3, LenProperties DEF MessageTypes, L, D
  <2>. QED
    BY <1>0, OwingTypes, OwingUnchanged, <2>1, <2>2, <2>4 DEF L, D
<1>6. ASSUME NEW c \in Consumers, NEW call \in Calls, DequeueBegin(c, call) PROVE Goal
  <2>1. cons[c].pc = "idle"
        /\ cons' = [cons EXCEPT ![c] = [pc |-> "check", call |-> call, result |-> "none"]]
        /\ UNCHANGED <<memQueue, diskLog, pumped, depth, memCount, prod, pump>>
    BY <1>6 DEF DequeueBegin, counters, history
  <2>2. DequeuesOwingDepth' = DequeuesOwingDepth /\ DequeuesOwingMemCount' = DequeuesOwingMemCount
    <3>1. cons'[c].pc = "check" /\ \A q \in Consumers \ {c} : cons'[q].pc = cons[q].pc
      BY <1>T, <2>1 DEF ConsumerTypes, Return
    <3>. QED
      BY <2>1, <3>1, ConsumerMoves
  <2>. QED
    BY <1>0, OwingTypes, OwingUnchanged, <2>1, <2>2 DEF L, D
<1>7. ASSUME NEW c \in Consumers,
             DequeueCheck(c) \/ DequeueTimer(c) \/ DequeueEmpty(c) \/ DequeueClosing(c)
      PROVE  Goal
  <2>1. /\ cons[c].pc \in {"check", "select", "closing"}
        /\ UNCHANGED <<memQueue, diskLog, pumped, depth, memCount, prod, pump>>
    BY <1>7 DEF DequeueCheck, DequeueTimer, DequeueEmpty, DequeueClosing, counters, history
  <2>2. \/ \E pc \in {"check", "select", "closing"} : cons' = [cons EXCEPT ![c].pc = pc]
        \/ \E result : Return(c, result)
    BY <1>7 DEF DequeueCheck, DequeueTimer, DequeueEmpty, DequeueClosing
  <2>3. DequeuesOwingDepth' = DequeuesOwingDepth /\ DequeuesOwingMemCount' = DequeuesOwingMemCount
    <3>1. cons'[c].pc \in {"check", "select", "closing", "idle"} /\ \A q \in Consumers \ {c} : cons'[q].pc = cons[q].pc
      BY <1>T, <2>1, <2>2 DEF ConsumerTypes, Return
    <3>. QED
      BY <2>1, <3>1, ConsumerMoves
  <2>. QED
    BY <1>0, OwingTypes, OwingUnchanged, <2>1, <2>3 DEF L, D
<1>8. ASSUME NEW c \in Consumers, DequeueReceive(c) PROVE Goal
  <2>1. /\ cons[c].pc = "select" /\ cons' = [cons EXCEPT ![c].pc = "depth"]
        /\ memQueue # <<>> /\ memQueue' = Tail(memQueue)
        /\ UNCHANGED <<diskLog, pumped, depth, memCount, prod, pump>>
    BY <1>8 DEF DequeueReceive, counters
  <2>2. DequeuesOwingDepth' = DequeuesOwingDepth + 1 /\ DequeuesOwingMemCount' = DequeuesOwingMemCount + 1
    <3>1. cons'[c].pc = "depth" /\ \A q \in Consumers \ {c} : cons'[q].pc = cons[q].pc
      BY <1>T, <2>1 DEF ConsumerTypes, Return
    <3>. QED
      BY <2>1, <3>1, ConsumerMoves
  <2>3. L' = L - 1
    BY <1>T, <2>1 DEF MessageTypes, L
  <2>4. D' = D
    BY <2>1 DEF D
  <2>5. UNCHANGED <<depth, memCount, prod, pump>>
    BY <2>1
  <2>. QED
    BY <1>0, OwingTypes, OwingUnchanged, <2>2, <2>3, <2>4, <2>5
<1>9. ASSUME NEW c \in Consumers, DequeueSubDepth(c) PROVE Goal
  <2>1. /\ cons[c].pc = "depth" /\ cons' = [cons EXCEPT ![c].pc = "memCount"]
        /\ depth' = depth - 1
        /\ UNCHANGED <<memQueue, diskLog, pumped, memCount, prod, pump>>
    BY <1>9 DEF DequeueSubDepth, history
  <2>2. DequeuesOwingDepth' = DequeuesOwingDepth - 1 /\ DequeuesOwingMemCount' = DequeuesOwingMemCount
    <3>1. cons'[c].pc = "memCount" /\ \A q \in Consumers \ {c} : cons'[q].pc = cons[q].pc
      BY <1>T, <2>1 DEF ConsumerTypes, Return
    <3>. QED
      BY <2>1, <3>1, ConsumerMoves
  <2>. QED
    BY <1>0, OwingTypes, OwingUnchanged, <2>1, <2>2 DEF L, D
<1>10. ASSUME NEW c \in Consumers, DequeueSubMemCount(c) PROVE Goal
  <2>1. /\ cons[c].pc = "memCount" /\ Return(c, "data") /\ memCount' = memCount - 1
        /\ UNCHANGED <<memQueue, diskLog, pumped, depth, prod, pump>>
    BY <1>10 DEF DequeueSubMemCount, history
  <2>2. DequeuesOwingDepth' = DequeuesOwingDepth /\ DequeuesOwingMemCount' = DequeuesOwingMemCount - 1
    <3>1. cons'[c].pc = "idle" /\ \A q \in Consumers \ {c} : cons'[q].pc = cons[q].pc
      BY <1>T, <2>1 DEF ConsumerTypes, Return
    <3>. QED
      BY <2>1, <3>1, ConsumerMoves
  <2>. QED
    BY <1>0, OwingTypes, OwingUnchanged, <2>1, <2>2 DEF L, D
<1>11. CASE PumpCheck \/ PumpExit
  <2>1. UNCHANGED <<memQueue, diskLog, pumped, depth, memCount, prod, cons>>
    BY <1>11 DEF PumpCheck, PumpExit, counters, history
  <2>2. PumpHolding' = PumpHolding /\ PumpOwingMemCount' = PumpOwingMemCount
    BY <1>T, <1>11 DEF PumpCheck, PumpExit, PumpTypes, PumpHolding, PumpOwingMemCount
  <2>. QED
    BY <1>0, OwingTypes, OwingUnchanged, <2>1, <2>2 DEF L, D
<1>16. CASE PumpAddMemCount
  <2>1. memCount' = memCount + 1 /\ UNCHANGED <<memQueue, diskLog, pumped, depth, prod, cons>>
    BY <1>16 DEF PumpAddMemCount, history
  <2>2. PumpHolding' = PumpHolding /\ PumpOwingMemCount' = PumpOwingMemCount - 1
    BY <1>T, <1>16 DEF PumpAddMemCount, PumpTypes, PumpHolding, PumpOwingMemCount
  <2>. QED
    BY <1>0, OwingTypes, OwingUnchanged, <2>1, <2>2 DEF L, D
<1>12. CASE PumpSend
  <2>1. UNCHANGED <<diskLog, pumped, depth, memCount, prod, cons>>
    BY <1>12 DEF PumpSend, counters, history
  <2>2. PumpHolding' = PumpHolding - 1 /\ PumpOwingMemCount' = PumpOwingMemCount + 1
    BY <1>12 DEF PumpSend, PumpHolding, PumpOwingMemCount
  <2>3. L' = L + 1
    <3>1. pump.data \in Msgs \cup {Garbage}
      BY <1>T DEF PumpTypes
    <3>. QED
      BY <1>T, <1>12, <3>1 DEF PumpSend, MessageTypes, L
  <2>. QED
    BY <1>0, OwingTypes, OwingUnchanged, <2>1, <2>2, <2>3 DEF L, D
<1>13. CASE ReadFromDisk
  <2>1. pump.pc = "read" /\ UNCHANGED <<memQueue, diskLog, depth, memCount, prod, cons>>
    BY <1>13 DEF ReadFromDisk
  <2>2. \/ pumped' = pumped /\ pump'.pc = "top"
        \/ \E words : pumped' = Append(pumped, Decode(words)) /\ pump'.pc = "send"
    BY <1>13, ReadOutcome DEF TypeOK
  <2>3. CASE pumped' = pumped /\ pump'.pc = "top"
    <3>1. PumpHolding' = PumpHolding /\ PumpOwingMemCount' = PumpOwingMemCount
      BY <2>1, <2>3 DEF PumpHolding, PumpOwingMemCount
    <3>. QED
      BY <1>0, OwingTypes, OwingUnchanged, <2>1, <2>3, <3>1 DEF L, D
  <2>4. ASSUME NEW words, pumped' = Append(pumped, Decode(words)), pump'.pc = "send" PROVE Goal
    <3>1. PumpHolding' = PumpHolding + 1 /\ PumpOwingMemCount' = PumpOwingMemCount
      BY <2>1, <2>4 DEF PumpHolding, PumpOwingMemCount
    <3>2. Decode(words) \in Msgs \cup {Garbage}
      BY DecodeType
    <3>3. D' = D - 1
      BY <1>T, <2>1, <2>4, <3>2, LenProperties DEF MessageTypes, L, D
    <3>. QED
      BY <1>0, OwingTypes, OwingUnchanged, <2>1, <3>1, <3>3 DEF L, D
  <2>. QED
    BY <2>2, <2>3, <2>4
<1>14. CASE CloseMark \/ CloseSignal \/ CloseHandles \/ CloseRemove \/ UNCHANGED vars
  <2>1. UNCHANGED <<memQueue, diskLog, pumped, depth, memCount, prod, cons, pump>>
    BY <1>14 DEF CloseMark, CloseSignal, CloseHandles, CloseRemove, vars, counters, history
  <2>. QED
    BY <1>0, OwingTypes, OwingUnchanged, <2>1 DEF L, D
<1>15. CASE Reopen
  <2>1. memQueue' = <<>> /\ diskLog' = <<>> /\ pumped' = <<>> /\ depth' = 0 /\ memCount' = 0
    BY <1>15 DEF Reopen
  <2>2. EnqueuesOwingDepth' = 0 /\ EnqueuesOwingMemCount' = 0 /\ DequeuesOwingDepth' = 0 /\ DequeuesOwingMemCount' = 0 /\ PumpHolding' = 0 /\ PumpOwingMemCount' = 0
    <3>1. /\ \A p \in Producers : prod'[p].pc = "idle"
          /\ \A c \in Consumers : cons'[c].pc = "idle"
          /\ pump'.pc = "top"
      BY <1>15 DEF Reopen, None
    <3>. QED
      BY <3>1, FreshNext
  <2>. QED
    BY <2>1, <2>2 DEF L, D
<1>. QED
  BY NextCases, <1>1, <1>2, <1>3, <1>4, <1>5, <1>6, <1>7, <1>8, <1>9, <1>10, <1>11, <1>12,
     <1>13, <1>14, <1>15, <1>16

LEMMA AccountInit == Init => MemAccounting /\ DepthExact
<1>. SUFFICES ASSUME Init PROVE MemAccounting /\ DepthExact
  OBVIOUS
<1>1. memQueue = <<>> /\ diskLog = <<>> /\ pumped = <<>> /\ depth = 0 /\ memCount = 0
  BY DEF Init
<1>2. /\ \A p \in Producers : prod[p].pc = "idle"
      /\ \A c \in Consumers : cons[c].pc = "idle"
      /\ pump.pc = "top"
  BY DEF Init, None
<1>3. old.read = 0
  BY DEF Init
<1>. QED
  BY <1>1, <1>2, <1>3, OwingFresh DEF MemAccounting, DepthExact, Waiting, OwnOnDisk

(* A failing write touches neither the channel nor memCount, and marks the  *)
(* queue as faulted for good.                                               *)
LEMMA FailedWrite ==
  ASSUME TypeOK, NEW p \in Producers, WriteToDiskFails(p)
  PROVE  (MemAccounting => MemAccounting') /\ faulted'
<1>1. /\ prod[p].pc = "disk" /\ prod' = [prod EXCEPT ![p] = None]
      /\ UNCHANGED <<memQueue, memCount, cons, pump>> /\ faulted' = TRUE
  BY Zenon DEF WriteToDiskFails, Leave
<1>2. prod'[p].pc = "idle" /\ \A q \in Producers \ {p} : prod'[q].pc = prod[q].pc
  BY <1>1 DEF TypeOK, ProducerTypes, None
<1>3. EnqueuesOwingMemCount' = EnqueuesOwingMemCount
  BY <1>1, <1>2, ProducerMoves
<1>4. UNCHANGED <<PumpOwingMemCount, DequeuesOwingMemCount>>
  BY <1>1, OwingUnchanged
<1>. QED
  BY <1>1, <1>3, <1>4 DEF MemAccounting

(* Once a write has failed the queue stays marked. *)
LEMMA FaultSticks ==
  ASSUME [Next]_vars, faulted PROVE faulted'
<1>. USE DEF history
<1>1. ASSUME NEW p \in Producers, NEW m \in Msgs, EnqueueBegin(p, m) PROVE faulted'
  BY <1>1, Zenon DEF EnqueueBegin
<1>2. ASSUME NEW p \in Producers,
             EnqueueSend(p) \/ EnqueueAddDepth(p) \/ EnqueueAddMemCount(p)
             \/ WriteToDisk(p) \/ WriteToDiskFails(p)
      PROVE  faulted'
  BY <1>2, Zenon DEF EnqueueSend, EnqueueAddDepth, EnqueueAddMemCount, WriteToDisk,
     WriteToDiskFails
<1>3. ASSUME NEW c \in Consumers,
             \/ \E call \in Calls : DequeueBegin(c, call)
             \/ DequeueCheck(c) \/ DequeueReceive(c) \/ DequeueSubDepth(c)
             \/ DequeueSubMemCount(c) \/ DequeueTimer(c) \/ DequeueEmpty(c)
             \/ DequeueClosing(c)
      PROVE  faulted'
  BY <1>3, Zenon DEF DequeueBegin, DequeueCheck, DequeueReceive, DequeueSubDepth,
     DequeueSubMemCount, DequeueTimer, DequeueEmpty, DequeueClosing
<1>4. CASE PumpCheck \/ ReadFromDisk \/ PumpSend \/ PumpAddMemCount \/ PumpExit
  BY <1>4, Zenon DEF PumpCheck, ReadFromDisk, PumpSend, PumpAddMemCount, PumpExit
<1>5. CASE CloseMark \/ CloseSignal \/ CloseHandles \/ CloseRemove \/ Reopen
  BY <1>5, Zenon DEF CloseMark, CloseSignal, CloseHandles, CloseRemove, Reopen
<1>6. CASE UNCHANGED vars
  BY <1>6, Zenon DEF vars
<1>. QED
  BY NextCases, <1>1, <1>2, <1>3, <1>4, <1>5, <1>6, Zenon

(* For any number of producers and consumers and any capacity, memCount is  *)
(* the length of the channel up to the goroutines that still owe it an      *)
(* update, also when writes to disk fail.                                   *)
THEOREM MemCountExact == Spec => []MemAccounting
<1>1. TypeOK /\ MemAccounting /\ [Next]_vars => MemAccounting'
  BY AccountStep, FailedWrite
<1>. QED
  BY AccountInit, <1>1, TypeCorrect, PTL DEF Spec

LEMMA DepthKept == Spec => [](faulted \/ DepthExact)
<1>1. TypeOK /\ (faulted \/ DepthExact) /\ [Next]_vars => (faulted \/ DepthExact)'
  BY AccountStep, FailedWrite, FaultSticks, Zenon
<1>2. Init => (faulted \/ DepthExact)
  BY AccountInit
<1>. QED
  BY <1>1, <1>2, TypeCorrect, PTL DEF Spec

(* Until a write fails or an oversized record is offered, depth counts      *)
(* every message this queue took exactly once wherever it is (in the        *)
(* channel, on disk, with the pump), and falls short by exactly the records *)
(* of an earlier queue that its reader has returned.                        *)
THEOREM DepthCorrect == Spec => []DepthAccounting
<1>1. (faulted \/ DepthExact) => DepthAccounting
  BY Zenon DEF DepthAccounting, WellFramed
<1>. QED
  BY <1>1, DepthKept, PTL

(* Both counters of the queue, depth and memCount, are exact at every point *)
(* of every call, for any number of goroutines (hybrid_queue.go:72-260).    *)
THEOREM BothCountersExact == Spec => []CountersExact
<1>1. DepthAccounting /\ MemAccounting => CountersExact
  BY DEF CountersExact
<1>. QED
  BY <1>1, DepthCorrect, MemCountExact, PTL

LEMMA DepthZero ==
  ASSUME TypeOK, DepthExact, depth = 0 PROVE Waiting <= EnqueuesOwingDepth + old.read
<1>1. /\ Len(memQueue) \in Nat /\ Len(diskLog) \in Nat /\ Len(pumped) \in Nat
      /\ old.read \in Nat
  BY LenProperties DEF TypeOK, MessageTypes, CounterTypes
<1>2. Waiting \in Int
  BY <1>1, OwingTypes DEF Waiting, OwnOnDisk
<1>. QED
  BY <1>1, <1>2, OwingTypes DEF DepthExact

(* A consumer that is told "queue closed" leaves nothing behind but what    *)
(* Enqueues still in flight have put in the channel, and one message for    *)
(* each record of an earlier queue that the reader has returned: over a     *)
(* fresh file the unlocked test of closed and depth is sound.               *)
THEOREM ClosedIsDrained == Spec => ClosedMeansDrained
<1>. DEFINE Answer == WellFramed => \A c \in Consumers :
         cons[c].result # "queue closed" /\ cons'[c].result = "queue closed" =>
           Waiting <= EnqueuesOwingDepth + old.read
<1>1. TypeOK /\ DepthAccounting /\ [Next]_vars => [Answer]_vars
  <2>. SUFFICES ASSUME TypeOK, DepthExact, [Next]_vars, NEW c \in Consumers,
                      cons[c].result # "queue closed", cons'[c].result = "queue closed"
               PROVE  Waiting <= EnqueuesOwingDepth + old.read
    BY Zenon DEF DepthAccounting
  <2>0. ConsumerTypes /\ MessageTypes
    BY DEF TypeOK
  <2>1. depth = 0
    <3>1. ASSUME NEW d \in Consumers, NEW call \in Calls, DequeueBegin(d, call) PROVE FALSE
      <4>1. cons' = [cons EXCEPT ![d] = [pc |-> "check", call |-> call, result |-> "none"]]
        BY <3>1 DEF DequeueBegin
      <4>. QED
        BY <2>0, <4>1 DEF ConsumerTypes
    <3>2. ASSUME NEW d \in Consumers, NEW pc, cons' = [cons EXCEPT ![d].pc = pc] PROVE FALSE
      BY <2>0, <3>2 DEF ConsumerTypes
    <3>3. ASSUME NEW d \in Consumers, NEW result, Return(d, result), result # "queue closed"
          PROVE  FALSE
      BY <2>0, <3>3 DEF ConsumerTypes, Return
    <3>4. ASSUME NEW d \in Consumers,
                 DequeueReceive(d) \/ DequeueSubDepth(d) \/ DequeueSubMemCount(d)
                 \/ DequeueTimer(d) \/ DequeueEmpty(d)
          PROVE  FALSE
      <4>1. \/ \E pc : cons' = [cons EXCEPT ![d].pc = pc]
            \/ \E result \in {"data", "timeout", "empty"} : Return(d, result)
        BY <3>4 DEF DequeueReceive, DequeueSubDepth, DequeueSubMemCount, DequeueTimer, DequeueEmpty
      <4>. QED
        BY <3>2, <3>3, <4>1
    <3>5. ASSUME NEW d \in Consumers, DequeueCheck(d) \/ DequeueClosing(d) PROVE depth = 0
      <4>1. \/ \E pc : cons' = [cons EXCEPT ![d].pc = pc]
            \/ Return(d, "queue closing")
            \/ depth = 0
        BY <3>5 DEF DequeueCheck, DequeueClosing, Drained
      <4>. QED
        BY <3>2, <3>3, <4>1
    <3>6. CASE Reopen
      BY <3>6 DEF Reopen
    <3>7. cons' # cons
      OBVIOUS
    <3>8. ASSUME NEW p \in Producers,
                 \/ \E m \in Msgs : EnqueueBegin(p, m)
                 \/ EnqueueSend(p) \/ EnqueueAddDepth(p) \/ EnqueueAddMemCount(p)
                 \/ WriteToDisk(p) \/ WriteToDiskFails(p)
          PROVE  FALSE
      BY <3>7, <3>8, Zenon DEF EnqueueBegin, EnqueueSend, EnqueueAddDepth, EnqueueAddMemCount,
         WriteToDisk, WriteToDiskFails
    <3>9. CASE \/ PumpCheck \/ ReadFromDisk \/ PumpSend \/ PumpAddMemCount \/ PumpExit
               \/ CloseMark \/ CloseSignal \/ CloseHandles \/ CloseRemove \/ UNCHANGED vars
      BY <3>7, <3>9, Zenon DEF PumpCheck, ReadFromDisk, PumpSend, PumpAddMemCount, PumpExit,
         CloseMark, CloseSignal, CloseHandles, CloseRemove, vars
    <3>. QED
      BY NextCases, <3>1, <3>4, <3>5, <3>6, <3>8, <3>9
  <2>. QED
    BY <2>1, DepthZero
<1>. QED
  BY <1>1, TypeCorrect, DepthCorrect, PTL DEF Spec, ClosedMeansDrained

-----------------------------------------------------------------------------
(* Lanes: what Lane computes, by induction over the length. *)

(* A set of naturals has a least element. *)
(* Induction for a set of good numbers. *)
(* Lane(s, keep) is the last value of a function g that takes one element   *)
(* after the other.                                                         *)
(* Sequences that agree up to n have the same lanes up to n. *)
-----------------------------------------------------------------------------
(* The layout of the file *)

(* The reader may stand behind word k: what follows is a length, or nothing. *)
Boundary(f, k) == k \in 0 .. Len(f) /\ (k < Len(f) => f[k + 1].kind = "length")

(* The length at word i is followed by the data of its message, and then by *)
(* a boundary.                                                              *)
RecordAt(f, i) ==
  /\ f[i].n = Size[f[i].msg]
  /\ \A j \in 1 .. Size[f[i].msg] : f[i + j] = [kind |-> "data", msg |-> f[i].msg, n |-> j]
  /\ Boundary(f, i + Size[f[i].msg])

Framed(f) ==
  /\ Boundary(f, 0)
  /\ \A i \in 1 .. Len(f) : f[i].kind = "length" => RecordAt(f, i)

(* The words of a file with a record behind it. *)
LEMMA AppendedWords ==
  ASSUME NEW f \in Seq(Words), NEW m \in Msgs
  PROVE  /\ Len(f \o Record(m)) = Len(f) + 1 + Size[m]
         /\ \A i \in 1 .. Len(f) : (f \o Record(m))[i] = f[i]
         /\ (f \o Record(m))[Len(f) + 1] = [kind |-> "length", msg |-> m, n |-> Size[m]]
         /\ \A j \in 1 .. Size[m] :
              (f \o Record(m))[Len(f) + 1 + j] = [kind |-> "data", msg |-> m, n |-> j]
<1>. DEFINE r == Record(m)
<1>1. Size[m] \in Nat \ {0}
  BY SizeType
<1>2. r \in Seq(Words) /\ Len(r) = Size[m] + 1
  BY RecordType
<1>3. r[1] = [kind |-> "length", msg |-> m, n |-> Size[m]]
  BY <1>1 DEF Record
<1>4. ASSUME NEW j \in 1 .. Size[m] PROVE r[1 + j] = [kind |-> "data", msg |-> m, n |-> j]
  <2>1. 1 + j \in 1 .. Size[m] + 1 /\ 1 + j # 1 /\ (1 + j) - 1 = j
    BY <1>1
  <2>. QED
    BY <2>1 DEF Record
<1>. HIDE DEF r
<1>5. Len(f) \in Nat
  OBVIOUS
<1>6. /\ Len(f \o r) = Len(f) + Len(r)
      /\ \A i \in 1 .. Len(f) : (f \o r)[i] = f[i]
      /\ \A j \in 1 .. Len(r) : (f \o r)[Len(f) + j] = r[j]
  BY <1>2, <1>5
<1>7. (f \o r)[Len(f) + 1] = r[1]
  BY <1>1, <1>2, <1>6
<1>8. ASSUME NEW j \in 1 .. Size[m]
      PROVE (f \o r)[Len(f) + 1 + j] = [kind |-> "data", msg |-> m, n |-> j]
  <2>1. 1 + j \in 1 .. Len(r) /\ Len(f) + (1 + j) = Len(f) + 1 + j
    BY <1>1, <1>2, <1>5
  <2>. QED
    BY <1>4, <1>6, <2>1
<1>9. Len(f \o r) = Len(f) + 1 + Size[m]
  <2>1. Len(f) + Len(r) = Len(f) + 1 + Size[m]
    BY <1>1, <1>2, <1>5
  <2>. QED
    BY <1>6, <2>1, Zenon
<1>. QED
  BY <1>3, <1>6, <1>7, <1>8, <1>9 DEF r

(* Appending a record keeps every boundary and the layout. *)
LEMMA AppendKeepsBoundary ==
  ASSUME NEW f \in Seq(Words), NEW m \in Msgs, NEW k \in Int, Boundary(f, k)
  PROVE  Boundary(f \o Record(m), k)
<1>. DEFINE g == f \o Record(m)
<1>1. /\ Len(g) = Len(f) + 1 + Size[m]
      /\ \A i \in 1 .. Len(f) : g[i] = f[i]
      /\ g[Len(f) + 1] = [kind |-> "length", msg |-> m, n |-> Size[m]]
  BY AppendedWords
<1>2. Size[m] \in Nat \ {0} /\ Len(f) \in Nat
  BY SizeType
<1>. HIDE DEF g
<1>3. CASE k < Len(f)
  <2>1. k + 1 \in 1 .. Len(f) /\ k \in 0 .. Len(g)
    BY <1>1, <1>2, <1>3 DEF Boundary
  <2>. QED
    BY <1>1, <1>3, <2>1 DEF Boundary, g
<1>4. CASE k = Len(f)
  BY <1>1, <1>2, <1>4 DEF Boundary, g
<1>. QED
  BY <1>2, <1>3, <1>4 DEF Boundary

LEMMA AppendKeepsFrames ==
  ASSUME NEW f \in Seq(Words), NEW m \in Msgs, Framed(f)
  PROVE  Framed(f \o Record(m))
<1>. DEFINE g == f \o Record(m)
<1>1. /\ Len(g) = Len(f) + 1 + Size[m]
      /\ \A i \in 1 .. Len(f) : g[i] = f[i]
      /\ g[Len(f) + 1] = [kind |-> "length", msg |-> m, n |-> Size[m]]
      /\ \A j \in 1 .. Size[m] : g[Len(f) + 1 + j] = [kind |-> "data", msg |-> m, n |-> j]
  BY AppendedWords
<1>2. Size[m] \in Nat \ {0} /\ Len(f) \in Nat
  BY SizeType
<1>3. Boundary(g, 0)
  BY AppendKeepsBoundary DEF Framed
<1>4. ASSUME NEW i \in 1 .. Len(g), g[i].kind = "length" PROVE RecordAt(g, i)
  <2>1. CASE i \in 1 .. Len(f)
    <3>1. g[i] = f[i] /\ RecordAt(f, i)
      BY <1>1, <1>4, <2>1 DEF Framed
    <3>2. f[i].msg \in Msgs /\ Size[f[i].msg] \in Nat
      <4>1. f[i] \in Words
        BY <2>1, ElementOfSeq
      <4>. QED
        BY <4>1, SizeType DEF Words
    <3>3. Boundary(g, i + Size[f[i].msg])
      BY <3>1, <3>2, <1>2, AppendKeepsBoundary DEF RecordAt
    <3>. HIDE DEF g
    <3>4. ASSUME NEW j \in 1 .. Size[f[i].msg] PROVE g[i + j] = f[i + j]
      <4>. DEFINE z == Size[f[i].msg]
                  l == Len(f)
      <4>1. i + z \in 0 .. l
        BY <3>1 DEF RecordAt, Boundary
      <4>2. z \in Nat /\ l \in Nat /\ i \in 1 .. l /\ j \in 1 .. z
        BY <1>2, <2>1, <3>2
      <4>. HIDE DEF z, l
      <4>3. i + j \in 1 .. l
        BY <4>1, <4>2
      <4>. QED
        BY <1>1, <4>3 DEF l
    <3>. QED
      BY <3>1, <3>3, <3>4 DEF RecordAt
  <2>2. CASE i = Len(f) + 1
    <3>. HIDE DEF g
    <3>1. g[i].n = Size[m] /\ g[i].msg = m
      BY <1>1, <2>2
    <3>2. \A j \in 1 .. Size[m] : g[i + j] = [kind |-> "data", msg |-> m, n |-> j]
      BY <1>1, <2>2
    <3>3. Boundary(g, i + Size[m])
      BY <1>1, <1>2, <2>2 DEF Boundary
    <3>. QED
      BY <3>1, <3>2, <3>3 DEF RecordAt
  <2>3. CASE ~(i \in 1 .. Len(f)) /\ i # Len(f) + 1
    <3>. HIDE DEF g
    <3>1. PICK j \in 1 .. Size[m] : i = Len(f) + 1 + j
      <4>1. i - (Len(f) + 1) \in 1 .. Size[m] /\ i = Len(f) + 1 + (i - (Len(f) + 1))
        BY <1>1, <1>2, <2>3
      <4>. QED
        BY <4>1
    <3>2. g[i] = [kind |-> "data", msg |-> m, n |-> j]
      BY <1>1, <3>1
    <3>. QED
      BY <1>4, <3>2
  <2>. QED
    BY <2>1, <2>2, <2>3
<1>. QED
  BY <1>3, <1>4 DEF Framed

(* Tails of records tell the messages apart. *)
LEMMA DecodeRecord ==
  ASSUME NEW m \in Msgs PROVE Decode(Tail(Record(m))) = m
<1>1. ASSUME NEW k \in Msgs
      PROVE  Tail(Record(k))[1] = [kind |-> "data", msg |-> k, n |-> 1]
  <2>1. Size[k] \in Nat \ {0} /\ Record(k) \in Seq(Words) /\ Len(Record(k)) = Size[k] + 1
    BY SizeType, RecordType
  <2>2. Record(k)[2] = [kind |-> "data", msg |-> k, n |-> 1]
    BY <2>1 DEF Record
  <2>3. Tail(Record(k))[1] = Record(k)[2]
    <3>. DEFINE r == Record(k)
    <3>1. r \in Seq(Words) /\ Len(r) >= 2
      BY <2>1
    <3>. HIDE DEF r
    <3>2. Tail(r)[1] = r[2]
      BY <3>1
    <3>. QED
      BY <3>2 DEF r
  <2>. QED
    BY <2>2, <2>3
<1>2. \A k \in Msgs : Tail(Record(m)) = Tail(Record(k)) => k = m
  <2>. SUFFICES ASSUME NEW k \in Msgs, Tail(Record(m)) = Tail(Record(k)) PROVE k = m
    OBVIOUS
  <2>1. [kind |-> "data", msg |-> k, n |-> 1] = [kind |-> "data", msg |-> m, n |-> 1]
    BY <1>1, Zenon
  <2>. QED
    BY <2>1
<1>. QED
  BY <1>2, Zenon DEF Decode

(* A read at a boundary of a well laid out file consumes exactly the record *)
(* that starts there.                                                       *)
LEMMA ReadRecord ==
  ASSUME ReadFromDisk, CounterTypes, DiskTypes, PumpTypes, Framed(file),
         Boundary(file, readOffset), readOffset < Len(file),
         NEW m, m = file[readOffset + 1].msg, Size[m] <= MaxLength
  PROVE  /\ m \in Msgs
         /\ readOffset' = readOffset + 1 + Size[m] /\ Boundary(file, readOffset')
         /\ diskBytes' = diskBytes - (1 + Size[m])
         /\ pumped' = Append(pumped, m)
         /\ pump' = [pc |-> "send", data |-> m]
<1>. DEFINE i == readOffset + 1
            words == RecordData(Size[m])
<1>1. /\ readOffset \in Nat /\ MaxLength \in Nat /\ Len(file) \in Nat /\ file \in Seq(Words)
      /\ i \in 1 .. Len(file)
  BY QueueAssumption DEF CounterTypes, DiskTypes, Words
<1>2. file[i] \in Words
  BY <1>1, ElementOfSeq
<1>3. m \in Msgs /\ Size[m] \in Nat \ {0}
  BY <1>2, SizeType DEF Words
<1>4. file[i].kind = "length" /\ RecordAt(file, i)
  BY <1>1 DEF Boundary, Framed
<1>5. Lengths(file[i]) = {Size[m]}
  BY <1>4 DEF Lengths, RecordAt
<1>6. NextOffset(Size[m]) = i + Size[m] /\ Boundary(file, i + Size[m])
  BY <1>4 DEF RecordAt, NextOffset
<1>7. RecordComplete(Size[m])
  BY <1>1, <1>3, <1>6 DEF RecordComplete, Boundary
<1>8. words = Tail(Record(m))
  <2>1. Record(m) \in Seq(Words) /\ Len(Record(m)) = Size[m] + 1
    BY <1>3, RecordType
  <2>2. /\ Tail(Record(m)) \in Seq(Words) /\ Len(Tail(Record(m))) = Size[m]
        /\ \A j \in 1 .. Size[m] : Tail(Record(m))[j] = Record(m)[j + 1]
    <3>. DEFINE r == Record(m)
    <3>1. r \in Seq(Words) /\ Len(r) = Size[m] + 1 /\ Size[m] \in Nat
      BY <1>3, <2>1
    <3>. HIDE DEF r
    <3>2. /\ Tail(r) \in Seq(Words) /\ Len(Tail(r)) = Size[m]
          /\ \A j \in 1 .. Size[m] : Tail(r)[j] = r[j + 1]
      BY <3>1
    <3>. QED
      BY <3>2 DEF r
  <2>3. ASSUME NEW j \in 1 .. Size[m]
        PROVE  Record(m)[j + 1] = [kind |-> "data", msg |-> m, n |-> j]
    <3>1. j + 1 \in 1 .. Size[m] + 1 /\ j + 1 # 1 /\ (j + 1) - 1 = j
      BY <1>3
    <3>. QED
      BY <3>1 DEF Record
  <2>4. /\ words \in Seq(Words) /\ Len(words) = Size[m]
        /\ \A j \in 1 .. Size[m] : words[j] = file[i + j]
    <3>1. words = SubSeq(file, i + 1, i + Size[m])
      <4>1. readOffset + 2 = i + 1
        BY <1>1
      <4>. HIDE DEF i
      <4>. QED
        BY <1>6, <4>1, Zenon DEF RecordData
    <3>2. /\ i + Size[m] <= Len(file) /\ i + Size[m] \in Nat /\ i + 1 \in Nat /\ 1 <= i + 1
          /\ (i + Size[m]) - (i + 1) + 1 = Size[m]
          /\ \A j \in 1 .. Size[m] : (i + 1) + j - 1 = i + j
      BY <1>1, <1>3, <1>6 DEF Boundary
    <3>. HIDE DEF words, i
    <3>3. /\ SubSeq(file, i + 1, i + Size[m]) \in Seq(Words)
          /\ Len(SubSeq(file, i + 1, i + Size[m])) = Size[m]
          /\ \A j \in 1 .. Size[m] : SubSeq(file, i + 1, i + Size[m])[j] = file[i + j]
      <4>1. \A k \in i + 1 .. i + Size[m] : file[k] \in Words
        <5>1. ASSUME NEW k \in i + 1 .. i + Size[m] PROVE k \in 1 .. Len(file)
          BY <1>1, <1>3, <3>2
        <5>. QED
          BY <1>1, <5>1, ElementOfSeq
      <4>2. i + 1 <= i + Size[m]
        BY <1>1, <1>3
      <4>. DEFINE w == SubSeq(file, i + 1, i + Size[m])
      <4>3. /\ w \in Seq(Words)
            /\ Len(w) = IF i + 1 <= i + Size[m] THEN (i + Size[m]) - (i + 1) + 1 ELSE 0
            /\ \A j \in 1 .. (i + Size[m]) - (i + 1) + 1 : w[j] = file[(i + 1) + j - 1]
        BY <3>2, <4>1, SubSeqProperties
      <4>. HIDE DEF w
      <4>4. \A j \in 1 .. Size[m] : w[j] = file[i + j]
        BY <3>2, <4>3
      <4>5. Len(w) = Size[m]
        BY <3>2, <4>2, <4>3
      <4>. QED
        BY <4>3, <4>4, <4>5 DEF w
    <3>. QED
      BY <3>1, <3>3
  <2>5. \A j \in 1 .. Size[m] : words[j] = Tail(Record(m))[j]
    <3>1. \A j \in 1 .. Size[m] : file[i + j] = [kind |-> "data", msg |-> m, n |-> j]
      BY <1>4 DEF RecordAt
    <3>. HIDE DEF words, i
    <3>. QED
      <4>1. ASSUME NEW j \in 1 .. Size[m] PROVE words[j] = Tail(Record(m))[j]
        <5>1. words[j] = [kind |-> "data", msg |-> m, n |-> j]
          BY <2>4, <3>1, Zenon
        <5>2. Tail(Record(m))[j] = [kind |-> "data", msg |-> m, n |-> j]
          BY <2>2, <2>3, Zenon
        <5>. QED
          BY <5>1, <5>2, Zenon
      <4>. QED
        BY <4>1
  <2>. HIDE DEF words
  <2>. QED
    BY <2>2, <2>4, <2>5, SeqEqual
<1>9. Decode(words) = m
  BY <1>3, <1>8, DecodeRecord, Zenon
<1>10. \E len \in {Size[m]} :
            \/ len > MaxLength
            \/ ~RecordComplete(len)
            \/ /\ readOffset' = NextOffset(len)
               /\ diskBytes' = diskBytes - (1 + len)
               /\ pump' = [pc |-> "send", data |-> Decode(RecordData(len))]
               /\ pumped' = Append(pumped, Decode(RecordData(len)))
  <2>1. ~(readOffset >= Len(file))
    BY <1>1
  <2>. HIDE DEF i, words
  <2>2. \E len \in Lengths(file[readOffset + 1]) :
            \/ len > MaxLength
            \/ ~RecordComplete(len)
            \/ /\ readOffset' = NextOffset(len)
               /\ diskBytes' = diskBytes - (1 + len)
               /\ pump' = [pc |-> "send", data |-> Decode(RecordData(len))]
               /\ pumped' = Append(pumped, Decode(RecordData(len)))
    BY <2>1, Zenon DEF ReadFromDisk
  <2>. QED
    BY <1>5, <2>2 DEF i
<1>11. ~(Size[m] > MaxLength)
  BY <1>1, <1>3
<1>. HIDE DEF words
<1>12. /\ readOffset' = NextOffset(Size[m])
       /\ diskBytes' = diskBytes - (1 + Size[m])
       /\ pump' = [pc |-> "send", data |-> m]
       /\ pumped' = Append(pumped, m)
  BY <1>7, <1>9, <1>10, <1>11, Zenon DEF words
<1>. QED
  BY <1>3, <1>6, <1>12

-----------------------------------------------------------------------------
(* The record boundaries, over every life of the queue *)

SmallRecords == \A i \in DOMAIN file : file[i].kind = "length" => file[i].n <= MaxLength

FileOK == ~faulted => Framed(file) /\ \A i \in DOMAIN file : file[i].msg \in offered

StopOK ==
  /\ handles # "open" => pump.pc \in {"done", "dropped"}
  /\ closer = "remove" => handles = "closed"
  /\ handles = "removed" => closer = "done" /\ file = <<>>

PendingOK == \A p \in Producers : prod[p].pc \in {"send", "disk"} => prod[p].msg \in offered

ReadOK ==
  ~faulted /\ handles # "removed" /\ SmallRecords =>
    Boundary(file, readOffset) /\ \A i \in DOMAIN pumped : pumped[i] \in offered

(* What makes the boundaries survive: as long as no write failed, the file  *)
(* is a sequence of whole records of messages that were offered, and the    *)
(* reader stands on a boundary.                                             *)
FileInv == TypeOK /\ FileOK /\ StopOK /\ PendingOK /\ ReadOK

LEMMA StopStep == ASSUME TypeOK, StopOK, [Next]_vars PROVE StopOK'
<1>. USE DEF StopOK, disk, counters, ends, history
<1>1. ASSUME NEW p \in Producers, NEW m \in Msgs, EnqueueBegin(p, m) PROVE StopOK'
  BY <1>1 DEF EnqueueBegin
<1>2. ASSUME NEW p \in Producers,
             EnqueueSend(p) \/ EnqueueAddDepth(p) \/ EnqueueAddMemCount(p)
      PROVE  StopOK'
  BY <1>2 DEF EnqueueSend, EnqueueAddDepth, EnqueueAddMemCount
<1>3. ASSUME NEW p \in Producers, WriteToDisk(p) PROVE StopOK'
  BY <1>3 DEF WriteToDisk
<1>4. ASSUME NEW p \in Producers, WriteToDiskFails(p) PROVE StopOK'
  <2>1. UNCHANGED <<handles, pump, closer>>
    BY <1>4 DEF WriteToDiskFails
  <2>2. ASSUME handles = "removed" PROVE file' = <<>>
    <3>1. file = <<>>
      BY <2>2
    <3>2. CASE UNCHANGED file
      BY <3>1, <3>2
    <3>3. CASE \E k \in 0 .. Size[prod[p].msg] :
                 /\ handles = "open" \/ k = 0
                 /\ file' = file \o SubSeq(Record(prod[p].msg), 1, k)
      <4>1. file' = file \o SubSeq(Record(prod[p].msg), 1, 0)
        BY <2>2, <3>3
      <4>2. SubSeq(Record(prod[p].msg), 1, 0) = <<>>
        BY SubSeqEmpty
      <4>. QED
        BY <3>1, <4>1, <4>2
    <3>. QED
      BY <1>4, <3>2, <3>3 DEF WriteToDiskFails
  <2>. QED
    BY <2>1, <2>2
<1>5. ASSUME NEW c \in Consumers, NEW call \in Calls, DequeueBegin(c, call) PROVE StopOK'
  BY <1>5 DEF DequeueBegin
<1>6. ASSUME NEW c \in Consumers,
             \/ DequeueCheck(c) \/ DequeueReceive(c) \/ DequeueSubDepth(c)
             \/ DequeueSubMemCount(c) \/ DequeueTimer(c) \/ DequeueEmpty(c)
             \/ DequeueClosing(c)
      PROVE  StopOK'
  BY <1>6, Zenon DEF DequeueCheck, DequeueReceive, DequeueSubDepth, DequeueSubMemCount,
     DequeueTimer, DequeueEmpty, DequeueClosing
<1>7. CASE PumpCheck \/ PumpSend \/ PumpAddMemCount \/ PumpExit
  BY <1>7 DEF PumpCheck, PumpSend, PumpAddMemCount, PumpExit, TypeOK, PumpTypes
<1>8. CASE ReadFromDisk
  BY <1>8 DEF ReadFromDisk
<1>9. CASE CloseMark \/ CloseSignal \/ CloseHandles \/ CloseRemove
  BY <1>9 DEF CloseMark, CloseSignal, CloseHandles, CloseRemove
<1>10. CASE Reopen
  BY <1>10 DEF Reopen
<1>11. CASE UNCHANGED vars
  BY <1>11 DEF vars
<1>. QED
  BY NextCases, <1>1, <1>2, <1>3, <1>4, <1>5, <1>6, <1>7, <1>8, <1>9, <1>10, <1>11, Zenon

LEMMA PendingStep == ASSUME TypeOK, PendingOK, [Next]_vars PROVE PendingOK'
<1>. USE DEF PendingOK, disk, counters, ends, history, TypeOK, ProducerTypes
<1>1. ASSUME NEW p \in Producers, NEW m \in Msgs, EnqueueBegin(p, m) PROVE PendingOK'
  BY <1>1 DEF EnqueueBegin
<1>2. ASSUME NEW p \in Producers,
             EnqueueSend(p) \/ EnqueueAddDepth(p) \/ EnqueueAddMemCount(p)
             \/ WriteToDisk(p) \/ WriteToDiskFails(p)
      PROVE  PendingOK'
  <2>1. UNCHANGED offered
    BY <1>2 DEF EnqueueSend, EnqueueAddDepth, EnqueueAddMemCount, WriteToDisk, WriteToDiskFails
  <2>2. \/ \E pc \in {"depth", "memCount"} : prod' = [prod EXCEPT ![p].pc = pc]
        \/ prod[p].pc = "send" /\ prod' = [prod EXCEPT ![p].pc = "disk"]
        \/ prod' = [prod EXCEPT ![p] = None]
    BY <1>2 DEF EnqueueSend, EnqueueAddDepth, EnqueueAddMemCount, WriteToDisk,
       WriteToDiskFails, Goto, Leave
  <2>. QED
    BY <2>1, <2>2 DEF None
<1>3. CASE Reopen
  BY <1>3 DEF Reopen, None
<1>4. ASSUME NEW c \in Consumers,
             \/ \E call \in Calls : DequeueBegin(c, call)
             \/ DequeueCheck(c) \/ DequeueReceive(c) \/ DequeueSubDepth(c)
             \/ DequeueSubMemCount(c) \/ DequeueTimer(c) \/ DequeueEmpty(c)
             \/ DequeueClosing(c)
      PROVE  UNCHANGED <<prod, offered>>
  BY <1>4, Zenon DEF DequeueBegin, DequeueCheck, DequeueReceive, DequeueSubDepth,
     DequeueSubMemCount, DequeueTimer, DequeueEmpty, DequeueClosing
<1>5. ASSUME \/ PumpCheck \/ ReadFromDisk \/ PumpSend \/ PumpAddMemCount \/ PumpExit
             \/ CloseMark \/ CloseSignal \/ CloseHandles \/ CloseRemove \/ UNCHANGED vars
      PROVE  UNCHANGED <<prod, offered>>
  BY <1>5, Zenon DEF PumpCheck, ReadFromDisk, PumpSend, PumpAddMemCount, PumpExit,
     CloseMark, CloseSignal, CloseHandles, CloseRemove, vars
<1>6. CASE UNCHANGED <<prod, offered>>
  BY <1>6
<1>. QED
  BY NextCases, <1>1, <1>2, <1>3, <1>4, <1>5, <1>6, Zenon

LEMMA FileStep == ASSUME FileInv, [Next]_vars PROVE FileOK' /\ ReadOK'
<1>. USE DEF FileInv, disk, counters, ends, history
<1>0. /\ CounterTypes /\ DiskTypes /\ PumpTypes /\ file \in Seq(Words) /\ offered \subseteq Msgs
      /\ pumped \in Seq(Msgs \cup {Garbage}) /\ DOMAIN file = 1 .. Len(file)
  BY DEF TypeOK, DiskTypes, MessageTypes, Words
<1>1. ASSUME NEW p \in Producers, NEW m \in Msgs, EnqueueBegin(p, m) PROVE FileOK' /\ ReadOK'
  BY <1>1 DEF EnqueueBegin, FileOK, ReadOK, SmallRecords
<1>2. ASSUME UNCHANGED <<file, readOffset, handles, offered, pumped, faulted>>
      PROVE  FileOK' /\ ReadOK'
  BY <1>2 DEF FileOK, ReadOK, SmallRecords
<1>3. ASSUME NEW p \in Producers,
             EnqueueSend(p) \/ EnqueueAddDepth(p) \/ EnqueueAddMemCount(p)
      PROVE  FileOK' /\ ReadOK'
  <2>1. UNCHANGED <<file, readOffset, handles, offered, pumped, faulted>>
    BY <1>3, Zenon DEF EnqueueSend, EnqueueAddDepth, EnqueueAddMemCount
  <2>. QED
    BY <1>2, <2>1
<1>4. ASSUME NEW p \in Producers, WriteToDisk(p) PROVE FileOK' /\ ReadOK'
  <2>. DEFINE m == prod[p].msg
  <2>1. m \in Msgs /\ m \in offered
    BY <1>4 DEF WriteToDisk, TypeOK, ProducerTypes, PendingOK
  <2>2. /\ file' = file \o Record(m)
        /\ UNCHANGED <<readOffset, handles, offered, pumped, faulted>>
    BY <1>4 DEF WriteToDisk
  <2>. HIDE DEF m
  <2>3. /\ Len(file') = Len(file) + 1 + Size[m] /\ DOMAIN file' = 1 .. Len(file')
        /\ \A i \in 1 .. Len(file) : file'[i] = file[i]
        /\ file'[Len(file) + 1] = [kind |-> "length", msg |-> m, n |-> Size[m]]
        /\ \A j \in 1 .. Size[m] : file'[Len(file) + 1 + j] = [kind |-> "data", msg |-> m, n |-> j]
    <3>1. Record(m) \in Seq(Words)
      BY <2>1, RecordType
    <3>2. file' \in Seq(Words)
      BY <1>0, <2>2, <3>1
    <3>3. DOMAIN file' = 1 .. Len(file')
      BY <3>2
    <3>. QED
      BY <1>0, <2>1, <2>2, <3>3, AppendedWords, Zenon
  <2>4. Size[m] \in Nat \ {0} /\ Len(file) \in Nat
    BY <1>0, <2>1, SizeType
  <2>5. FileOK'
    <3>. SUFFICES ASSUME ~faulted' PROVE Framed(file') /\ \A i \in DOMAIN file' : file'[i].msg \in offered'
      BY DEF FileOK
    <3>1. Framed(file')
      BY <1>0, <2>1, <2>2, AppendKeepsFrames DEF FileOK
    <3>2. ASSUME NEW i \in 1 .. Len(file') PROVE file'[i].msg \in offered
      <4>1. CASE i \in 1 .. Len(file)
        BY <1>0, <2>2, <2>3, <4>1 DEF FileOK
      <4>2. CASE i = Len(file) + 1
        BY <2>1, <2>3, <4>2
      <4>3. CASE ~(i \in 1 .. Len(file)) /\ i # Len(file) + 1
        <5>1. i - (Len(file) + 1) \in 1 .. Size[m] /\ i = Len(file) + 1 + (i - (Len(file) + 1))
          BY <2>3, <2>4, <4>3
        <5>2. file'[i] = [kind |-> "data", msg |-> m, n |-> i - (Len(file) + 1)]
          BY <2>3, <5>1
        <5>. QED
          BY <2>1, <5>2
      <4>. QED
        BY <4>1, <4>2, <4>3
    <3>. QED
      BY <2>2, <2>3, <3>1, <3>2
  <2>6. ReadOK'
    <3>. SUFFICES ASSUME ~faulted', handles' # "removed", SmallRecords'
                  PROVE  Boundary(file', readOffset') /\ \A i \in DOMAIN pumped' : pumped'[i] \in offered'
      BY DEF ReadOK
    <3>1. SmallRecords
      <4>1. \A i \in 1 .. Len(file) : i \in 1 .. Len(file')
        BY <2>3, <2>4
      <4>. QED
        BY <1>0, <2>3, <4>1 DEF SmallRecords
    <3>2. Boundary(file, readOffset) /\ \A i \in DOMAIN pumped : pumped[i] \in offered
      BY <2>2, <3>1 DEF ReadOK
    <3>3. Boundary(file', readOffset)
      BY <1>0, <2>1, <2>2, <3>2, AppendKeepsBoundary DEF CounterTypes
    <3>. QED
      BY <2>2, <3>2, <3>3
  <2>. QED
    BY <2>5, <2>6
<1>5. ASSUME NEW p \in Producers, WriteToDiskFails(p) PROVE FileOK' /\ ReadOK'
  BY <1>5, Zenon DEF WriteToDiskFails, FileOK, ReadOK
<1>6. ASSUME NEW c \in Consumers,
             \/ \E call \in Calls : DequeueBegin(c, call)
             \/ DequeueCheck(c) \/ DequeueReceive(c) \/ DequeueSubDepth(c)
             \/ DequeueSubMemCount(c) \/ DequeueTimer(c) \/ DequeueEmpty(c)
             \/ DequeueClosing(c)
      PROVE  FileOK' /\ ReadOK'
  <2>1. UNCHANGED <<file, readOffset, handles, offered, pumped, faulted>>
    BY <1>6, Zenon DEF DequeueBegin, DequeueCheck, DequeueReceive, DequeueSubDepth,
       DequeueSubMemCount, DequeueTimer, DequeueEmpty, DequeueClosing
  <2>. QED
    BY <1>2, <2>1
<1>7. ASSUME PumpCheck \/ PumpSend \/ PumpAddMemCount \/ PumpExit \/ CloseMark \/ CloseSignal
             \/ UNCHANGED vars
      PROVE  FileOK' /\ ReadOK'
  <2>1. UNCHANGED <<file, readOffset, handles, offered, pumped, faulted>>
    BY <1>7, Zenon DEF PumpCheck, PumpSend, PumpAddMemCount, PumpExit, CloseMark, CloseSignal, vars
  <2>. QED
    BY <1>2, <2>1
<1>8. CASE ReadFromDisk
  <2>1. UNCHANGED <<file, handles, offered, faulted>>
    BY <1>8 DEF ReadFromDisk
  <2>2. FileOK'
    BY <2>1 DEF FileOK
  <2>3. ReadOK'
    <3>. SUFFICES ASSUME ~faulted', handles' # "removed", SmallRecords'
                  PROVE  Boundary(file', readOffset') /\ \A i \in DOMAIN pumped' : pumped'[i] \in offered'
      BY DEF ReadOK
    <3>1. SmallRecords /\ Framed(file)
      BY <2>1 DEF SmallRecords, FileOK
    <3>2. Boundary(file, readOffset) /\ \A i \in DOMAIN pumped : pumped[i] \in offered
      BY <2>1, <3>1 DEF ReadOK
    <3>3. CASE readOffset >= Len(file)
      <4>1. UNCHANGED <<readOffset, pumped>>
        BY <1>8, <3>3 DEF ReadFromDisk
      <4>. QED
        BY <2>1, <3>2, <4>1
    <3>4. CASE readOffset < Len(file)
      <4>. DEFINE i == readOffset + 1
                  m == file[i].msg
      <4>1. i \in 1 .. Len(file) /\ file[i].kind = "length"
        BY <1>0, <3>2, <3>4 DEF Boundary, CounterTypes
      <4>2. RecordAt(file, i)
        BY <3>1, <4>1 DEF Framed
      <4>3. Size[m] <= MaxLength
        BY <1>0, <3>1, <4>1, <4>2 DEF SmallRecords, RecordAt
      <4>4. m \in offered
        BY <1>0, <2>1, <4>1 DEF FileOK
      <4>5. Boundary(file, readOffset') /\ pumped' = Append(pumped, m) /\ m \in Msgs
        BY <1>0, <1>8, <3>1, <3>2, <3>4, <4>3, ReadRecord
      <4>6. \A j \in DOMAIN pumped' : pumped'[j] \in offered
        <5>. HIDE DEF m
        <5>. QED
          BY <1>0, <3>2, <4>4, <4>5
      <4>. QED
        BY <2>1, <4>5, <4>6
    <3>. QED
      BY <1>0, <3>3, <3>4 DEF CounterTypes
  <2>. QED
    BY <2>2, <2>3
<1>9. CASE CloseHandles
  <2>1. UNCHANGED <<file, readOffset, offered, pumped, faulted>> /\ handles # "removed"
    BY <1>9 DEF CloseHandles, StopOK
  <2>. QED
    BY <2>1 DEF FileOK, ReadOK, SmallRecords
<1>10. CASE CloseRemove
  <2>1. file' = <<>> /\ handles' = "removed"
    BY <1>10 DEF CloseRemove
  <2>2. Framed(file') /\ DOMAIN file' = {}
    BY <2>1 DEF Framed, Boundary
  <2>. QED
    BY <2>1, <2>2 DEF FileOK, ReadOK
<1>11. CASE Reopen
  <2>1. UNCHANGED <<file, offered, faulted>> /\ readOffset' = 0 /\ pumped' = <<>>
    BY <1>11 DEF Reopen
  <2>2. DOMAIN pumped' = {}
    BY <2>1
  <2>3. ~faulted => Boundary(file, 0)
    BY DEF FileOK, Framed
  <2>. QED
    BY <2>1, <2>2, <2>3 DEF FileOK, ReadOK
<1>. QED
  BY NextCases, <1>1, <1>3, <1>4, <1>5, <1>6, <1>7, <1>8, <1>9, <1>10, <1>11, Zenon

LEMMA FileInit == Init => FileInv
<1>1. Init => FileOK /\ ReadOK /\ StopOK
  <2>. SUFFICES ASSUME Init PROVE FileOK /\ ReadOK /\ StopOK
    OBVIOUS
  <2>1. file = <<>> /\ readOffset = 0 /\ pumped = <<>> /\ handles = "open" /\ closer = "none"
    BY DEF Init
  <2>2. Framed(<<>>) /\ DOMAIN file = {} /\ DOMAIN pumped = {}
    BY <2>1 DEF Framed, Boundary
  <2>. QED
    BY <2>1, <2>2 DEF FileOK, ReadOK, StopOK, Framed
<1>2. Init => PendingOK
  BY DEF Init, PendingOK, None
<1>. QED
  BY <1>1, <1>2, TypeInit DEF FileInv

(* The reader keeps the boundaries of the records across Close, crashes and *)
(* restarts over the same file (NewHybridQueue opens it with O_APPEND and   *)
(* reads it from the start): what readFromDisk hands out is a message that  *)
(* somebody enqueued, whatever the number of queues, messages and goroutines.*)
THEOREM BoundariesKept == Spec => []BoundariesSurviveRestart
<1>1. Init => FileInv
  BY FileInit
<1>2. TypeOK' /\ FileInv /\ [Next]_vars => FileInv'
  BY FileStep, StopStep, PendingStep DEF FileInv
<1>3. FileInv => BoundariesSurviveRestart
  BY DEF FileInv, ReadOK, SmallRecords, BoundariesSurviveRestart
<1>. QED
  BY <1>1, <1>2, <1>3, TypeCorrect, PTL DEF Spec

-----------------------------------------------------------------------------
(* The two lanes *)

Pending(p) == prod[p].pc \in {"send", "disk"}

(* A message is in one place: what a producer still has in hand is neither  *)
(* accepted nor in another's hands.                                         *)
OnceOK ==
  /\ Members(accepted) \subseteq offered /\ OnDisk \subseteq Members(accepted)
  /\ \A p \in Producers : Pending(p) => prod[p].msg \notin Members(accepted)
  /\ \A p, q \in Producers : p # q /\ Pending(p) /\ Pending(q) => prod[p].msg # prod[q].msg

LEMMA OnceStep == ASSUME TypeOK, PendingOK, OnceOK, [Next]_vars PROVE OnceOK'
<1>. USE DEF disk, counters, ends, history
<1>0. /\ accepted \in Seq(Msgs) /\ diskLog \in Seq(Msgs)
      /\ OnDisk = Members(diskLog) /\ OnDisk' = Members(diskLog')
      /\ prod \in [Producers -> [pc : {"idle", "send", "depth", "memCount", "disk"},
                                 msg : Msgs \cup {Garbage}]]
  BY DEF TypeOK, MessageTypes, ProducerTypes, OnDisk, Members
<1>1. ASSUME NEW p \in Producers, NEW m \in Msgs, EnqueueBegin(p, m) PROVE OnceOK'
  <2>1. UNCHANGED <<accepted, diskLog>> /\ offered' = offered \cup {m} /\ m \notin offered
    BY <1>1 DEF EnqueueBegin
  <2>2. UNCHANGED prod \/ prod' = [prod EXCEPT ![p] = [pc |-> "send", msg |-> m]]
    BY <1>1 DEF EnqueueBegin
  <2>. QED
    BY <1>0, <2>1, <2>2 DEF OnceOK, PendingOK, Pending
<1>2. ASSUME NEW p \in Producers, EnqueueSend(p) PROVE OnceOK'
  <2>1. CASE Len(memQueue) < MemSize
    <3>1. /\ UNCHANGED <<diskLog, offered>> /\ accepted' = Append(accepted, prod[p].msg)
          /\ prod[p].pc = "send" /\ prod' = [prod EXCEPT ![p].pc = "depth"]
      BY <1>2, <2>1 DEF EnqueueSend, Goto
    <3>2. Members(accepted') = Members(accepted) \cup {prod[p].msg}
      BY <1>0, <3>1, AppendMembers
    <3>. QED
      BY <1>0, <3>1, <3>2 DEF OnceOK, PendingOK, Pending
  <2>2. CASE ~(Len(memQueue) < MemSize)
    <3>1. /\ UNCHANGED <<diskLog, offered, accepted>>
          /\ prod[p].pc = "send" /\ prod' = [prod EXCEPT ![p].pc = "disk"]
      BY <1>2, <2>2 DEF EnqueueSend, Goto
    <3>. QED
      BY <1>0, <3>1 DEF OnceOK, PendingOK, Pending
  <2>. QED
    BY <2>1, <2>2
<1>3. ASSUME NEW p \in Producers, EnqueueAddDepth(p) \/ EnqueueAddMemCount(p) \/ WriteToDiskFails(p)
      PROVE OnceOK'
  <2>1. UNCHANGED <<diskLog, offered, accepted>>
    BY <1>3 DEF EnqueueAddDepth, EnqueueAddMemCount, WriteToDiskFails
  <2>2. prod' = [prod EXCEPT ![p].pc = "memCount"] \/ prod' = [prod EXCEPT ![p] = None]
    BY <1>3 DEF EnqueueAddDepth, EnqueueAddMemCount, WriteToDiskFails, Goto, Leave
  <2>. QED
    BY <1>0, <2>1, <2>2 DEF OnceOK, PendingOK, Pending, None
<1>4. ASSUME NEW p \in Producers, WriteToDisk(p) PROVE OnceOK'
  <2>1. /\ prod[p].pc = "disk" /\ UNCHANGED offered /\ accepted' = Append(accepted, prod[p].msg)
        /\ diskLog' = Append(diskLog, prod[p].msg) /\ prod' = [prod EXCEPT ![p] = None]
    BY <1>4 DEF WriteToDisk, Leave
  <2>2. /\ Members(accepted') = Members(accepted) \cup {prod[p].msg}
        /\ Members(diskLog') = Members(diskLog) \cup {prod[p].msg}
    BY <1>0, <2>1, AppendMembers
  <2>. QED
    BY <1>0, <2>1, <2>2 DEF OnceOK, PendingOK, Pending, None
<1>5. CASE Reopen
  <2>1. accepted' = <<>> /\ diskLog' = <<>> /\ prod' = [p \in Producers |-> None]
    BY <1>5 DEF Reopen
  <2>2. Members(<<>>) = {}
    BY DEF Members
  <2>. QED
    BY <1>0, <2>1, <2>2 DEF OnceOK, Pending, None
<1>6. CASE UNCHANGED <<prod, offered, accepted, diskLog>>
  BY <1>0, <1>6 DEF OnceOK, Pending
<1>7. ASSUME NEW c \in Consumers,
             \/ \E call \in Calls : DequeueBegin(c, call)
             \/ DequeueCheck(c) \/ DequeueReceive(c) \/ DequeueSubDepth(c)
             \/ DequeueSubMemCount(c) \/ DequeueTimer(c) \/ DequeueEmpty(c)
             \/ DequeueClosing(c)
      PROVE  UNCHANGED <<prod, offered, accepted, diskLog>>
  BY <1>7, Zenon DEF DequeueBegin, DequeueCheck, DequeueReceive, DequeueSubDepth,
     DequeueSubMemCount, DequeueTimer, DequeueEmpty, DequeueClosing
<1>8. ASSUME \/ PumpCheck \/ ReadFromDisk \/ PumpSend \/ PumpAddMemCount \/ PumpExit
             \/ CloseMark \/ CloseSignal \/ CloseHandles \/ CloseRemove \/ UNCHANGED vars
      PROVE  UNCHANGED <<prod, offered, accepted, diskLog>>
  BY <1>8, Zenon DEF PumpCheck, ReadFromDisk, PumpSend, PumpAddMemCount, PumpExit,
     CloseMark, CloseSignal, CloseHandles, CloseRemove, vars
<1>. QED
  BY NextCases, <1>1, <1>2, <1>3, <1>4, <1>5, <1>6, <1>7, <1>8, Zenon

(* Where the records of the log lie in the file. *)
Laid(of) ==
  /\ of \in [0 .. Len(diskLog) -> Nat]
  /\ of[0] = 0 /\ of[Len(diskLog)] = Len(file)
  /\ \A i \in 1 .. Len(diskLog) :
       /\ of[i] = of[i - 1] + 1 + Size[diskLog[i]] /\ of[i] <= Len(file)
       /\ file[of[i - 1] + 1].msg = diskLog[i] /\ file[of[i - 1] + 1].kind = "length"

LogOK ==
  Clean /\ handles # "removed" =>
    \E of : Laid(of) /\ readOffset = of[Len(pumped)] /\ diskBytes = Len(file) - readOffset

HoldOK == Clean /\ pump.pc \in {"send", "dropped"} => pump.data \in OnDisk

Out == delivered \o memQueue

OutOK == Clean => Members(Out) \subseteq Members(accepted)

LanesOK ==
  Clean =>
    /\ MemoryLane(Out) = MemoryLane(accepted)
    /\ DiskLane(Out) \o (IF PumpHolding = 1 THEN <<pump.data>> ELSE <<>>) = pumped

(* The two lanes: the file holds the records of the log one after the       *)
(* other, the reader stands before the first that it has not read, and what *)
(* came out is, lane by lane, what went in.                                 *)
LaneInv == FileInv /\ OnceOK /\ LogOK /\ PumpInOrder /\ HoldOK /\ OutOK /\ LanesOK

(* A clean state has a clean past. *)
LEMMA CleanBefore ==
  ASSUME TypeOK, [Next]_vars, Clean'
  PROVE  Clean /\ ~Reopen /\ \A p \in Producers : ~WriteToDiskFails(p)
<1>. USE DEF disk, counters, ends, history
<1>0. life \in Nat /\ life >= 1 /\ diskLog \in Seq(Msgs)
  BY QueueAssumption DEF TypeOK, CounterTypes, MessageTypes
<1>1. ASSUME NEW p \in Producers, WriteToDiskFails(p) PROVE FALSE
  BY <1>1 DEF WriteToDiskFails, Clean
<1>2. CASE Reopen
  BY <1>0, <1>2 DEF Reopen, Clean
<1>3. CASE UNCHANGED <<life, faulted, diskLog>> /\ ~Reopen
  BY <1>1, <1>3 DEF Clean
<1>4. ASSUME NEW p \in Producers, WriteToDisk(p), ~Reopen PROVE Clean
  <2>1. UNCHANGED <<life, faulted>> /\ diskLog' = Append(diskLog, prod[p].msg)
    BY <1>4 DEF WriteToDisk
  <2>2. \A i \in DOMAIN diskLog : i \in DOMAIN diskLog' /\ diskLog'[i] = diskLog[i]
    BY <1>0, <2>1
  <2>. QED
    BY <2>1, <2>2 DEF Clean
<1>5. ASSUME NEW p \in Producers,
             \/ \E m \in Msgs : EnqueueBegin(p, m)
             \/ EnqueueSend(p) \/ EnqueueAddDepth(p) \/ EnqueueAddMemCount(p)
      PROVE  UNCHANGED <<life, faulted, diskLog>>
  BY <1>5, Zenon DEF EnqueueBegin, EnqueueSend, EnqueueAddDepth, EnqueueAddMemCount
<1>6. ASSUME NEW c \in Consumers,
             \/ \E call \in Calls : DequeueBegin(c, call)
             \/ DequeueCheck(c) \/ DequeueReceive(c) \/ DequeueSubDepth(c)
             \/ DequeueSubMemCount(c) \/ DequeueTimer(c) \/ DequeueEmpty(c)
             \/ DequeueClosing(c)
      PROVE  UNCHANGED <<life, faulted, diskLog>>
  BY <1>6, Zenon DEF DequeueBegin, DequeueCheck, DequeueReceive, DequeueSubDepth,
     DequeueSubMemCount, DequeueTimer, DequeueEmpty, DequeueClosing
<1>7. ASSUME \/ PumpCheck \/ ReadFromDisk \/ PumpSend \/ PumpAddMemCount \/ PumpExit
             \/ CloseMark \/ CloseSignal \/ CloseHandles \/ CloseRemove \/ UNCHANGED vars
      PROVE  UNCHANGED <<life, faulted, diskLog>>
  BY <1>7, Zenon DEF PumpCheck, ReadFromDisk, PumpSend, PumpAddMemCount, PumpExit,
     CloseMark, CloseSignal, CloseHandles, CloseRemove, vars
<1>. QED
  BY NextCases, <1>1, <1>2, <1>3, <1>4, <1>5, <1>6, <1>7, Zenon

(* What the lanes are made of, in the types the lemmas on lanes need. *)
LEMMA LaneTypes ==
  ASSUME TypeOK
  PROVE  /\ accepted \in Seq(Msgs \cup {Garbage}) /\ diskLog \in Seq(Msgs)
         /\ delivered \in Seq(Msgs \cup {Garbage}) /\ memQueue \in Seq(Msgs \cup {Garbage})
         /\ pumped \in Seq(Msgs \cup {Garbage}) /\ Out \in Seq(Msgs \cup {Garbage})
         /\ pump.data \in Msgs \cup {Garbage} /\ OnDisk = Members(diskLog) /\ OnDisk \subseteq Msgs
<1>1. /\ accepted \in Seq(Msgs) /\ diskLog \in Seq(Msgs)
      /\ delivered \in Seq(Msgs \cup {Garbage}) /\ memQueue \in Seq(Msgs \cup {Garbage})
      /\ pumped \in Seq(Msgs \cup {Garbage})
  BY DEF TypeOK, MessageTypes
<1>2. accepted \in Seq(Msgs \cup {Garbage}) /\ Out \in Seq(Msgs \cup {Garbage})
  BY <1>1 DEF Out
<1>3. pump.data \in Msgs \cup {Garbage}
  BY DEF TypeOK, PumpTypes
<1>4. OnDisk = Members(diskLog) /\ OnDisk \subseteq Msgs
  <2>1. \A i \in DOMAIN diskLog : diskLog[i] \in Msgs
    BY <1>1
  <2>. QED
    BY <2>1 DEF OnDisk, Members
<1>. QED
  BY <1>1, <1>2, <1>3, <1>4

(* Steps that touch neither the file, the log nor what was read from it. *)
LEMMA LogKept ==
  ASSUME LaneInv, Clean, UNCHANGED <<file, diskLog, readOffset, diskBytes, pumped>>,
         handles' # "removed" => handles # "removed"
  PROVE  LogOK' /\ PumpInOrder'
<1>1. PumpInOrder'
  BY DEF LaneInv, PumpInOrder
<1>2. LogOK'
  <2>. SUFFICES ASSUME handles' # "removed"
                PROVE  \E of : Laid(of)' /\ readOffset' = of[Len(pumped')]
                               /\ diskBytes' = Len(file') - readOffset'
    BY Zenon DEF LogOK
  <2>1. PICK of : Laid(of) /\ readOffset = of[Len(pumped)] /\ diskBytes = Len(file) - readOffset
    BY DEF LaneInv, LogOK
  <2>2. Laid(of)'
    BY <2>1 DEF Laid
  <2>. QED
    BY <2>1, <2>2
<1>. QED
  BY <1>1, <1>2

(* A message sent straight to the channel joins the memory lane. *)
LEMMA SendLanes ==
  ASSUME LaneInv, Clean, NEW p \in Producers, EnqueueSend(p)
  PROVE  HoldOK' /\ OutOK' /\ LanesOK'
<1>. DEFINE m == prod[p].msg
<1>0. /\ accepted \in Seq(Msgs \cup {Garbage}) /\ diskLog \in Seq(Msgs)
      /\ delivered \in Seq(Msgs \cup {Garbage}) /\ memQueue \in Seq(Msgs \cup {Garbage})
      /\ Out \in Seq(Msgs \cup {Garbage})
  BY LaneTypes DEF LaneInv, FileInv
<1>1. m \in Msgs /\ m \notin OnDisk
  BY DEF LaneInv, FileInv, TypeOK, ProducerTypes, OnceOK, Pending, EnqueueSend
<1>2. UNCHANGED <<diskLog, delivered, pump, pumped>> /\ OnDisk' = OnDisk /\ PumpHolding' = PumpHolding
  BY DEF EnqueueSend, OnDisk, PumpHolding
<1>3. HoldOK'
  BY <1>2 DEF HoldOK, LaneInv
<1>4. CASE Len(memQueue) < MemSize
  <2>1. memQueue' = Append(memQueue, m) /\ accepted' = Append(accepted, m)
    BY <1>4 DEF EnqueueSend
  <2>. HIDE DEF m
  <2>2. Out' = Append(Out, m)
    <3>1. delivered \o Append(memQueue, m) = Append(delivered \o memQueue, m)
      BY <1>0, <1>1
    <3>. QED
      BY <1>2, <2>1, <3>1 DEF Out
  <2>3. Members(Out') = Members(Out) \cup {m} /\ Members(accepted') = Members(accepted) \cup {m}
    BY <1>0, <2>1, <2>2, AppendMembers
  <2>4. OutOK'
    BY <2>3 DEF OutOK, LaneInv
  <2>. DEFINE mem == (Msgs \cup {Garbage}) \ OnDisk
  <2>5. m \in mem
    BY <1>1
  <2>. HIDE DEF mem
  <2>6. /\ Lane(Out', mem) = Append(Lane(Out, mem), m)
        /\ Lane(accepted', mem) = Append(Lane(accepted, mem), m)
        /\ Lane(Out', OnDisk) = Lane(Out, OnDisk)
    <3>1. m \in Msgs \cup {Garbage}
      BY <1>1
    <3>2. ASSUME NEW s \in Seq(Msgs \cup {Garbage}), NEW keep
          PROVE  Lane(Append(s, m), keep) = IF m \in keep THEN Append(Lane(s, keep), m) ELSE Lane(s, keep)
      BY <3>1, LaneAppend
    <3>. QED
      BY <1>0, <1>1, <2>1, <2>2, <2>5, <3>2, Zenon
  <2>7. LanesOK'
    BY <1>2, <2>6, Zenon DEF LanesOK, LaneInv, MemoryLane, DiskLane, mem
  <2>. QED
    BY <1>3, <2>4, <2>7
<1>5. CASE ~(Len(memQueue) < MemSize)
  <2>1. UNCHANGED <<memQueue, accepted>>
    BY <1>5 DEF EnqueueSend
  <2>2. Out' = Out
    BY <1>2, <2>1 DEF Out
  <2>3. OutOK'
    BY <2>1, <2>2 DEF OutOK, LaneInv
  <2>4. LanesOK'
    BY <1>2, <2>1, <2>2, Zenon DEF LanesOK, LaneInv, MemoryLane, DiskLane
  <2>. QED
    BY <1>3, <2>3, <2>4
<1>. QED
  BY <1>4, <1>5

(* A message written to disk is in no lane yet, and leaves the others where *)
(* they are.                                                                *)
LEMMA WriteLanes ==
  ASSUME LaneInv, Clean, NEW p \in Producers, WriteToDisk(p)
  PROVE  HoldOK' /\ OutOK' /\ LanesOK'
<1>. DEFINE m == prod[p].msg
<1>0. /\ accepted \in Seq(Msgs \cup {Garbage}) /\ diskLog \in Seq(Msgs)
      /\ Out \in Seq(Msgs \cup {Garbage}) /\ OnDisk = Members(diskLog)
  BY LaneTypes DEF LaneInv, FileInv
<1>1. m \in Msgs /\ m \notin Members(accepted)
  BY DEF LaneInv, FileInv, TypeOK, ProducerTypes, OnceOK, Pending, WriteToDisk
<1>2. /\ UNCHANGED <<delivered, memQueue, pump, pumped>>
      /\ diskLog' = Append(diskLog, m) /\ accepted' = Append(accepted, m)
  BY DEF WriteToDisk
<1>3. Out' = Out /\ PumpHolding' = PumpHolding
  BY <1>2 DEF Out, PumpHolding
<1>. HIDE DEF m
<1>4. OnDisk' = OnDisk \cup {m} /\ Members(accepted') = Members(accepted) \cup {m}
  <2>1. Members(Append(diskLog, m)) = Members(diskLog) \cup {m}
    BY <1>0, AppendMembers
  <2>2. Members(Append(accepted, m)) = Members(accepted) \cup {m}
    BY <1>0, AppendMembers
  <2>3. OnDisk' = Members(diskLog')
    BY DEF OnDisk, Members
  <2>. QED
    BY <1>0, <1>2, <2>1, <2>2, <2>3
<1>5. HoldOK'
  BY <1>2, <1>4 DEF HoldOK, LaneInv
<1>6. OutOK'
  BY <1>3, <1>4 DEF OutOK, LaneInv
<1>. DEFINE mem == (Msgs \cup {Garbage}) \ OnDisk
            mem2 == (Msgs \cup {Garbage}) \ OnDisk'
<1>7. m \notin mem2 /\ \A x : x # m => (x \in mem <=> x \in mem2) /\ (x \in OnDisk <=> x \in OnDisk')
  BY <1>4
<1>8. ASSUME NEW s \in Seq(Msgs \cup {Garbage}), m \notin Members(s)
      PROVE  Lane(s, mem) = Lane(s, mem2) /\ Lane(s, OnDisk) = Lane(s, OnDisk')
  <2>. HIDE DEF mem, mem2
  <2>1. \A i \in DOMAIN s : s[i] # m
    BY <1>8 DEF Members
  <2>2. \A i \in DOMAIN s : (s[i] \in mem <=> s[i] \in mem2) /\ (s[i] \in OnDisk <=> s[i] \in OnDisk')
    BY <1>7, <2>1
  <2>. QED
    BY <2>2, LaneSame
<1>9. m \notin Members(Out)
  BY <1>1 DEF OutOK, LaneInv
<1>. HIDE DEF mem, mem2
<1>10. Lane(accepted', mem2) = Lane(accepted, mem2)
  <2>1. Lane(Append(accepted, m), mem2)
        = IF m \in mem2 THEN Append(Lane(accepted, mem2), m) ELSE Lane(accepted, mem2)
    BY <1>0, <1>1, LaneAppend
  <2>. QED
    BY <1>2, <1>7, <2>1, Zenon
<1>11. /\ Lane(Out', mem2) = Lane(Out, mem) /\ Lane(Out', OnDisk') = Lane(Out, OnDisk)
       /\ Lane(accepted', mem2) = Lane(accepted, mem)
  BY <1>0, <1>1, <1>3, <1>8, <1>9, <1>10, Zenon
<1>12. LanesOK'
  BY <1>2, <1>3, <1>11, Zenon DEF LanesOK, LaneInv, MemoryLane, DiskLane, mem, mem2
<1>. QED
  BY <1>5, <1>6, <1>12

(* A record the pump sends joins the disk lane. *)
LEMMA PumpLanes ==
  ASSUME LaneInv, Clean, PumpSend
  PROVE  HoldOK' /\ OutOK' /\ LanesOK'
<1>. DEFINE m == pump.data
<1>0. /\ accepted \in Seq(Msgs \cup {Garbage}) /\ pumped \in Seq(Msgs \cup {Garbage})
      /\ delivered \in Seq(Msgs \cup {Garbage}) /\ memQueue \in Seq(Msgs \cup {Garbage})
      /\ Out \in Seq(Msgs \cup {Garbage}) /\ m \in Msgs \cup {Garbage}
  BY LaneTypes DEF LaneInv, FileInv
<1>1. m \in OnDisk /\ PumpHolding = 1
  BY DEF LaneInv, HoldOK, PumpSend, PumpHolding
<1>2. /\ UNCHANGED <<delivered, diskLog, accepted, pumped>> /\ memQueue' = Append(memQueue, m)
      /\ pump'.pc = "memCount"
  BY DEF PumpSend, history
<1>3. OnDisk' = OnDisk /\ PumpHolding' = 0
  BY <1>2 DEF OnDisk, PumpHolding
<1>4. HoldOK'
  BY <1>2 DEF HoldOK
<1>. HIDE DEF m
<1>5. Out' = Append(Out, m)
  <2>1. delivered \o Append(memQueue, m) = Append(delivered \o memQueue, m)
    BY <1>0
  <2>. QED
    BY <1>2, <2>1 DEF Out
<1>6. OutOK'
  <2>1. Members(Append(Out, m)) = Members(Out) \cup {m}
    BY <1>0, AppendMembers
  <2>2. m \in Members(accepted)
    BY <1>1 DEF LaneInv, OnceOK
  <2>. QED
    BY <1>2, <1>5, <2>1, <2>2 DEF OutOK, LaneInv
<1>. DEFINE mem == (Msgs \cup {Garbage}) \ OnDisk
<1>7. m \notin mem
  BY <1>1
<1>. HIDE DEF mem
<1>8. Lane(Out', mem) = Lane(Out, mem) /\ Lane(Out', OnDisk) = Append(Lane(Out, OnDisk), m)
  <2>1. /\ Lane(Append(Out, m), mem) = IF m \in mem THEN Append(Lane(Out, mem), m) ELSE Lane(Out, mem)
        /\ Lane(Append(Out, m), OnDisk)
           = IF m \in OnDisk THEN Append(Lane(Out, OnDisk), m) ELSE Lane(Out, OnDisk)
    BY <1>0, LaneAppend
  <2>. QED
    BY <1>1, <1>5, <1>7, <2>1, Zenon
<1>9. LanesOK'
  <2>1. MemoryLane(Out)' = MemoryLane(accepted)'
    BY <1>2, <1>3, <1>8, Zenon DEF LanesOK, LaneInv, MemoryLane, mem
  <2>2. Lane(Out, OnDisk) \o <<m>> = pumped
    BY <1>1, Zenon DEF LanesOK, LaneInv, DiskLane, m
  <2>3. Lane(Out, OnDisk) \in Seq(Msgs \cup {Garbage})
    BY <1>0, LaneType
  <2>4. Append(Lane(Out, OnDisk), m) = Lane(Out, OnDisk) \o <<m>>
    <3>. DEFINE l == Lane(Out, OnDisk)
    <3>. HIDE DEF l
    <3>1. l \in Seq(Msgs \cup {Garbage}) => Append(l, m) = l \o <<m>>
      BY <1>0
    <3>. QED
      BY <2>3, <3>1 DEF l
  <2>5. DiskLane(Out)' = pumped'
    BY <1>2, <1>3, <1>8, <2>2, <2>4, Zenon DEF DiskLane
  <2>6. pumped' \o <<>> = pumped'
    BY <1>0, <1>2
  <2>7. (DiskLane(Out) \o (IF PumpHolding = 1 THEN <<pump.data>> ELSE <<>>))' = pumped'
    <3>1. ~(PumpHolding' = 1)
      BY <1>3
    <3>. QED
      BY <2>5, <2>6, <3>1, Zenon
  <2>. QED
    BY <2>1, <2>7, Zenon DEF LanesOK
<1>. QED
  BY <1>4, <1>6, <1>9

(* A record written behind the others is the last of the log. *)
LEMMA WriteLog ==
  ASSUME LaneInv, Clean, NEW p \in Producers, WriteToDisk(p)
  PROVE  LogOK' /\ PumpInOrder'
<1>. DEFINE m == prod[p].msg
            n == Len(diskLog)
<1>0. /\ diskLog \in Seq(Msgs) /\ file \in Seq(Words) /\ pumped \in Seq(Msgs \cup {Garbage})
      /\ readOffset \in Nat /\ diskBytes \in Int
  BY DEF LaneInv, FileInv, TypeOK, MessageTypes, DiskTypes, CounterTypes, Words
<1>1. m \in Msgs /\ Size[m] \in Nat \ {0}
  <2>1. m \in Msgs
    BY DEF LaneInv, FileInv, TypeOK, ProducerTypes, WriteToDisk
  <2>. QED
    BY <2>1, SizeType
<1>2. /\ UNCHANGED <<pumped, readOffset, handles>> /\ diskBytes' = diskBytes + 1 + Size[m]
      /\ diskLog' = Append(diskLog, m) /\ file' = file \o Record(m) /\ handles = "open"
  <2>1. diskBytes + (Size[m] + 1) = diskBytes + 1 + Size[m]
    <3>1. \A a, b \in Int : a + (b + 1) = a + 1 + b
      OBVIOUS
    <3>2. diskBytes \in Int /\ Size[m] \in Int
      BY <1>0, <1>1
    <3>. QED
      BY <3>1, <3>2, Zenon
  <2>. QED
    BY <2>1 DEF WriteToDisk, RecordWords
<1>. HIDE DEF m
<1>3. /\ n \in Nat /\ Len(diskLog') = n + 1 /\ diskLog'[n + 1] = m
      /\ \A i \in 1 .. n : diskLog'[i] = diskLog[i]
  BY <1>0, <1>1, <1>2
<1>4. Len(pumped) \in 0 .. n /\ pumped = SubSeq(diskLog, 1, Len(pumped))
  BY <1>0 DEF LaneInv, PumpInOrder
<1>5. PumpInOrder'
  <2>1. SubSeq(diskLog', 1, Len(pumped)) = SubSeq(diskLog, 1, Len(pumped))
    <3>. DEFINE k == Len(pumped)
    <3>1. k \in 0 .. n
      BY <1>4
    <3>. HIDE DEF k
    <3>2. SubSeq(Append(diskLog, m), 1, k) = SubSeq(diskLog, 1, k)
      BY <1>0, <1>1, <1>3, <3>1
    <3>. QED
      BY <1>2, <3>2 DEF k
  <2>2. Len(pumped) <= Len(diskLog')
    BY <1>3, <1>4
  <2>. QED
    BY <1>2, <1>4, <2>1, <2>2 DEF PumpInOrder
<1>6. /\ Len(file) \in Nat /\ Len(file') = Len(file) + 1 + Size[m]
      /\ \A i \in 1 .. Len(file) : file'[i] = file[i]
      /\ file'[Len(file) + 1] = [kind |-> "length", msg |-> m, n |-> Size[m]]
  <2>1. Len(file) \in Nat
    BY <1>0
  <2>2. /\ Len(file \o Record(m)) = Len(file) + 1 + Size[m]
        /\ \A i \in 1 .. Len(file) : (file \o Record(m))[i] = file[i]
        /\ (file \o Record(m))[Len(file) + 1] = [kind |-> "length", msg |-> m, n |-> Size[m]]
    BY <1>0, <1>1, AppendedWords
  <2>. QED
    BY <1>2, <2>1, <2>2, Zenon
<1>7. PICK of : Laid(of) /\ readOffset = of[Len(pumped)] /\ diskBytes = Len(file) - readOffset
  BY <1>2 DEF LaneInv, LogOK
<1>8. PICK of2 : /\ of2 \in [0 .. n + 1 -> Nat] /\ of2[0] = 0 /\ of2[n + 1] = Len(file')
                 /\ \A i \in 0 .. n : of2[i] = of[i]
  <2>. DEFINE of2 == [i \in 0 .. n + 1 |-> IF i = n + 1 THEN Len(file) + 1 + Size[m] ELSE of[i]]
  <2>1. /\ of2 \in [0 .. n + 1 -> Nat] /\ of2[0] = 0 /\ of2[n + 1] = Len(file')
        /\ \A i \in 0 .. n : of2[i] = of[i]
    BY <1>1, <1>3, <1>6, <1>7 DEF Laid
  <2>. HIDE DEF of2
  <2>. QED
    BY <2>1
<1>9. ASSUME NEW i \in 1 .. n + 1
      PROVE  /\ of2[i] = of2[i - 1] + 1 + Size[diskLog'[i]] /\ of2[i] <= Len(file')
             /\ file'[of2[i - 1] + 1].msg = diskLog'[i] /\ file'[of2[i - 1] + 1].kind = "length"
  <2>1. CASE i = n + 1
    <3>1. i - 1 = n /\ of2[i - 1] = Len(file)
      BY <1>3, <1>7, <1>8, <2>1 DEF Laid
    <3>. QED
      BY <1>1, <1>3, <1>6, <1>8, <2>1, <3>1
  <2>2. CASE i # n + 1
    <3>1. i \in 1 .. n /\ i - 1 \in 0 .. n /\ i \in 0 .. n
      BY <1>3, <2>2
    <3>2. /\ of[i] = of[i - 1] + 1 + Size[diskLog[i]] /\ of[i] <= Len(file)
          /\ file[of[i - 1] + 1].msg = diskLog[i] /\ file[of[i - 1] + 1].kind = "length"
          /\ of[i] \in Nat /\ of[i - 1] \in Nat
      BY <1>7, <3>1 DEF Laid
    <3>3. diskLog[i] \in Msgs /\ Size[diskLog[i]] \in Nat
      BY <1>0, <3>1, SizeType
    <3>4. of[i - 1] + 1 \in 1 .. Len(file)
      BY <1>6, <3>2, <3>3
    <3>5. of2[i] = of[i] /\ of2[i - 1] = of[i - 1] /\ diskLog'[i] = diskLog[i]
      BY <1>3, <1>8, <3>1
    <3>6. of[i] <= Len(file')
      BY <1>1, <1>6, <3>2
    <3>7. file'[of[i - 1] + 1] = file[of[i - 1] + 1]
      BY <1>6, <3>4
    <3>. QED
      BY <3>2, <3>5, <3>6, <3>7
  <2>. QED
    BY <2>1, <2>2
<1>10. Laid(of2)'
  BY <1>3, <1>8, <1>9 DEF Laid
<1>11. readOffset' = of2[Len(pumped')] /\ diskBytes' = Len(file') - readOffset'
  <2>1. of2[Len(pumped)] = of[Len(pumped)]
    BY <1>4, <1>8
  <2>2. diskBytes' = Len(file') - readOffset'
    <3>1. /\ diskBytes' = diskBytes + 1 + Size[m] /\ diskBytes = Len(file) - readOffset
          /\ Len(file') = Len(file) + 1 + Size[m] /\ readOffset' = readOffset
      BY <1>2, <1>6, <1>7
    <3>2. Len(file) \in Nat /\ readOffset \in Nat /\ Size[m] \in Nat
      BY <1>0, <1>1, <1>6
    <3>. QED
      BY <3>1, <3>2
  <2>. QED
    BY <1>2, <1>7, <2>1, <2>2
<1>12. LogOK'
  BY <1>10, <1>11, Zenon DEF LogOK
<1>. QED
  BY <1>5, <1>12

(* The pump reads the first record that it has not read. *)
LEMMA ReadLanes ==
  ASSUME LaneInv, Clean, ReadFromDisk
  PROVE  LogOK' /\ PumpInOrder' /\ HoldOK' /\ LanesOK'
<1>. DEFINE n == Len(diskLog)
            k == Len(pumped)
<1>0. /\ diskLog \in Seq(Msgs) /\ file \in Seq(Words) /\ pumped \in Seq(Msgs \cup {Garbage})
      /\ readOffset \in Nat /\ diskBytes \in Int /\ n \in Nat /\ k \in Nat /\ Len(file) \in Nat
      /\ CounterTypes /\ DiskTypes /\ PumpTypes /\ DOMAIN diskLog = 1 .. n
  BY DEF LaneInv, FileInv, TypeOK, MessageTypes, DiskTypes, CounterTypes, Words
<1>1. /\ UNCHANGED <<file, handles, diskLog, accepted, delivered, memQueue>>
      /\ pump.pc = "read"
  BY DEF ReadFromDisk
<1>2. handles = "open" /\ PumpHolding = 0
  BY <1>1 DEF LaneInv, FileInv, StopOK, PumpHolding
<1>3. OnDisk' = OnDisk /\ Out' = Out
  BY <1>1 DEF OnDisk, Out
<1>4. MemoryLane(Out)' = MemoryLane(accepted)'
  BY <1>1, <1>3, Zenon DEF MemoryLane, LanesOK, LaneInv
<1>5. DiskLane(Out) = pumped
  <2>1. DiskLane(Out) \o <<>> = pumped
    <3>1. ~(PumpHolding = 1)
      BY <1>2
    <3>. QED
      BY <3>1, Zenon DEF LanesOK, LaneInv
  <2>2. DiskLane(Out) \in Seq(Msgs \cup {Garbage})
    BY LaneTypes, LaneType DEF LaneInv, FileInv, DiskLane
  <2>. HIDE DEF DiskLane
  <2>. QED
    BY <2>1, <2>2
<1>6. DiskLane(Out)' = pumped
  BY <1>3, <1>5, Zenon DEF DiskLane
<1>7. PICK of : Laid(of) /\ readOffset = of[k] /\ diskBytes = Len(file) - readOffset
  BY <1>2 DEF LaneInv, LogOK
<1>8. k <= n /\ pumped = SubSeq(diskLog, 1, k)
  BY DEF LaneInv, PumpInOrder
<1>9. Laid(of)'
  BY <1>1, <1>7 DEF Laid
<1>10. CASE readOffset >= Len(file)
  <2>1. UNCHANGED <<readOffset, diskBytes, pumped>> /\ pump' = [pump EXCEPT !.pc = "top"]
    BY <1>10 DEF ReadFromDisk
  <2>2. PumpHolding' = 0 /\ pump'.pc = "top"
    BY <1>0, <2>1 DEF PumpHolding, PumpTypes
  <2>3. LogOK'
    BY <1>1, <1>7, <1>9, <2>1, Zenon DEF LogOK
  <2>4. PumpInOrder'
    BY <1>1, <1>8, <2>1 DEF PumpInOrder
  <2>5. HoldOK'
    BY <2>2 DEF HoldOK
  <2>6. (DiskLane(Out) \o (IF PumpHolding = 1 THEN <<pump.data>> ELSE <<>>))' = pumped'
    <3>1. ~(PumpHolding' = 1)
      BY <2>2
    <3>2. pumped \o <<>> = pumped
      BY <1>0
    <3>. QED
      BY <1>6, <2>1, <3>1, <3>2, Zenon
  <2>. QED
    BY <1>4, <2>3, <2>4, <2>5, <2>6, Zenon DEF LanesOK
<1>11. CASE readOffset < Len(file)
  <2>. DEFINE m == diskLog[k + 1]
  <2>1. k < n
    <3>1. k # n
      BY <1>0, <1>7, <1>11 DEF Laid
    <3>2. k \in Nat /\ n \in Nat /\ k <= n
      BY <1>0, <1>8
    <3>. HIDE DEF k, n
    <3>. QED
      BY <3>1, <3>2
  <2>2. k + 1 \in 1 .. n /\ (k + 1) - 1 = k
    BY <1>0, <2>1
  <2>3. /\ of[k + 1] = of[k] + 1 + Size[m]
        /\ file[of[k] + 1].msg = m /\ file[of[k] + 1].kind = "length"
    BY <1>7, <2>2 DEF Laid
  <2>4. m \in Msgs /\ Size[m] <= MaxLength /\ m \in OnDisk
    BY <1>0, <2>2 DEF Clean, OnDisk
  <2>5. Framed(file) /\ Boundary(file, readOffset)
    BY <1>0, <1>7, <1>11, <2>3 DEF LaneInv, FileInv, FileOK, Clean, Boundary
  <2>6. /\ readOffset' = readOffset + 1 + Size[m]
        /\ diskBytes' = diskBytes - (1 + Size[m])
        /\ pumped' = Append(pumped, m)
        /\ pump' = [pc |-> "send", data |-> m]
    <3>1. m = file[readOffset + 1].msg
      BY <1>7, <2>3
    <3>. HIDE DEF m
    <3>. QED
      BY <1>0, <1>11, <2>4, <2>5, <3>1, ReadRecord
  <2>7. Size[m] \in Nat
    BY <2>4, SizeType
  <2>8. LogOK'
    <3>. HIDE DEF m
    <3>1. Len(pumped') = k + 1
      BY <1>0, <2>4, <2>6
    <3>2. readOffset' = of[Len(pumped')]
      BY <1>7, <2>3, <2>6, <3>1
    <3>3. diskBytes' = Len(file') - readOffset'
      <4>1. /\ readOffset' = readOffset + 1 + Size[m] /\ diskBytes = Len(file) - readOffset
            /\ diskBytes' = diskBytes - (1 + Size[m]) /\ Len(file') = Len(file)
        BY <1>1, <1>7, <2>6
      <4>2. Len(file) \in Nat /\ readOffset \in Nat /\ Size[m] \in Nat
        BY <1>0, <2>7
      <4>. QED
        BY <4>1, <4>2
    <3>. QED
      BY <1>9, <3>2, <3>3, Zenon DEF LogOK
  <2>9. PumpInOrder'
    <3>1. Append(SubSeq(diskLog, 1, k), diskLog[k + 1]) = SubSeq(diskLog, 1, k + 1)
      <4>. HIDE DEF k, n
      <4>. QED
        BY <1>0, <2>1
    <3>2. Len(pumped') = k + 1
      <4>. HIDE DEF m
      <4>. QED
        BY <1>0, <2>4, <2>6
    <3>3. pumped' = SubSeq(diskLog, 1, k + 1)
      BY <1>8, <2>6, <3>1, Zenon
    <3>4. k + 1 <= n
      BY <1>0, <2>1
    <3>. QED
      BY <1>1, <3>2, <3>3, <3>4 DEF PumpInOrder
  <2>10. HoldOK'
    BY <1>3, <2>4, <2>6 DEF HoldOK
  <2>11. (DiskLane(Out) \o (IF PumpHolding = 1 THEN <<pump.data>> ELSE <<>>))' = pumped'
    <3>. HIDE DEF m
    <3>1. PumpHolding' = 1 /\ pump'.data = m
      BY <2>6 DEF PumpHolding
    <3>2. pumped \o <<m>> = Append(pumped, m)
      BY <1>0, <2>4
    <3>. QED
      BY <1>6, <2>6, <3>1, <3>2, Zenon
  <2>. QED
    BY <1>4, <2>8, <2>9, <2>10, <2>11, Zenon DEF LanesOK
<1>. QED
  BY <1>0, <1>10, <1>11

LEMMA LaneStep ==
  ASSUME LaneInv, TypeOK', [Next]_vars
  PROVE  LogOK' /\ PumpInOrder' /\ HoldOK' /\ OutOK' /\ LanesOK'
<1>. USE DEF disk, counters, ends, history
<1>. DEFINE Goal == LogOK /\ PumpInOrder /\ HoldOK /\ OutOK /\ LanesOK
<1>0. CASE ~Clean'
  BY <1>0, Zenon DEF LogOK, PumpInOrder, HoldOK, OutOK, LanesOK
<1>. SUFFICES ASSUME Clean' PROVE Goal'
  BY <1>0, Zenon
<1>1. Clean /\ ~Reopen /\ \A p \in Producers : ~WriteToDiskFails(p)
  BY CleanBefore DEF LaneInv, FileInv
<1>2. ASSUME UNCHANGED <<diskLog, pump, delivered, memQueue, accepted, pumped>>
      PROVE  HoldOK' /\ OutOK' /\ LanesOK'
  <2>1. OnDisk' = OnDisk /\ Out' = Out /\ PumpHolding' = PumpHolding
    BY <1>2 DEF OnDisk, Out, PumpHolding
  <2>2. HoldOK' /\ OutOK'
    BY <1>1, <1>2, <2>1 DEF HoldOK, OutOK, LaneInv
  <2>3. LanesOK'
    BY <1>1, <1>2, <2>1, Zenon DEF LanesOK, LaneInv, MemoryLane, DiskLane
  <2>. QED
    BY <2>2, <2>3
<1>3. ASSUME NEW p \in Producers,
             \/ \E m \in Msgs : EnqueueBegin(p, m)
             \/ EnqueueAddDepth(p) \/ EnqueueAddMemCount(p)
      PROVE  Goal'
  <2>1. UNCHANGED <<file, readOffset, handles, diskBytes, diskLog, pump, delivered, memQueue,
                    accepted, pumped>>
    BY <1>3, Zenon DEF EnqueueBegin, EnqueueAddDepth, EnqueueAddMemCount
  <2>. QED
    BY <1>1, <1>2, <2>1, LogKept, Zenon
<1>4. ASSUME NEW p \in Producers, EnqueueSend(p) PROVE Goal'
  <2>1. UNCHANGED <<file, readOffset, handles, diskBytes, diskLog, pumped>>
    BY <1>4, Zenon DEF EnqueueSend
  <2>. QED
    BY <1>1, <1>4, <2>1, LogKept, SendLanes, Zenon
<1>5. ASSUME NEW p \in Producers, WriteToDisk(p) PROVE Goal'
  <2>1. UNCHANGED pumped
    BY <1>5 DEF WriteToDisk
  <2>. QED
    BY <1>1, <1>5, WriteLog, WriteLanes, Zenon
<1>6. ASSUME NEW c \in Consumers,
             \/ \E call \in Calls : DequeueBegin(c, call)
             \/ DequeueCheck(c) \/ DequeueSubDepth(c)
             \/ DequeueSubMemCount(c) \/ DequeueTimer(c) \/ DequeueEmpty(c)
             \/ DequeueClosing(c)
      PROVE  Goal'
  <2>1. UNCHANGED <<file, readOffset, handles, diskBytes, diskLog, pump, delivered, memQueue,
                    accepted, pumped>>
    BY <1>6, Zenon DEF DequeueBegin, DequeueCheck, DequeueSubDepth,
       DequeueSubMemCount, DequeueTimer, DequeueEmpty, DequeueClosing
  <2>. QED
    BY <1>1, <1>2, <2>1, LogKept, Zenon
<1>7. ASSUME NEW c \in Consumers, DequeueReceive(c) PROVE Goal'
  <2>1. /\ UNCHANGED <<file, readOffset, handles, diskBytes, diskLog, pump, accepted, pumped>>
        /\ memQueue # <<>> /\ memQueue' = Tail(memQueue)
        /\ delivered' = Append(delivered, Head(memQueue))
    BY <1>7 DEF DequeueReceive
  <2>2. Out' = Out
    <3>1. delivered \in Seq(Msgs \cup {Garbage}) /\ memQueue \in Seq(Msgs \cup {Garbage})
      BY LaneTypes DEF LaneInv, FileInv
    <3>2. Append(delivered, Head(memQueue)) \o Tail(memQueue) = delivered \o memQueue
      BY <2>1, <3>1
    <3>. QED
      BY <2>1, <3>2 DEF Out
  <2>3. OnDisk' = OnDisk /\ PumpHolding' = PumpHolding
    BY <2>1 DEF OnDisk, PumpHolding
  <2>4. HoldOK' /\ OutOK'
    BY <1>1, <2>1, <2>2, <2>3 DEF HoldOK, OutOK, LaneInv
  <2>5. LanesOK'
    BY <1>1, <2>1, <2>2, <2>3, Zenon DEF LanesOK, LaneInv, MemoryLane, DiskLane
  <2>. QED
    BY <1>1, <2>1, <2>4, <2>5, LogKept, Zenon
<1>8. CASE PumpCheck \/ PumpAddMemCount \/ PumpExit
  <2>1. UNCHANGED <<file, readOffset, handles, diskBytes, diskLog, delivered, memQueue,
                    accepted, pumped>>
    BY <1>8, Zenon DEF PumpCheck, PumpAddMemCount, PumpExit
  <2>2. /\ pump'.data = pump.data
        /\ pump'.pc \in {"send", "dropped"} <=> pump.pc \in {"send", "dropped"}
    BY <1>8 DEF PumpCheck, PumpAddMemCount, PumpExit, LaneInv, FileInv, TypeOK, PumpTypes
  <2>3. OnDisk' = OnDisk /\ Out' = Out /\ PumpHolding' = PumpHolding
    BY <2>1, <2>2 DEF OnDisk, Out, PumpHolding
  <2>4. HoldOK' /\ OutOK'
    BY <1>1, <2>1, <2>2, <2>3 DEF HoldOK, OutOK, LaneInv
  <2>5. LanesOK'
    BY <1>1, <2>1, <2>2, <2>3, Zenon DEF LanesOK, LaneInv, MemoryLane, DiskLane
  <2>. QED
    BY <1>1, <2>1, <2>4, <2>5, LogKept, Zenon
<1>9. CASE ReadFromDisk
  <2>1. UNCHANGED <<accepted, delivered, memQueue>>
    BY <1>9 DEF ReadFromDisk
  <2>2. OutOK'
    BY <1>1, <2>1 DEF OutOK, Out, LaneInv
  <2>. QED
    BY <1>1, <1>9, <2>2, ReadLanes, Zenon
<1>10. CASE PumpSend
  <2>1. UNCHANGED <<file, readOffset, handles, diskBytes, diskLog, pumped>>
    BY <1>10, Zenon DEF PumpSend
  <2>. QED
    BY <1>1, <1>10, <2>1, LogKept, PumpLanes, Zenon
<1>11. CASE CloseMark \/ CloseSignal \/ CloseHandles \/ UNCHANGED vars
  <2>1. UNCHANGED <<file, readOffset, diskBytes, diskLog, pump, delivered, memQueue,
                    accepted, pumped>>
    BY <1>11, Zenon DEF CloseMark, CloseSignal, CloseHandles, vars
  <2>2. handles' # "removed" => handles # "removed"
    BY <1>11 DEF CloseMark, CloseSignal, CloseHandles, vars, LaneInv, FileInv, StopOK
  <2>. QED
    BY <1>1, <1>2, <2>1, <2>2, LogKept, Zenon
<1>12. CASE CloseRemove
  <2>1. /\ UNCHANGED <<diskLog, pump, delivered, memQueue, accepted, pumped>>
        /\ handles' = "removed"
    BY <1>12, Zenon DEF CloseRemove
  <2>2. LogOK'
    BY <2>1 DEF LogOK
  <2>3. PumpInOrder'
    BY <1>1, <2>1 DEF PumpInOrder, LaneInv
  <2>. QED
    BY <1>2, <2>1, <2>2, <2>3, Zenon
<1>. HIDE DEF Goal
<1>. QED
  BY NextCases, <1>1, <1>3, <1>4, <1>5, <1>6, <1>7, <1>8, <1>9, <1>10, <1>11, <1>12, Zenon

(* Nothing overtakes, is lost or comes twice inside a lane, the overflow    *)
(* file is read back record by record as writeToDisk wrote it, and          *)
(* diskBytes is what the reader has not read: for every number of           *)
(* producers, consumers and messages and every capacity of the channel.     *)
THEOREM LanesInOrder == Spec => []LaneOrder
<1>1. Init => LaneInv
  <2>. SUFFICES ASSUME Init PROVE LaneInv
    OBVIOUS
  <2>1. FileInv
    BY FileInit
  <2>2. /\ accepted = <<>> /\ diskLog = <<>> /\ pumped = <<>> /\ delivered = <<>> /\ memQueue = <<>>
        /\ file = <<>> /\ readOffset = 0 /\ diskBytes = 0 /\ pump.pc = "top"
        /\ prod = [p \in Producers |-> None]
    BY DEF Init
  <2>3. Members(<<>>) = {} /\ Out = <<>> /\ PumpHolding = 0
    BY <2>2 DEF Members, Out, PumpHolding
  <2>4. OnceOK
    BY <2>2, <2>3 DEF OnceOK, Pending, None, OnDisk, Members
  <2>5. LogOK
    <3>. DEFINE of == [i \in 0 .. 0 |-> 0]
    <3>1. Laid(of) /\ readOffset = of[Len(pumped)] /\ diskBytes = Len(file) - readOffset
      BY <2>2 DEF Laid
    <3>. HIDE DEF of
    <3>. QED
      BY <3>1 DEF LogOK
  <2>6. PumpInOrder
    <3>1. SubSeq(<<>>, 1, 0) = <<>>
      BY SubSeqEmpty
    <3>. QED
      BY <2>2, <3>1 DEF PumpInOrder
  <2>7. HoldOK /\ OutOK
    BY <2>2, <2>3 DEF HoldOK, OutOK
  <2>8. LanesOK
    <3>1. MemoryLane(Out) = <<>> /\ MemoryLane(accepted) = <<>> /\ DiskLane(Out) = <<>>
      BY <2>2, <2>3, LaneEmpty, Zenon DEF MemoryLane, DiskLane
    <3>2. <<>> \o <<>> = <<>>
      OBVIOUS
    <3>3. ~(PumpHolding = 1)
      BY <2>3
    <3>. QED
      BY <2>2, <3>1, <3>2, <3>3, Zenon DEF LanesOK
  <2>. QED
    BY <2>1, <2>4, <2>5, <2>6, <2>7, <2>8 DEF LaneInv
<1>2. TypeOK' /\ LaneInv /\ [Next]_vars => LaneInv'
  <2>1. TypeOK' /\ LaneInv /\ [Next]_vars => FileInv' /\ OnceOK'
    BY FileStep, StopStep, PendingStep, OnceStep DEF FileInv, LaneInv
  <2>. QED
    BY <2>1, LaneStep, Zenon DEF LaneInv
<1>3. LaneInv => LaneOrder
  <2>. SUFFICES ASSUME LaneInv PROVE LaneOrder
    OBVIOUS
  <2>1. DiskAccounting
    BY DEF DiskAccounting, LaneInv, LogOK
  <2>2. PumpInOrder
    BY DEF LaneInv
  <2>. QED
    BY <2>1, <2>2, Zenon DEF LaneOrder, LaneInv, LanesOK, Out
<1>. QED
  BY <1>1, <1>2, <1>3, TypeCorrect, PTL DEF Spec
=============================================================================
