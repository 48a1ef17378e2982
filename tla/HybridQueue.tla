----------------------------- MODULE HybridQueue -----------------------------
(***************************************************************************)
(* The hybrid memory/disk queue of internal/queue/hybrid_queue.go: a Go     *)
(* channel of MemSize items, an append-only overflow file, a background     *)
(* goroutine (the pump) that moves records from the file to the channel,    *)
(* three lock-free counters, and a Close that stops the pump and removes    *)
(* the file.                                                                *)
(*                                                                          *)
(* Every step below is one atomic Go operation (a channel operation, an     *)
(* atomic counter update) or one critical section of diskMu, so that the    *)
(* goroutines interleave exactly where the code lets them.                  *)
(*                                                                          *)
(* The file is a sequence of words.  A record is one length word followed   *)
(* by Size[m] data words; the reader interprets whatever word it stands on  *)
(* as a length, as the code does.                                           *)
(***************************************************************************)
EXTENDS Integers, Lanes, Sequences, FiniteSets

CONSTANTS
  Producers,     \* goroutines that call Enqueue
  Consumers,     \* goroutines that call Dequeue, DequeueTimeout, TryDequeue
  Msgs,          \* the messages, numbered in the order they are offered
  Size,          \* words of data in a message
  MemSize,       \* capacity of the memQueue channel
  MaxLength,     \* the reader's sanity limit (10MB in the code), in words
  GarbageLength, \* lengths a data word may denote when read as a length
  Garbage,       \* what the reader returns for bytes that are no message
  DiskFaults,    \* whether a write to the overflow file may fail
  MaxLives       \* bound: how often a queue is created over the same file

ASSUME QueueAssumption ==
  /\ IsFiniteSet(Producers) /\ IsFiniteSet(Consumers)
  /\ Msgs \subseteq Nat
  /\ Size \in [Msgs -> Nat \ {0}]
  /\ MemSize \in Nat \ {0}
  /\ MaxLength \in Nat \ {0}
  /\ GarbageLength \subseteq Nat
  /\ Garbage \notin Msgs
  /\ DiskFaults \in BOOLEAN
  /\ MaxLives \in Nat \ {0}

VARIABLES
  memQueue,    \* contents of the channel
  file,        \* words of <streamID>.overflow
  readOffset,  \* words of the file the reader has consumed
  writer,      \* "ok", or "failed" once bufio.Writer holds a sticky error
  handles,     \* the file handles: "open", then "closed", then "removed"
  depth, memCount, diskBytes,
  closed, closeCh,
  prod,        \* per producer: its program counter and the message in hand
  cons,        \* per consumer: its program counter, the call and its result
  pump,        \* the pump's program counter and the record it holds
  closer,      \* where the Close call stands
  life,        \* which queue over this file this is
  old,         \* history: the words this queue found in the file, and how many
               \* of the records among them its reader has returned
  offered,     \* messages some Enqueue has been called with
  (* history *)
  accepted,    \* this life's messages that entered the queue, in order
  diskLog,     \* those of them that were written to disk, in order
  pumped,      \* this life's records, in the order the pump read them
  delivered,   \* this life's dequeued data, in order
  faulted      \* a write to the file has failed

counters == <<depth, memCount, diskBytes>>
disk == <<file, readOffset, writer, handles>>
ends == <<closed, closeCh, closer>>
history == <<accepted, diskLog, pumped, delivered, faulted>>
vars == <<memQueue, disk, counters, ends, prod, cons, pump, life, old, offered, history>>

None == [pc |-> "idle", msg |-> Garbage]
Calls == {"Dequeue", "DequeueTimeout", "TryDequeue"}
Results == {"none", "data", "queue closed", "timeout", "queue closing", "empty"}

(* [4 bytes length][data], as writeToDisk lays a record out. *)
Record(m) ==
  [i \in 1 .. Size[m] + 1 |->
     [kind |-> IF i = 1 THEN "length" ELSE "data", msg |-> m, n |-> IF i = 1 THEN Size[m] ELSE i - 1]]

RecordWords(m) == Size[m] + 1

(* What a word denotes when the reader takes it for a length prefix. *)
Lengths(word) == IF word.kind = "length" THEN {word.n} ELSE GarbageLength

(* The message whose data are these words, if they are a message. *)
Decode(words) ==
  IF \E m \in Msgs : words = Tail(Record(m))
  THEN CHOOSE m \in Msgs : words = Tail(Record(m))
  ELSE Garbage

(* NewHybridQueue on a fresh file. *)
Init ==
  /\ memQueue = <<>>
  /\ readOffset = 0 /\ writer = "ok" /\ handles = "open"
  /\ depth = 0 /\ memCount = 0 /\ diskBytes = 0
  /\ closed = FALSE /\ closeCh = FALSE /\ closer = "none"
  /\ prod = [p \in Producers |-> None]
  /\ cons = [c \in Consumers |-> [pc |-> "idle", call |-> "Dequeue", result |-> "none"]]
  /\ pump = [pc |-> "top", data |-> Garbage]
  /\ accepted = <<>> /\ diskLog = <<>> /\ pumped = <<>> /\ delivered = <<>>
  /\ file = <<>> /\ faulted = FALSE
  /\ life = 1
  /\ old = [words |-> 0, read |-> 0]
  /\ offered = {}

-----------------------------------------------------------------------------
(* Enqueue, by goroutine p *)

Goto(p, pc) == prod' = [prod EXCEPT ![p].pc = pc]
Leave(p) == prod' = [prod EXCEPT ![p] = None]

(* The closed test passes; the limiter may still refuse. *)
EnqueueBegin(p, m) ==
  /\ prod[p].pc = "idle"
  /\ m \notin offered /\ \A k \in Msgs \ offered : m <= k
  /\ offered' = offered \cup {m}
  /\ \/ closed /\ UNCHANGED prod                  \* ErrQueueClosed
     \/ ~closed /\ UNCHANGED prod                 \* ErrRateLimited
     \/ ~closed /\ prod' = [prod EXCEPT ![p] = [pc |-> "send", msg |-> m]]
  /\ UNCHANGED <<memQueue, disk, counters, ends, cons, pump, life, old, history>>

(* select { case memQueue <- data: ... default: writeToDisk } *)
EnqueueSend(p) ==
  /\ prod[p].pc = "send"
  /\ IF Len(memQueue) < MemSize
     THEN /\ memQueue' = Append(memQueue, prod[p].msg)
          /\ accepted' = Append(accepted, prod[p].msg)
          /\ Goto(p, "depth")
     ELSE /\ Goto(p, "disk")
          /\ UNCHANGED <<memQueue, accepted>>
  /\ UNCHANGED <<disk, counters, ends, cons, pump, life, old, offered, diskLog, pumped,
                 delivered, faulted>>

EnqueueAddDepth(p) ==
  /\ prod[p].pc = "depth"
  /\ depth' = depth + 1
  /\ Goto(p, "memCount")
  /\ UNCHANGED <<memQueue, disk, memCount, diskBytes, ends, cons, pump, life, old, offered, history>>

EnqueueAddMemCount(p) ==
  /\ prod[p].pc = "memCount"
  /\ memCount' = memCount + 1
  /\ Leave(p)
  /\ UNCHANGED <<memQueue, disk, depth, diskBytes, ends, cons, pump, life, old, offered, history>>

(* One critical section of diskMu in which every call succeeds. *)
WriteToDisk(p) ==
  /\ prod[p].pc = "disk" /\ handles = "open" /\ writer = "ok"
  /\ file' = file \o Record(prod[p].msg)
  /\ depth' = depth + 1
  /\ diskBytes' = diskBytes + RecordWords(prod[p].msg)
  /\ accepted' = Append(accepted, prod[p].msg)
  /\ diskLog' = Append(diskLog, prod[p].msg)
  /\ Leave(p)
  /\ UNCHANGED <<memQueue, readOffset, writer, handles, memCount, ends, cons, pump,
                 life, old, offered, pumped, delivered, faulted>>

(* Write or Flush fails: a sticky error (then Write refuses at once), a     *)
(* handle Close has closed, or a device error that leaves a prefix of the   *)
(* record.  The counters have already moved when it is the Flush that fails.*)
WriteToDiskFails(p) ==
  /\ prod[p].pc = "disk"
  /\ \/ /\ writer = "failed"
        /\ UNCHANGED <<file, depth, diskBytes>>
     \/ /\ writer = "ok"
        /\ DiskFaults \/ handles # "open"
        /\ \E k \in 0 .. Size[prod[p].msg] :
             /\ handles = "open" \/ k = 0
             /\ file' = file \o SubSeq(Record(prod[p].msg), 1, k)
        /\ \/ /\ depth' = depth + 1
              /\ diskBytes' = diskBytes + RecordWords(prod[p].msg)
           \/ UNCHANGED <<depth, diskBytes>>
  /\ writer' = "failed" /\ faulted' = TRUE
  /\ Leave(p)
  /\ UNCHANGED <<memQueue, readOffset, handles, memCount, ends, cons, pump,
                 life, old, offered, accepted, diskLog, pumped, delivered>>

-----------------------------------------------------------------------------
(* Dequeue, DequeueTimeout and TryDequeue, by goroutine c *)

Return(c, result) == cons' = [cons EXCEPT ![c].pc = "idle", ![c].result = result]

DequeueBegin(c, call) ==
  /\ cons[c].pc = "idle"
  /\ cons' = [cons EXCEPT ![c] = [pc |-> "check", call |-> call, result |-> "none"]]
  /\ UNCHANGED <<memQueue, disk, counters, ends, prod, pump, life, old, offered, history>>

(* Mutant of Drained: a closed queue answers whatever it still holds. *)
Drained_IgnoresDepth == closed

(* if closed && depth == 0 { return ErrQueueClosed } *)
Drained == closed /\ depth = 0

DequeueCheck(c) ==
  /\ cons[c].pc = "check"
  /\ IF Drained
     THEN Return(c, "queue closed")
     ELSE cons' = [cons EXCEPT ![c].pc = "select"]
  /\ UNCHANGED <<memQueue, disk, counters, ends, prod, pump, life, old, offered, history>>

DequeueReceive(c) ==
  /\ cons[c].pc = "select" /\ memQueue # <<>>
  /\ memQueue' = Tail(memQueue)
  /\ delivered' = Append(delivered, Head(memQueue))
  /\ cons' = [cons EXCEPT ![c].pc = "depth"]
  /\ UNCHANGED <<disk, counters, ends, prod, pump, life, old, offered, accepted, diskLog,
                 pumped, faulted>>

DequeueSubDepth(c) ==
  /\ cons[c].pc = "depth"
  /\ depth' = depth - 1
  /\ cons' = [cons EXCEPT ![c].pc = "memCount"]
  /\ UNCHANGED <<memQueue, disk, memCount, diskBytes, ends, prod, pump, life, old, offered, history>>

(* Mutant of DequeueSubMemCount: the receive does not take its count back. *)
DequeueSubMemCount_Forgotten(c) ==
  /\ cons[c].pc = "memCount"
  /\ Return(c, "data")
  /\ UNCHANGED <<memQueue, disk, counters, ends, prod, pump, life, old, offered, history>>

DequeueSubMemCount(c) ==
  /\ cons[c].pc = "memCount"
  /\ memCount' = memCount - 1
  /\ Return(c, "data")
  /\ UNCHANGED <<memQueue, disk, depth, diskBytes, ends, prod, pump, life, old, offered, history>>

(* The timer fires; select may prefer it to data that is there.  Dequeue    *)
(* starts over, DequeueTimeout gives up.                                    *)
DequeueTimer(c) ==
  /\ cons[c].pc = "select"
  /\ \/ cons[c].call = "Dequeue" /\ cons' = [cons EXCEPT ![c].pc = "check"]
     \/ cons[c].call = "DequeueTimeout" /\ Return(c, "timeout")
  /\ UNCHANGED <<memQueue, disk, counters, ends, prod, pump, life, old, offered, history>>

(* A default case finds the channel empty: TryDequeue's own, or the one     *)
(* behind the close signal, which goes on to look at depth.                 *)
DequeueEmpty(c) ==
  /\ cons[c].pc = "select" /\ memQueue = <<>>
  /\ \/ cons[c].call = "TryDequeue" /\ Return(c, "empty")
     \/ /\ cons[c].call # "TryDequeue" /\ closeCh
        /\ cons' = [cons EXCEPT ![c].pc = "closing"]
  /\ UNCHANGED <<memQueue, disk, counters, ends, prod, pump, life, old, offered, history>>

DequeueClosing(c) ==
  /\ cons[c].pc = "closing"
  /\ IF cons[c].call = "Dequeue"
     THEN cons' = [cons EXCEPT ![c].pc = "check"]
     ELSE Return(c, IF depth = 0 THEN "queue closed" ELSE "queue closing")
  /\ UNCHANGED <<memQueue, disk, counters, ends, prod, pump, life, old, offered, history>>

-----------------------------------------------------------------------------
(* diskToMemoryPump.  Its timed waits change nothing and are stuttering.    *)

HasDiskData == diskBytes > 0

(* Mutant of MemFull: the pump never fills the last slot. *)
MemFull_OffByOne == memCount + 1 >= MemSize
MemFull == memCount >= MemSize

(* Past the closeCh test, memory not full and disk data present. *)
PumpCheck ==
  /\ pump.pc = "top" /\ ~closeCh
  /\ ~MemFull /\ HasDiskData
  /\ pump' = [pump EXCEPT !.pc = "read"]
  /\ UNCHANGED <<memQueue, disk, counters, ends, prod, cons, life, old, offered, history>>

(* Mutant of NextOffset: the length prefix is not counted. *)
NextOffset_NoPrefix(len) == readOffset + len

(* The word the reader stands on, taken for a length, and what follows it. *)
NextOffset(len) == readOffset + 1 + len
RecordComplete(len) == NextOffset(len) <= Len(file)
RecordData(len) == SubSeq(file, readOffset + 2, NextOffset(len))

(* readFromDisk, one critical section of diskMu. *)
ReadFromDisk ==
  /\ pump.pc = "read"
  /\ IF readOffset >= Len(file)
     THEN /\ pump' = [pump EXCEPT !.pc = "top"]                       \* io.EOF
          /\ UNCHANGED <<readOffset, diskBytes, pumped, old>>
     ELSE \E len \in Lengths(file[readOffset + 1]) :
            \/ /\ len > MaxLength                                     \* ErrCorruptedData
               /\ readOffset' = readOffset + 1
               /\ pump' = [pump EXCEPT !.pc = "top"]
               /\ UNCHANGED <<diskBytes, pumped, old>>
            \/ /\ len <= MaxLength /\ ~RecordComplete(len)            \* io.EOF
               /\ pump' = [pump EXCEPT !.pc = "top"]
               /\ UNCHANGED <<readOffset, diskBytes, pumped, old>>
            \/ /\ len <= MaxLength /\ RecordComplete(len)
               /\ readOffset' = NextOffset(len)
               /\ diskBytes' = diskBytes - (1 + len)
               /\ pump' = [pc |-> "send", data |-> Decode(RecordData(len))]
               /\ pumped' = Append(pumped, Decode(RecordData(len)))
               /\ old' = [old EXCEPT !.read = IF readOffset < old.words THEN @ + 1 ELSE @]
  /\ UNCHANGED <<memQueue, file, writer, handles, depth, memCount, ends, prod, cons,
                 life, offered, accepted, diskLog, delivered, faulted>>

(* Mutant of PumpSend: the pump drops what a full channel does not take. *)
PumpSend_NonBlocking ==
  /\ pump.pc = "send"
  /\ memQueue' = IF Len(memQueue) < MemSize THEN Append(memQueue, pump.data) ELSE memQueue
  /\ pump' = [pc |-> "memCount", data |-> Garbage]
  /\ UNCHANGED <<disk, counters, ends, prod, cons, life, old, offered, history>>

PumpSend ==
  /\ pump.pc = "send" /\ Len(memQueue) < MemSize
  /\ memQueue' = Append(memQueue, pump.data)
  /\ pump' = [pc |-> "memCount", data |-> Garbage]
  /\ UNCHANGED <<disk, counters, ends, prod, cons, life, old, offered, history>>

PumpAddMemCount ==
  /\ pump.pc = "memCount"
  /\ memCount' = memCount + 1
  /\ pump' = [pump EXCEPT !.pc = "top"]
  /\ UNCHANGED <<memQueue, disk, depth, diskBytes, ends, prod, cons, life, old, offered, history>>

(* closeCh wins a select: the pump returns, with a record in hand if it was *)
(* waiting to send one.                                                     *)
PumpExit ==
  /\ closeCh /\ pump.pc \in {"top", "send"}
  /\ pump' = [pump EXCEPT !.pc = IF @ = "send" THEN "dropped" ELSE "done"]
  /\ UNCHANGED <<memQueue, disk, counters, ends, prod, cons, life, old, offered, history>>

-----------------------------------------------------------------------------
(* Close *)

CloseMark ==
  /\ closer = "none" /\ ~closed
  /\ closed' = TRUE /\ closer' = "signal"
  /\ UNCHANGED <<memQueue, disk, counters, closeCh, prod, cons, pump, life, old, offered, history>>

CloseSignal ==
  /\ closer = "signal"
  /\ closeCh' = TRUE /\ closer' = "wait"
  /\ UNCHANGED <<memQueue, disk, counters, closed, prod, cons, pump, life, old, offered, history>>

(* wg.Wait has returned; the flush finds an empty buffer or a sticky error. *)
CloseHandles ==
  /\ closer = "wait" /\ pump.pc \in {"done", "dropped"}
  /\ handles' = "closed" /\ closer' = "remove"
  /\ UNCHANGED <<memQueue, file, readOffset, writer, counters, closed, closeCh, prod, cons,
                 pump, life, old, offered, history>>

CloseRemove ==
  /\ closer = "remove"
  /\ handles' = "removed" /\ file' = <<>> /\ closer' = "done"
  /\ UNCHANGED <<memQueue, readOffset, writer, counters, closed, closeCh, prod, cons, pump,
                 life, old, offered, history>>

(* A new queue for the same stream: after Close, after a crash of the       *)
(* process, or after StreamHandler.Stop, which leaves its queue open.       *)
(* Everything is new but the file, which is opened with O_APPEND and not    *)
(* truncated.                                                               *)
Reopen ==
  /\ life < MaxLives
  /\ life' = life + 1
  /\ old' = [words |-> Len(file), read |-> 0]
  /\ memQueue' = <<>>
  /\ readOffset' = 0 /\ writer' = "ok" /\ handles' = "open"
  /\ depth' = 0 /\ memCount' = 0 /\ diskBytes' = 0
  /\ closed' = FALSE /\ closeCh' = FALSE /\ closer' = "none"
  /\ prod' = [p \in Producers |-> None]
  /\ cons' = [c \in Consumers |-> [pc |-> "idle", call |-> "Dequeue", result |-> "none"]]
  /\ pump' = [pc |-> "top", data |-> Garbage]
  /\ accepted' = <<>> /\ diskLog' = <<>> /\ pumped' = <<>> /\ delivered' = <<>>
  /\ UNCHANGED <<file, offered, faulted>>

EnqueueReturns(p) ==
  \/ EnqueueSend(p) \/ EnqueueAddDepth(p) \/ EnqueueAddMemCount(p)
  \/ WriteToDisk(p) \/ WriteToDiskFails(p)

Enqueue(p) == EnqueueReturns(p) \/ \E m \in Msgs : EnqueueBegin(p, m)

Dequeue(c) ==
  \/ \E call \in Calls : DequeueBegin(c, call)
  \/ DequeueCheck(c) \/ DequeueReceive(c) \/ DequeueSubDepth(c)
  \/ DequeueSubMemCount(c) \/ DequeueTimer(c) \/ DequeueEmpty(c) \/ DequeueClosing(c)

Pump == PumpCheck \/ ReadFromDisk \/ PumpSend \/ PumpAddMemCount \/ PumpExit

Close == CloseMark \/ CloseSignal \/ CloseHandles \/ CloseRemove

Next ==
  \/ \E p \in Producers : Enqueue(p)
  \/ \E c \in Consumers : Dequeue(c)
  \/ Pump
  \/ Close
  \/ Reopen

Spec == Init /\ [][Next]_vars

-----------------------------------------------------------------------------
(* Properties *)

FlagTypes == closed \in BOOLEAN /\ closeCh \in BOOLEAN /\ faulted \in BOOLEAN

CounterTypes ==
  /\ depth \in Int /\ memCount \in Int /\ diskBytes \in Int
  /\ readOffset \in Nat /\ life \in 1 .. MaxLives
  /\ old \in [words : Nat, read : Nat]

DiskTypes ==
  /\ file \in Seq([kind : {"length", "data"}, msg : Msgs, n : Nat])
  /\ writer \in {"ok", "failed"} /\ handles \in {"open", "closed", "removed"}
  /\ closer \in {"none", "signal", "wait", "remove", "done"}

MessageTypes ==
  /\ offered \in SUBSET Msgs
  /\ accepted \in Seq(Msgs) /\ diskLog \in Seq(Msgs)
  /\ memQueue \in Seq(Msgs \cup {Garbage})
  /\ pumped \in Seq(Msgs \cup {Garbage}) /\ delivered \in Seq(Msgs \cup {Garbage})

ProducerTypes ==
  /\ prod \in [Producers -> [pc : {"idle", "send", "depth", "memCount", "disk"},
                             msg : Msgs \cup {Garbage}]]
  /\ \A p \in Producers : prod[p].pc # "idle" => prod[p].msg \in Msgs

ConsumerTypes ==
  cons \in [Consumers -> [pc : {"idle", "check", "select", "closing", "depth", "memCount"},
                          call : Calls, result : Results]]

PumpTypes ==
  pump \in [pc : {"top", "read", "send", "memCount", "done", "dropped"},
            data : Msgs \cup {Garbage}]

(* The shape of the state; the counters are integers because each moves in  *)
(* a step of its own and may run ahead or behind.                           *)
TypeOK ==
  /\ FlagTypes /\ CounterTypes /\ DiskTypes /\ MessageTypes
  /\ ProducerTypes /\ ConsumerTypes /\ PumpTypes

(* The scheduler runs every goroutine that can move: a producer inside       *)
(* Enqueue, the pump, a Close under way; the consumers keep calling, and a   *)
(* select that keeps finding data does not prefer its timer forever.        *)
Fairness ==
  /\ \A p \in Producers : WF_vars(EnqueueReturns(p))
  /\ \A c \in Consumers : WF_vars(Dequeue(c)) /\ SF_vars(DequeueReceive(c))
  /\ WF_vars(Pump)
  /\ WF_vars(CloseSignal \/ CloseHandles \/ CloseRemove)

FairSpec == Spec /\ Fairness

(* The first queue over its file, no write has failed, and no message on    *)
(* disk exceeds what the reader accepts.                                    *)
Clean ==
  /\ life = 1 /\ ~faulted
  /\ \A i \in DOMAIN diskLog : Size[diskLog[i]] <= MaxLength

(* Goroutines between their channel operation and a counter update. *)
EnqueuesOwingDepth == Cardinality({p \in Producers : prod[p].pc = "depth"})
EnqueuesOwingMemCount == Cardinality({p \in Producers : prod[p].pc \in {"depth", "memCount"}})
DequeuesOwingDepth == Cardinality({c \in Consumers : cons[c].pc = "depth"})
DequeuesOwingMemCount == Cardinality({c \in Consumers : cons[c].pc \in {"depth", "memCount"}})
PumpOwingMemCount == IF pump.pc = "memCount" THEN 1 ELSE 0
PumpHolding == IF pump.pc \in {"send", "dropped"} THEN 1 ELSE 0

(* Records this queue wrote and its reader has not returned: of those the   *)
(* reader returned, old.read were in the file before this queue.            *)
OwnOnDisk == Len(diskLog) - (Len(pumped) - old.read)

(* Messages in the channel, this queue's own records on disk, and what the  *)
(* pump holds: everything Dequeue can still be given that this queue took.  *)
Waiting == Len(memQueue) + OwnOnDisk + PumpHolding

DepthExact == depth = Waiting - old.read - EnqueuesOwingDepth + DequeuesOwingDepth

(* The reader takes the file record by record. *)
WellFramed == ~faulted /\ \A m \in offered : Size[m] <= MaxLength

(* depth is the number of messages in the channel, of this queue's records  *)
(* on disk and in the pump's hands, none counted twice or forgotten, but    *)
(* for two things.  Goroutines stand between their channel operation and    *)
(* their counter update; and a record that an earlier queue left in the     *)
(* file is subtracted when it is dequeued but was never added (the counter  *)
(* starts at zero over whatever file is there, hybrid_queue.go:63-95), so   *)
(* every such record the reader has returned leaves depth one too low.      *)
DepthAccounting == WellFramed => DepthExact

(* memCount, which tells the pump whether there is room, is the length of   *)
(* the channel but for goroutines about to update it.                       *)
MemAccounting ==
  memCount = Len(memQueue) - EnqueuesOwingMemCount - PumpOwingMemCount
             + DequeuesOwingMemCount

(* diskBytes, which tells the pump whether the file holds anything, is what *)
(* the reader has not consumed yet: the pump neither sleeps on unread data  *)
(* nor polls an exhausted file.                                             *)
DiskAccounting ==
  Clean /\ handles # "removed" => diskBytes = Len(file) - readOffset

(* The pump reads back exactly the records that were written, in order: the *)
(* reader never loses the record boundaries, whatever the interleaving of   *)
(* appends and reads.                                                       *)
PumpInOrder ==
  Clean => /\ Len(pumped) <= Len(diskLog)
           /\ pumped = SubSeq(diskLog, 1, Len(pumped))

OnDisk == {diskLog[i] : i \in DOMAIN diskLog}
MemoryLane(s) == Lane(s, (Msgs \cup {Garbage}) \ OnDisk)
DiskLane(s) == Lane(s, OnDisk)

(* What the consumer gets, and what waits in the channel, keep the order of *)
(* acceptance within each lane (straight to memory, or through the disk):   *)
(* nothing overtakes, is lost or comes twice inside a lane, and the disk     *)
(* lane is read back as it was written.                                     *)
LaneOrder ==
  LET out == delivered \o memQueue IN
  /\ DiskAccounting
  /\ PumpInOrder
  /\ Clean =>
           /\ MemoryLane(out) = MemoryLane(accepted)
           /\ DiskLane(out) \o (IF PumpHolding = 1 THEN <<pump.data>> ELSE <<>>)
              = pumped

(* A call that is told "queue closed" leaves no more messages behind, in    *)
(* the channel, on disk or with the pump, than there are Enqueues between   *)
(* their send and their depth update and records of an earlier queue that   *)
(* came back: over a fresh file, testing closed and depth without a lock    *)
(* hides nothing once the producers have returned; over an old file each    *)
(* old record may hide one message of this queue, and no more.              *)
ClosedMeansDrained ==
  [][WellFramed =>
       \A c \in Consumers :
         cons[c].result # "queue closed" /\ cons'[c].result = "queue closed" =>
           Waiting <= EnqueuesOwingDepth + old.read]_vars

(* Across restarts over the same file the reader keeps the boundaries of    *)
(* the records: as long as no write failed and no record is oversized, it   *)
(* never hands out bytes that are not a message somebody enqueued.          *)
BoundariesSurviveRestart ==
  ~faulted /\ handles # "removed"
  /\ (\A i \in DOMAIN file : file[i].kind = "length" => file[i].n <= MaxLength) =>
    \A i \in DOMAIN pumped : pumped[i] \in offered

Accepted(m) == \E i \in DOMAIN accepted : accepted[i] = m
Delivered(m) == \E i \in DOMAIN delivered : delivered[i] = m

(* A message the queue took is delivered, unless the queue is closed first  *)
(* or loses its disk: the pump and its counters never strand a record.      *)
EventuallyDelivered ==
  \A m \in Msgs : Accepted(m) /\ Clean ~> (Delivered(m) \/ closed \/ ~Clean)

(* Both counters are exact but for the goroutines that stand between their  *)
(* channel operation and their counter update: depth, which lets Dequeue    *)
(* end, and memCount, which lets the pump send (hybrid_queue.go).           *)
CountersExact == DepthAccounting /\ MemAccounting
=============================================================================
