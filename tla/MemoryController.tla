--------------------------- MODULE MemoryController ---------------------------
(***************************************************************************)
(* memory/controller.go: a global budget and one counter per stream, kept  *)
(* by goroutines with atomic adds, swaps and compare-and-swaps and without *)
(* a common lock.  Every atomic operation is a step of its own.  A counter *)
(* is an object: ResetStreamUsage takes it out of the map while others may *)
(* still hold it, and the next request makes a new one.                    *)
(***************************************************************************)
EXTENDS Integers, FiniteSets, Sequences, FiniteSetsExt

CONSTANTS
  MemProcs,        \* goroutines that call the controller
  MemStreams,
  Sizes,        \* sizes that are requested and released, in units
  MaxMemory,    \* maxMemory
  StreamLimit,  \* perStreamLimit
  Kinds,        \* the calls made: subset of {"request", "release", "reset"}
  MaxCalls,     \* bound: calls per goroutine
  NoStream

ASSUME MemoryAssumption ==
  /\ IsFiniteSet(MemProcs) /\ IsFiniteSet(MemStreams)
  /\ Sizes \subseteq Nat \ {0}
  /\ MaxMemory \in Nat \ {0} /\ StreamLimit \in Nat \ {0}
  /\ Kinds \subseteq {"request", "release", "reset"}
  /\ MaxCalls \in Nat

VARIABLES
  usage,    \* Controller.usage
  counters, \* the values of all counters ever made, [Streams -> Seq(Int)]
  cur,      \* streamUsage: index of the stream's counter, 0 if it has none
  evictionCallback, \* whether one is set
  idle,     \* streamTracker: tracked streams that are not active
  granted,  \* per goroutine and stream: bytes it was granted and still owes
  memPC, stream, size,  \* per goroutine: the call it is in
  obj,      \* per goroutine: the counter it loaded
  pend,     \* per goroutine: bytes taken from a counter, not yet from usage
  evictTodo,     \* per goroutine: streams selected for eviction
  evicted,  \* per goroutine: totalEvicted
  calls,
  torn      \* history: a counter has been emptied below what is still to be undone

shared == <<usage, counters, cur, idle>>
call   == <<stream, size>>
evict  == <<evictTodo, evicted>>
memVars   == <<shared, granted, memPC, call, obj, pend, evict, calls, torn, evictionCallback>>

MemInit ==
  /\ usage = 0
  /\ counters = [s \in MemStreams |-> <<>>]
  /\ cur = [s \in MemStreams |-> 0]
  /\ idle = {}
  /\ granted = [p \in MemProcs |-> [s \in MemStreams |-> 0]]
  /\ memPC = [p \in MemProcs |-> "ready"]
  /\ stream = [p \in MemProcs |-> NoStream] /\ size = [p \in MemProcs |-> 0]
  /\ obj = [p \in MemProcs |-> 0] /\ pend = [p \in MemProcs |-> 0]
  /\ evictTodo = [p \in MemProcs |-> <<>>] /\ evicted = [p \in MemProcs |-> 0]
  /\ calls = [p \in MemProcs |-> 0]
  /\ torn = FALSE /\ evictionCallback = FALSE

MemGoto(p, label) == memPC' = [memPC EXCEPT ![p] = label]
Usage(s) == IF cur[s] = 0 THEN 0 ELSE counters[s][cur[s]]
Counter(p) == counters[stream[p]][obj[p]]
SetCounter(p, v) == counters' = [counters EXCEPT ![stream[p]][obj[p]] = v]

Call(p, s, n, label) ==
  /\ memPC[p] = "ready" /\ calls[p] < MaxCalls
  /\ calls' = [calls EXCEPT ![p] = @ + 1]
  /\ stream' = [stream EXCEPT ![p] = s] /\ size' = [size EXCEPT ![p] = n]
  /\ MemGoto(p, label)

-----------------------------------------------------------------------------
(* RequestMemory                                                           *)

RequestBegin(p, s, n) ==
  /\ "request" \in Kinds
  /\ Call(p, s, n, "add")
  /\ UNCHANGED <<shared, granted, obj, pend, evict>>

\* usage.Add(size), the first time and after a collection or an eviction;
\* when it is over the limit the next step takes it back
GlobalAdd(p, from, over) ==
  /\ memPC[p] = from
  /\ usage' = usage + size[p]
  /\ MemGoto(p, IF usage' <= MaxMemory THEN "stream" ELSE over)
  /\ UNCHANGED <<counters, cur, idle, granted, call, obj, pend, evict, calls>>

GlobalUndo(p, from, labels) ==
  /\ memPC[p] = from
  /\ usage' = usage - size[p]
  /\ \E l \in labels : MemGoto(p, l)
  /\ UNCHANGED <<counters, cur, idle, granted, call, obj, pend, evict, calls>>

\* Mutant of AddFirst: admission compares the usage before the add
AddFirst_ChecksOld(p) ==
  /\ memPC[p] = "add"
  /\ usage' = usage + size[p]
  /\ MemGoto(p, IF usage <= MaxMemory THEN "stream" ELSE "undo")
  /\ UNCHANGED <<counters, cur, idle, granted, call, obj, pend, evict, calls>>

\* whether ten seconds have passed since the last collection is left open
AddFirst(p) == GlobalAdd(p, "add", "undo")
UndoFirst(p) == GlobalUndo(p, "undo", {"gc", "pressure"})
AddAfterGC(p) == GlobalAdd(p, "gc", "undogc")
UndoAfterGC(p) == GlobalUndo(p, "undogc", {"pressure"})
AddAfterEviction(p) == GlobalAdd(p, "again", "undoagain")
UndoAfterEviction(p) == GlobalUndo(p, "undoagain", {"ready"})

\* pressureThreshold is 0.8
PressureCheck(p) ==
  /\ memPC[p] = "pressure"
  /\ MemGoto(p, IF 10 * usage > 8 * MaxMemory THEN "select" ELSE "ready")
  /\ UNCHANGED <<shared, granted, call, obj, pend, evict, calls>>

\* The order of HybridEvictionStrategy: streams that are not active first,
\* in the order of their scores (left open); the list ends with the stream
\* that makes the sum reach the target.
InEvictionOrder(q) ==
  \A i, j \in DOMAIN q : i < j => (q[j] \in idle => q[i] \in idle)

UsageOf(q) == SumFunction([i \in DOMAIN q |-> Usage(q[i])])

Selected(q, target) ==
  LET used == {s \in MemStreams : Usage(s) > 0} IN
  /\ \A i, j \in DOMAIN q : i # j => q[i] # q[j]
  /\ \A i \in DOMAIN q : q[i] \in used
  /\ InEvictionOrder(q)
  /\ \A s \in idle \cap used : (\E i \in DOMAIN q : q[i] \notin idle) => \E i \in DOMAIN q : q[i] = s
  /\ q # <<>> => UsageOf(SubSeq(q, 1, Len(q) - 1)) < target
  /\ UsageOf(q) >= target \/ \A s \in used : \E i \in DOMAIN q : q[i] = s

Lists == UNION {[1 .. n -> MemStreams] : n \in 0 .. Cardinality(MemStreams)}

\* evictMemory has nobody to tell and evicts nothing
EvictNothing(p) ==
  /\ memPC[p] = "select" /\ ~evictionCallback
  /\ MemGoto(p, "ready")
  /\ UNCHANGED <<shared, granted, call, obj, pend, evict, calls>>

SelectStreams(p) ==
  /\ memPC[p] = "select" /\ evictionCallback
  /\ \E q \in Lists :
       /\ Selected(q, size[p])
       /\ evictTodo' = [evictTodo EXCEPT ![p] = q]
       /\ MemGoto(p, IF q = <<>> THEN "ready" ELSE "swap")
  /\ evicted' = [evicted EXCEPT ![p] = 0]
  /\ UNCHANGED <<shared, granted, call, obj, pend, calls>>

\* the counter of the next stream is swapped with 0 ...
EvictSwap(p) ==
  LET s == Head(evictTodo[p]) IN
  /\ memPC[p] = "swap" /\ evictTodo[p] # <<>>
  /\ evictTodo' = [evictTodo EXCEPT ![p] = Tail(@)]
  /\ IF cur[s] = 0
     THEN UNCHANGED <<counters, pend, memPC>>
     ELSE /\ counters' = [counters EXCEPT ![s][cur[s]] = 0]
          /\ pend' = [pend EXCEPT ![p] = IF Usage(s) > 0 THEN Usage(s) ELSE 0]
          /\ MemGoto(p, IF Usage(s) > 0 THEN "evictsub" ELSE "swap")
  /\ UNCHANGED <<usage, cur, idle, granted, call, obj, evicted, calls>>

\* ... and what it held is taken from the global usage
EvictSub(p) ==
  /\ memPC[p] = "evictsub"
  /\ usage' = usage - pend[p]
  /\ evicted' = [evicted EXCEPT ![p] = @ + pend[p]]
  /\ pend' = [pend EXCEPT ![p] = 0]
  /\ MemGoto(p, "swap")
  /\ UNCHANGED <<counters, cur, idle, granted, call, obj, evictTodo, calls>>

EvictDone(p) ==
  /\ memPC[p] = "swap" /\ evictTodo[p] = <<>>
  /\ MemGoto(p, IF evicted[p] > 0 THEN "again" ELSE "ready")
  /\ UNCHANGED <<shared, granted, call, obj, pend, evict, calls>>

\* getOrCreateStreamUsage: the double check under streamInitMu makes it one step
GetOrCreate(p) ==
  LET s == stream[p] IN
  /\ memPC[p] = "stream"
  /\ IF cur[s] = 0
     THEN /\ counters' = [counters EXCEPT ![s] = Append(@, 0)]
          /\ cur' = [cur EXCEPT ![s] = Len(counters[s]) + 1]
          /\ obj' = [obj EXCEPT ![p] = Len(counters[s]) + 1]
     ELSE obj' = [obj EXCEPT ![p] = cur[s]] /\ UNCHANGED <<counters, cur>>
  /\ MemGoto(p, "streamadd")
  /\ UNCHANGED <<usage, idle, granted, call, pend, evict, calls>>

StreamAdd(p) ==
  /\ memPC[p] = "streamadd"
  /\ SetCounter(p, Counter(p) + size[p])
  /\ IF Counter(p) + size[p] > StreamLimit
     THEN MemGoto(p, "streamundo") /\ UNCHANGED granted
     ELSE /\ MemGoto(p, "ready")
          /\ granted' = [granted EXCEPT ![p][stream[p]] = @ + size[p]]
  /\ UNCHANGED <<usage, cur, idle, call, obj, pend, evict, calls>>

StreamUndo(p) ==
  /\ memPC[p] = "streamundo"
  /\ SetCounter(p, Counter(p) - size[p])
  /\ MemGoto(p, "globalundo")
  /\ UNCHANGED <<usage, cur, idle, granted, call, obj, pend, evict, calls>>

GlobalUndoAfterStream(p) == GlobalUndo(p, "globalundo", {"ready"})

RequestMemory(p) ==
  \/ \E s \in MemStreams, n \in Sizes : RequestBegin(p, s, n)
  \/ AddFirst(p) \/ UndoFirst(p) \/ AddAfterGC(p) \/ UndoAfterGC(p) \/ PressureCheck(p)
  \/ EvictNothing(p) \/ SelectStreams(p) \/ EvictSwap(p) \/ EvictSub(p) \/ EvictDone(p)
  \/ AddAfterEviction(p) \/ UndoAfterEviction(p)
  \/ GetOrCreate(p) \/ StreamAdd(p) \/ StreamUndo(p) \/ GlobalUndoAfterStream(p)

-----------------------------------------------------------------------------
(* ReleaseMemory: a caller gives back what it was granted                  *)

ReleaseBegin(p, s, n) ==
  /\ "release" \in Kinds
  /\ granted[p][s] >= n
  /\ granted' = [granted EXCEPT ![p][s] = @ - n]
  /\ Call(p, s, n, IF cur[s] = 0 THEN "ready" ELSE "cas")
  /\ obj' = [obj EXCEPT ![p] = cur[s]]
  /\ UNCHANGED <<shared, pend, evict>>

\* the compare-and-swap that succeeds; it never takes more than there is
ReleaseCAS(p) ==
  /\ memPC[p] = "cas"
  /\ IF Counter(p) <= 0
     THEN MemGoto(p, "ready") /\ UNCHANGED <<counters, pend>>
     ELSE LET n == Min({Counter(p), size[p]}) IN
          /\ SetCounter(p, Counter(p) - n)
          /\ pend' = [pend EXCEPT ![p] = n]
          /\ MemGoto(p, "sub")
  /\ UNCHANGED <<usage, cur, idle, granted, call, obj, evict, calls>>

\* usage.Add(-n), also the last step of ResetStreamUsage
ReleaseSub(p) ==
  /\ memPC[p] = "sub"
  /\ usage' = usage - pend[p]
  /\ pend' = [pend EXCEPT ![p] = 0]
  /\ MemGoto(p, "ready")
  /\ UNCHANGED <<counters, cur, idle, granted, call, obj, evict, calls>>

ReleaseMemory(p) ==
  \/ \E s \in MemStreams, n \in Sizes : ReleaseBegin(p, s, n)
  \/ ReleaseCAS(p) \/ ReleaseSub(p)

-----------------------------------------------------------------------------
(* ResetStreamUsage: LoadAndDelete, then Swap(0), then the global usage    *)

ResetBegin(p, s) ==
  /\ "reset" \in Kinds
  /\ Call(p, s, 0, IF cur[s] = 0 THEN "ready" ELSE "resetswap")
  /\ obj' = [obj EXCEPT ![p] = cur[s]]
  /\ cur' = [cur EXCEPT ![s] = 0]
  /\ idle' = idle \ {s}
  /\ granted' = [q \in MemProcs |-> [granted[q] EXCEPT ![s] = 0]]
  /\ UNCHANGED <<usage, counters, pend, evict>>

ResetSwap(p) ==
  /\ memPC[p] = "resetswap"
  /\ SetCounter(p, 0)
  /\ pend' = [pend EXCEPT ![p] = IF Counter(p) > 0 THEN Counter(p) ELSE 0]
  /\ MemGoto(p, IF Counter(p) > 0 THEN "sub" ELSE "ready")
  /\ UNCHANGED <<usage, cur, idle, granted, call, obj, evict, calls>>

ResetStreamUsage(p) == (\E s \in MemStreams : ResetBegin(p, s)) \/ ResetSwap(p)

\* TrackStream and SetStreamActive decide who is evicted first
SetStreamActive(s) ==
  /\ idle' = IF s \in idle THEN idle \ {s} ELSE idle \cup {s}
  /\ UNCHANGED <<usage, counters, cur, granted, memPC, call, obj, pend, evict, calls>>

SetEvictionCallback ==
  /\ ~evictionCallback /\ evictionCallback' = TRUE
  /\ UNCHANGED <<shared, granted, memPC, call, obj, pend, evict, calls>>

\* what the requests over the limit of this counter are about to take back
ToUndo(s, i) ==
  SumFunction([p \in MemProcs |->
    IF memPC[p] = "streamundo" /\ stream[p] = s /\ obj[p] = i THEN size[p] ELSE 0])

\* an eviction, release or reset has taken bytes that a request takes back too
Overdrawn == \E s \in MemStreams : \E i \in DOMAIN counters[s] : counters[s][i] < ToUndo(s, i)

MemNext ==
  /\ \/ /\ \/ \E p \in MemProcs : RequestMemory(p) \/ ReleaseMemory(p) \/ ResetStreamUsage(p)
           \/ \E s \in MemStreams : SetStreamActive(s)
        /\ UNCHANGED evictionCallback
     \/ SetEvictionCallback
  /\ torn' = (torn \/ Overdrawn')

MemSpec == MemInit /\ [][MemNext]_memVars

-----------------------------------------------------------------------------
(* Properties                                                              *)

\* what a goroutine has added to usage and not (or no longer) to a counter
InFlight(p) ==
  CASE memPC[p] \in {"undo", "undogc", "undoagain", "stream", "streamadd", "globalundo"} -> size[p]
    [] memPC[p] \in {"evictsub", "sub"} -> pend[p]
    [] OTHER -> 0

Refused == {"undo", "undogc", "undoagain"}

\* of which admitted
Admitted(p) == IF memPC[p] \in Refused THEN 0 ELSE InFlight(p)

Total == SumFunction([s \in MemStreams |-> SumFunction(counters[s])])

\* The global usage is at all times the sum of the counters and of what the
\* calls under way have added to one side only: no interleaving of requests,
\* rollbacks, releases, evictions and resets loses or duplicates a byte
\* between usage and streamUsage (controller.go:68-118, 147-176, 255-292),
\* unless a counter was emptied under a request that still had to roll back.
UsageExact == ~torn => usage = Total + SumFunction([p \in MemProcs |-> InFlight(p)])

\* A stream's counter exceeds perStreamLimit at most by requests that are
\* about to be rolled back.
StreamBudgetKept ==
  \A s \in MemStreams : \A i \in DOMAIN counters[s] :
    counters[s][i] <= StreamLimit + ToUndo(s, i)

\* Together the counters and the admitted requests never exceed maxMemory,
\* although requests are admitted by an add that others may not have undone
\* (the same exception), and each stream keeps its own limit.
BudgetKept ==
  /\ StreamBudgetKept
  /\ ~torn => Total + SumFunction([p \in MemProcs |-> Admitted(p)]) <= MaxMemory

MemQuiet == \A p \in MemProcs : memPC[p] = "ready"

\* controller.go:270, "Atomically swap to 0 to get the usage and prevent
\* double-decrement": no byte is subtracted from the usage twice.
NoDoubleDecrement == MemQuiet => usage >= 0

\* The books balance and the budget is kept at every point of every call
\* (controller.go:55-176, 255-292).
MemoryExact == UsageExact /\ BudgetKept
=============================================================================
