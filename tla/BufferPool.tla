----------------------------- MODULE BufferPool -----------------------------
(***************************************************************************)
(* buffer/pool.go: ring buffers by stream, with a free list.  Goroutines   *)
(* get the buffer of a stream, keep it, and put it back by stream ID and   *)
(* pointer; nothing keeps two goroutines of one stream from putting the    *)
(* same buffer back, or one from doing so twice.  A step is a section of   *)
(* bp.mu or one operation on the map or the free list.                     *)
(***************************************************************************)
EXTENDS Integers, Sequences, SequencesExt, FiniteSets

CONSTANTS
  PoolStreams, \* streams that use the pool
  PoolUsers,   \* goroutines that use it
  PoolBuffers, \* bound: ring buffers that are allocated
  PoolSize     \* capacity of the free list

ASSUME PoolAssumption ==
  PoolStreams # {} /\ PoolBuffers \in Nat /\ PoolSize \in Nat

VARIABLES
  held,      \* BufferPool.buffers: stream -> buffer, 0 if none
  freeList,
  allocated, \* ring buffers made so far
  user,      \* goroutine -> the stream and buffer of its last Get, and whether it
             \* is using the buffer, inside Put, or done with it
  spoiled    \* history: buffers put back once too often, or while others use them

poolVars == <<held, freeList, allocated, user, spoiled>>

\* NewBufferPool fills half of the free list
PoolInit ==
  /\ held = [s \in PoolStreams |-> 0]
  /\ user = [u \in PoolUsers |-> [at |-> "done", buffer |-> 0, stream |-> CHOOSE s \in PoolStreams : TRUE]]
  /\ allocated = PoolSize \div 2
  /\ freeList = [i \in 1..(PoolSize \div 2) |-> i]
  /\ spoiled = {}

Gets(u, s, b) == user' = [user EXCEPT ![u] = [at |-> "using", buffer |-> b, stream |-> s]]

\* Get: the buffer of the stream, one from the free list, reset and reopened, or
\* a new one
PoolGet(u, s) ==
  /\ user[u].at = "done"
  /\ \/ /\ held[s] # 0
        /\ Gets(u, s, held[s])
        /\ UNCHANGED <<held, freeList, allocated>>
     \/ /\ held[s] = 0 /\ freeList # <<>>
        /\ Gets(u, s, Head(freeList))
        /\ held' = [held EXCEPT ![s] = Head(freeList)]
        /\ freeList' = Tail(freeList)
        /\ UNCHANGED allocated
     \/ /\ held[s] = 0 /\ freeList = <<>> /\ allocated < PoolBuffers
        /\ Gets(u, s, allocated + 1)
        /\ held' = [held EXCEPT ![s] = allocated + 1]
        /\ allocated' = allocated + 1
        /\ UNCHANGED freeList
  /\ UNCHANGED spoiled

\* Somebody but u is using b or putting it back.
OthersHave(u, b) == \E v \in PoolUsers \ {u} : user[v].at # "done" /\ user[v].buffer = b

\* Put, up to the Close and Reset of the buffer: the entry of the stream goes,
\* whichever buffer it names by now.  The caller may have put it before.
PoolPut(u) ==
  /\ user[u].at # "putting" /\ user[u].buffer # 0
  /\ user' = [user EXCEPT ![u].at = "putting"]
  /\ held' = [held EXCEPT ![user[u].stream] = 0]
  /\ spoiled' = IF user[u].at = "done" \/ OthersHave(u, user[u].buffer)
                THEN spoiled \cup {user[u].buffer} ELSE spoiled
  /\ UNCHANGED <<freeList, allocated>>

\* the send on freeList, or its default
PoolReturn(u) ==
  /\ user[u].at = "putting"
  /\ freeList' = IF Len(freeList) < PoolSize THEN Append(freeList, user[u].buffer) ELSE freeList
  /\ user' = [user EXCEPT ![u].at = "done"]
  /\ UNCHANGED <<held, allocated, spoiled>>

\* Mutant of PoolRemove: the removed buffer also goes to the free list.
PoolRemoveReturning(s) ==
  /\ held[s] # 0 /\ Len(freeList) < PoolSize
  /\ freeList' = Append(freeList, held[s])
  /\ held' = [held EXCEPT ![s] = 0]
  /\ UNCHANGED <<allocated, user, spoiled>>

\* Remove and Release (and Put of nil): the buffer is forgotten; who has it keeps it
PoolRemove(s) ==
  /\ held[s] # 0
  /\ held' = [held EXCEPT ![s] = 0]
  /\ UNCHANGED <<freeList, allocated, user, spoiled>>

PoolNext ==
  \/ \E u \in PoolUsers : (\E s \in PoolStreams : PoolGet(u, s)) \/ PoolPut(u) \/ PoolReturn(u)
  \/ \E s \in PoolStreams : PoolRemove(s)

PoolSpec == PoolInit /\ [][PoolNext]_poolVars

-----------------------------------------------------------------------------
\* What the pool promises of a buffer.
Uses(u, b) == user[u].at # "done" /\ user[u].buffer = b
Free(b) == \E i \in DOMAIN freeList : freeList[i] = b

OneStream(b) ==
  /\ \A s, t \in PoolStreams : held[s] = b /\ held[t] = b => s = t
  /\ \A u, v \in PoolUsers : Uses(u, b) /\ Uses(v, b) => user[u].stream = user[v].stream
  /\ \A u \in PoolUsers, s \in PoolStreams : Uses(u, b) /\ held[s] = b => user[u].stream = s

NotFree(b) ==
  /\ \A i, j \in DOMAIN freeList : freeList[i] = b /\ freeList[j] = b => i = j
  /\ Free(b) => (\A u \in PoolUsers : ~Uses(u, b)) /\ (\A s \in PoolStreams : held[s] # b)
  /\ \A u \in PoolUsers : Uses(u, b) /\ user[u].at = "putting" =>
       ~OthersHave(u, b) /\ \A s \in PoolStreams : held[s] # b

\* No ring buffer serves two streams, and none is free, twice or while somebody
\* uses it or puts it back, although Put takes the entry off the map by stream
\* ID, whichever buffer it names, and resets and frees the buffer later, without
\* a lock (pool.go:40, :75).  Only a Put too many (a second one, or one while
\* another goroutine of the stream has the buffer) breaks this, and then only
\* for the buffer it names.
NoBufferShared == \A b \in 1..allocated : b \in spoiled \/ (OneStream(b) /\ NotFree(b))
=============================================================================
