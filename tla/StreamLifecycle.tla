--------------------------- MODULE StreamLifecycle ---------------------------
(***************************************************************************)
(* The life of an SRT stream, from the handshake to the clean-up: the      *)
(* listener's connection limiter and connections map (srt/listener.go),    *)
(* the connection's close-once (srt/connection.go), the registry entry in  *)
(* Redis (registry/redis_registry.go), the handler map, Terminate, Pause   *)
(* and Resume of the API, and the shutdown (manager.go, stream_handler.go).*)
(*                                                                         *)
(* A stream handler is named after its connection: NewStreamHandler makes  *)
(* one per connection.  Every round trip to Redis is a step of its own.    *)
(***************************************************************************)
EXTENDS Integers, FiniteSets

CONSTANTS
  Conns,         \* connection attempts of remote senders
  Streams,       \* stream IDs
  StreamOf,      \* [Conns -> Streams]: the ID each sender announces
  Ops,           \* API calls
  KindOf,        \* [Ops -> {"terminate", "pause", "resume"}]
  OpStream,      \* [Ops -> Streams]
  MaxPerStream,  \* slots per stream (NewListener: 5)
  MaxTotal,      \* slots in all (config MaxConnections)
  Faults,        \* subset of FaultKinds: what may happen in this instance
  Mgr,           \* the goroutine of Manager.Stop
  None           \* no connection, no record, nobody

FaultKinds == {"disk", "accept", "hangup", "expiry", "shutdown", "crashed"}

ASSUME LifecycleAssumption ==
  /\ IsFiniteSet(Conns) /\ IsFiniteSet(Streams) /\ IsFiniteSet(Ops)
  /\ StreamOf \in [Conns -> Streams]
  /\ OpStream \in [Ops -> Streams]
  /\ KindOf \in [Ops -> {"terminate", "pause", "resume"}]
  /\ MaxPerStream \in Nat /\ MaxTotal \in Nat
  /\ Faults \subseteq FaultKinds
  /\ Conns \cap Ops = {} /\ Mgr \notin Conns \cup Ops
  /\ None \notin Conns \cup Ops \cup {Mgr}

VARIABLES
  slots,        \* ConnectionLimiter.connections, [Streams -> Nat]
  total,        \* ConnectionLimiter.total
  connections,  \* Listener.connections, [Streams -> Conns \cup {None}]
  closing,      \* Connection.closeOnce: how far Close has come
  paused,       \* the connections whose paused flag is set
  lost,         \* the connections whose peer is gone
  handlers,     \* Manager.streamHandlers, [Streams -> Conns \cup {None}]
  hstate,       \* StreamHandler: "none", "new", "started", "stopped"
  ctxDone,      \* handlers whose context is cancelled
  handlersMu,   \* holder of Manager.handlersMu
  record,       \* the Redis key of a stream, or None
  active,       \* the Redis set "active"
  lockGen,      \* which mutex streamOpLocks holds for a stream
  pc,           \* where each goroutine is
  ret,          \* where StreamHandler.Stop returns to
  target,       \* the handler a goroutine is stopping
  snap,         \* what an API call read from the registry
  gen,          \* the mutex an API call holds or waits for
  todo          \* the handlers Manager.Stop has still to stop

limiter  == <<slots, total>>
conn     == <<connections, closing, paused, lost>>
handler  == <<handlers, hstate, ctxDone, handlersMu>>
redis    == <<record, active>>
local    == <<ret, target, snap, gen, todo>>
vars     == <<limiter, conn, handler, redis, lockGen, pc, local>>

Procs == Conns \cup Ops \cup {Mgr}
\* what a process that crashed has left in Redis
Leftover == [owner |-> None, status |-> "active"]

Init ==
  /\ slots = [s \in Streams |-> 0] /\ total = 0
  /\ connections = [s \in Streams |-> None]
  /\ closing = [c \in Conns |-> "open"]
  /\ paused = {} /\ lost = {}
  /\ handlers = [s \in Streams |-> None]
  /\ hstate = [c \in Conns |-> "none"]
  /\ ctxDone = {} /\ handlersMu = None
  /\ active \in IF "crashed" \in Faults THEN SUBSET Streams ELSE {{}}
  /\ record = [s \in Streams |-> IF s \in active THEN Leftover ELSE None]
  /\ lockGen = [s \in Streams |-> 0]
  /\ pc = [p \in Procs |-> IF p = Mgr THEN "run" ELSE "idle"]
  /\ ret = [p \in Procs |-> "none"]
  /\ target = [p \in Procs |-> None]
  /\ snap = [o \in Ops |-> None]
  /\ gen = [o \in Ops |-> 0]
  /\ todo = {}

Goto(p, label) == pc' = [pc EXCEPT ![p] = label]

-----------------------------------------------------------------------------
(* ConnectionLimiter: the checks and updates run under its mutex.          *)

CanAcquire(s) ==
  /\ MaxTotal > 0 => total < MaxTotal
  /\ MaxPerStream > 0 => slots[s] < MaxPerStream

Acquire(s) ==
  /\ slots' = [slots EXCEPT ![s] = @ + 1]
  /\ total' = total + 1

Release(s) ==
  /\ slots' = [slots EXCEPT ![s] = IF @ > 0 THEN @ - 1 ELSE 0]
  /\ total' = IF slots[s] > 0 THEN total - 1 ELSE total

-----------------------------------------------------------------------------
(* Redis commands.  They fail once Manager.Stop has closed the client.     *)

RegistryOpen == pc[Mgr] # "stopped"
Found(s) == RegistryOpen /\ record[s] # None
Set(s, r) == record' = IF RegistryOpen THEN [record EXCEPT ![s] = r] ELSE record
Del(s) == Set(s, None)
SRem(s) == active' = IF RegistryOpen THEN active \ {s} ELSE active

-----------------------------------------------------------------------------
(* Connection.Close.  closeOnce runs the body for the first caller and     *)
(* makes every other caller wait for it; the body unregisters the stream   *)
(* ID, whoever registered it.                                              *)

StartClose(c) == closing' = [closing EXCEPT ![c] = IF @ = "open" THEN "del" ELSE @]

Closed(c) == closing[c] = "closed"

CloseDel(c) ==
  LET s == StreamOf[c] IN
  /\ closing[c] = "del"
  /\ Del(s)
  /\ closing' = [closing EXCEPT ![c] = IF Found(s) THEN "srem" ELSE "closed"]
  /\ UNCHANGED <<limiter, connections, paused, lost, handler, active, lockGen, pc, local>>

CloseSRem(c) ==
  /\ closing[c] = "srem"
  /\ SRem(StreamOf[c])
  /\ closing' = [closing EXCEPT ![c] = "closed"]
  /\ UNCHANGED <<limiter, connections, paused, lost, handler, record, lockGen, pc, local>>

Close(c) == CloseDel(c) \/ CloseSRem(c)

-----------------------------------------------------------------------------
(* Listener: the handshake callback and the accept loop.                   *)

ListenerOpen == pc[Mgr] = "run"

\* handleIncomingConnection takes a slot, if there is one ...
IncomingAcquires(c) ==
  /\ ListenerOpen
  /\ pc[c] = "idle" /\ CanAcquire(StreamOf[c])
  /\ Acquire(StreamOf[c])
  /\ Goto(c, "checking")
  /\ UNCHANGED <<conn, handler, redis, lockGen, local>>

IncomingRejected(c) ==
  /\ ListenerOpen
  /\ pc[c] = "idle" /\ ~CanAcquire(StreamOf[c])
  /\ Goto(c, "refused")
  /\ UNCHANGED <<limiter, conn, handler, redis, lockGen, local>>

\* ... and gives it back when it finds the stream active
IncomingAccepted(c) ==
  /\ pc[c] = "checking" /\ connections[StreamOf[c]] = None
  /\ Goto(c, "accepted")
  /\ UNCHANGED <<limiter, conn, handler, redis, lockGen, local>>

IncomingActive(c) ==
  /\ pc[c] = "checking" /\ connections[StreamOf[c]] # None
  /\ Release(StreamOf[c])
  /\ Goto(c, "refused")
  /\ UNCHANGED <<conn, handler, redis, lockGen, local>>

\* the accept loop is one goroutine: it waits while it closes a duplicate
AcceptLoopFree == ListenerOpen /\ \A c \in Conns : pc[c] # "duplicate"

AcceptFails(c) ==
  /\ "accept" \in Faults
  /\ AcceptLoopFree
  /\ pc[c] = "accepted"
  /\ Release(StreamOf[c])
  /\ Goto(c, "refused")
  /\ UNCHANGED <<conn, handler, redis, lockGen, local>>

\* LoadOrStore finds no connection under the ID
AcceptStores(c) ==
  LET s == StreamOf[c] IN
  /\ AcceptLoopFree
  /\ pc[c] = "accepted"
  /\ connections[s] = None
  /\ connections' = [connections EXCEPT ![s] = c]
  /\ Goto(c, "register")
  /\ UNCHANGED <<limiter, closing, paused, lost, handler, redis, lockGen, local>>

\* Mutant of AcceptDuplicate: the duplicate keeps the slot of the handshake
AcceptDuplicate_KeepsSlot(c) ==
  LET s == StreamOf[c] IN
  /\ AcceptLoopFree
  /\ pc[c] = "accepted"
  /\ connections[s] # None
  /\ StartClose(c)
  /\ Goto(c, "duplicate")
  /\ UNCHANGED <<limiter, connections, paused, lost, handler, redis, lockGen, local>>

\* a connection with the same ID got there first: this one is closed
AcceptDuplicate(c) ==
  LET s == StreamOf[c] IN
  /\ AcceptLoopFree
  /\ pc[c] = "accepted"
  /\ connections[s] # None
  /\ Release(s)
  /\ StartClose(c)
  /\ Goto(c, "duplicate")
  /\ UNCHANGED <<connections, paused, lost, handler, redis, lockGen, local>>

DuplicateClosed(c) ==
  /\ pc[c] = "duplicate" /\ Closed(c)
  /\ Goto(c, "refused")
  /\ UNCHANGED <<limiter, conn, handler, redis, lockGen, local>>

Listener(c) ==
  \/ IncomingAcquires(c) \/ IncomingRejected(c) \/ IncomingAccepted(c) \/ IncomingActive(c)
  \/ AcceptFails(c) \/ AcceptStores(c) \/ AcceptDuplicate(c) \/ DuplicateClosed(c)

-----------------------------------------------------------------------------
(* StreamHandler.Stop, called by goroutine p on handler target[p].         *)

StopMark(p) ==
  /\ pc[p] = "stop"
  /\ IF hstate[target[p]] = "started"
     THEN /\ hstate' = [hstate EXCEPT ![target[p]] = "stopped"]
          /\ ctxDone' = ctxDone \cup {target[p]}
          /\ Goto(p, "stopclose")
     ELSE /\ Goto(p, ret[p])
          /\ UNCHANGED <<hstate, ctxDone>>
  /\ UNCHANGED <<limiter, conn, handlers, handlersMu, redis, lockGen, local>>

\* after the back-pressure controller and the pipeline have stopped
StopClose(p) ==
  /\ pc[p] = "stopclose"
  /\ StartClose(target[p])
  /\ Goto(p, "stopwait")
  /\ UNCHANGED <<limiter, connections, paused, lost, handler, redis, lockGen, local>>

StopReturn(p) ==
  /\ pc[p] = "stopwait" /\ Closed(target[p])
  /\ Goto(p, ret[p])
  /\ UNCHANGED <<limiter, conn, handler, redis, lockGen, local>>

Stop(p) == StopMark(p) \/ StopClose(p) \/ StopReturn(p)

\* RemoveStreamHandler holds handlersMu across Stop and the deletion
RemoveBegin(p, s) ==
  /\ pc[p] = "remove" /\ handlersMu = None
  /\ IF handlers[s] = None
     THEN /\ Goto(p, "removed")
          /\ UNCHANGED <<handlersMu, ret, target>>
     ELSE /\ handlersMu' = p
          /\ target' = [target EXCEPT ![p] = handlers[s]]
          /\ ret' = [ret EXCEPT ![p] = "unmap"]
          /\ Goto(p, "stop")
  /\ UNCHANGED <<limiter, conn, handlers, hstate, ctxDone, redis, lockGen, snap, gen, todo>>

\* Mutant of RemoveEnd: the stopped handler stays in the map
RemoveEnd_KeepsHandler(p, s) ==
  /\ pc[p] = "unmap"
  /\ handlersMu' = None
  /\ Goto(p, "removed")
  /\ UNCHANGED <<limiter, conn, handlers, hstate, ctxDone, redis, lockGen, local>>

RemoveEnd(p, s) ==
  /\ pc[p] = "unmap"
  /\ handlers' = [handlers EXCEPT ![s] = None]
  /\ handlersMu' = None
  /\ Goto(p, "removed")
  /\ UNCHANGED <<limiter, conn, hstate, ctxDone, redis, lockGen, local>>

RemoveStreamHandler(p, s) == RemoveBegin(p, s) \/ RemoveEnd(p, s)

-----------------------------------------------------------------------------
(* handleConnection and HandleSRTConnection, one goroutine per connection. *)

\* Register looks the key up first ...
RegisterGet(c) ==
  /\ pc[c] = "register"
  /\ Goto(c, IF Found(StreamOf[c]) THEN "regset" ELSE "regnew")
  /\ UNCHANGED <<limiter, conn, handler, redis, lockGen, local>>

\* ... and sets it together with the active set if it was absent (the
\* script fails if it no longer is; the caller goes on), or overwrites it
RegisterNew(c) ==
  LET s == StreamOf[c] IN
  /\ pc[c] = "regnew"
  /\ IF RegistryOpen /\ record[s] = None
     THEN /\ Set(s, [owner |-> c, status |-> "active"])
          /\ active' = active \cup {s}
     ELSE UNCHANGED redis
  /\ Goto(c, "create")
  /\ UNCHANGED <<limiter, conn, handler, lockGen, local>>

RegisterSet(c) ==
  /\ pc[c] = "regset"
  /\ Set(StreamOf[c], [owner |-> c, status |-> "active"])
  /\ Goto(c, "create")
  /\ UNCHANGED <<limiter, conn, handler, active, lockGen, local>>

CreateStreamHandler(c) ==
  LET s == StreamOf[c] IN
  /\ pc[c] = "create" /\ handlersMu = None
  /\ handlers[s] = None
  /\ handlers' = [handlers EXCEPT ![s] = c]
  /\ hstate' = [hstate EXCEPT ![c] = "new"]
  /\ Goto(c, "wait")
  /\ UNCHANGED <<limiter, conn, ctxDone, handlersMu, redis, lockGen, local>>

\* a handler exists, or the overflow file of the queue cannot be opened:
\* the connection is closed and its stream unregistered a second time
CreateFails(c) ==
  /\ pc[c] = "create" /\ handlersMu = None
  /\ handlers[StreamOf[c]] # None \/ "disk" \in Faults
  /\ StartClose(c)
  /\ Goto(c, "failed")
  /\ UNCHANGED <<limiter, connections, paused, lost, handler, redis, lockGen, local>>

FailedUnregister(c) ==
  LET s == StreamOf[c] IN
  /\ pc[c] = "failed" /\ Closed(c)
  /\ Del(s)
  /\ Goto(c, IF Found(s) THEN "failsrem" ELSE "release")
  /\ UNCHANGED <<limiter, conn, handler, active, lockGen, local>>

FailedSRem(c) ==
  /\ pc[c] = "failsrem"
  /\ SRem(StreamOf[c])
  /\ Goto(c, "release")
  /\ UNCHANGED <<limiter, conn, handler, record, lockGen, local>>

\* StreamHandler.Start in its own goroutine; nothing tells it that the
\* handler was stopped or removed before it ran
StartHandler(c) ==
  /\ hstate[c] = "new"
  /\ hstate' = [hstate EXCEPT ![c] = "started"]
  /\ UNCHANGED <<limiter, conn, handlers, ctxDone, handlersMu, redis, lockGen, pc, local>>

ManagerCancelled == pc[Mgr] # "run"

\* select on handler.ctx, which is a child of the manager's context
HandlerDone(c) ==
  /\ pc[c] = "wait"
  /\ c \in ctxDone \/ ManagerCancelled
  /\ Goto(c, "remove")
  /\ UNCHANGED <<limiter, conn, handler, redis, lockGen, local>>

ManagerDone(c) ==
  /\ pc[c] = "wait" /\ ManagerCancelled
  /\ target' = [target EXCEPT ![c] = c]
  /\ ret' = [ret EXCEPT ![c] = "remove"]
  /\ Goto(c, "stop")
  /\ UNCHANGED <<limiter, conn, handler, redis, lockGen, snap, gen, todo>>

Removed(c) ==
  /\ pc[c] = "removed"
  /\ Goto(c, "release")
  /\ UNCHANGED <<limiter, conn, handler, redis, lockGen, local>>

\* the deferred calls of handleConnection, last deferred first
ReleaseSlot(c) ==
  /\ pc[c] = "release"
  /\ Release(StreamOf[c])
  /\ Goto(c, "delete")
  /\ UNCHANGED <<conn, handler, redis, lockGen, local>>

DeleteConnection(c) ==
  /\ pc[c] = "delete"
  /\ connections' = [connections EXCEPT ![StreamOf[c]] = None]
  /\ Goto(c, "done")
  /\ UNCHANGED <<limiter, closing, paused, lost, handler, redis, lockGen, local>>

HandleSRTConnection(c) ==
  \/ RegisterGet(c) \/ RegisterNew(c) \/ RegisterSet(c)
  \/ CreateStreamHandler(c) \/ CreateFails(c) \/ FailedUnregister(c) \/ FailedSRem(c)
  \/ HandlerDone(c) \/ ManagerDone(c)
  \/ Stop(c) \/ RemoveStreamHandler(c, StreamOf[c])
  \/ Removed(c) \/ ReleaseSlot(c) \/ DeleteConnection(c)

\* the peer hangs up: processData sees an error or EOF and returns; it
\* tells neither the handler nor the listener
PeerLost(c) ==
  /\ "hangup" \in Faults
  /\ pc[c] = "wait" /\ closing[c] = "open" /\ c \notin lost
  /\ lost' = lost \cup {c}
  /\ UNCHANGED <<limiter, connections, closing, paused, handler, redis, lockGen, pc, local>>

\* the key's TTL runs out: no goroutine of an SRT stream renews it
Expire(s) ==
  /\ "expiry" \in Faults
  /\ record[s] # None
  /\ record' = [record EXCEPT ![s] = None]
  /\ UNCHANGED <<limiter, conn, handler, active, lockGen, pc, local>>

\* List drops IDs without a key from the active set
List ==
  /\ \E s \in active : record[s] = None
  /\ active' = {s \in active : record[s] # None}
  /\ UNCHANGED <<limiter, conn, handler, record, lockGen, pc, local>>

-----------------------------------------------------------------------------
(* TerminateStream holds m.mu for reading from the first check on.         *)

ManagerStarted == pc[Mgr] = "run"

\* Manager.Stop holds m.mu for writing until it is through
CanReadLock == pc[Mgr] \in {"run", "stopped"}

TerminateGet(o) ==
  /\ pc[o] = "idle" /\ CanReadLock
  /\ Goto(o, IF ManagerStarted /\ Found(OpStream[o]) THEN "tlisten" ELSE "done")
  /\ UNCHANGED <<limiter, conn, handler, redis, lockGen, local>>

TerminateConnection(o) ==
  LET c == connections[OpStream[o]] IN
  /\ pc[o] = "tlisten"
  /\ IF c = None
     THEN Goto(o, "done") /\ UNCHANGED <<closing, target>>
     ELSE /\ StartClose(c)
          /\ target' = [target EXCEPT ![o] = c]
          /\ Goto(o, "tclose")
  /\ UNCHANGED <<limiter, connections, paused, lost, handler, redis, lockGen, ret, snap, gen, todo>>

TerminateDel(o) ==
  LET s == OpStream[o] IN
  /\ pc[o] = "tclose" /\ Closed(target[o])
  /\ Del(s)
  /\ Goto(o, IF Found(s) THEN "tsrem" ELSE "remove")
  /\ UNCHANGED <<limiter, conn, handler, active, lockGen, local>>

TerminateSRem(o) ==
  /\ pc[o] = "tsrem"
  /\ SRem(OpStream[o])
  /\ Goto(o, "remove")
  /\ UNCHANGED <<limiter, conn, handler, record, lockGen, local>>

\* the next Pause or Resume of the stream makes a new mutex
TerminateDeleteLock(o) ==
  /\ pc[o] = "removed"
  /\ lockGen' = [lockGen EXCEPT ![OpStream[o]] = @ + 1]
  /\ Goto(o, "done")
  /\ UNCHANGED <<limiter, conn, handler, redis, local>>

TerminateStream(o) ==
  /\ KindOf[o] = "terminate"
  /\ \/ TerminateGet(o) \/ TerminateConnection(o) \/ TerminateDel(o) \/ TerminateSRem(o)
     \/ Stop(o) \/ RemoveStreamHandler(o, OpStream[o]) \/ TerminateDeleteLock(o)

-----------------------------------------------------------------------------
(* PauseStream and ResumeStream under the stream's operation mutex.        *)

InOp == {"locked", "get", "listen", "update", "rollback"}

OpLock(o) ==
  /\ pc[o] = "idle"
  /\ gen' = [gen EXCEPT ![o] = lockGen[OpStream[o]]]
  /\ Goto(o, "lock")
  /\ UNCHANGED <<limiter, conn, handler, redis, lockGen, ret, target, snap, todo>>

OpLocked(o) ==
  /\ pc[o] = "lock"
  /\ \A q \in Ops : pc[q] \in InOp => OpStream[q] # OpStream[o] \/ gen[q] # gen[o]
  /\ Goto(o, "locked")
  /\ UNCHANGED <<limiter, conn, handler, redis, lockGen, local>>

\* the status an operation starts from and the one it writes
From(o) == IF KindOf[o] = "pause" THEN "active" ELSE "paused"
To(o)   == IF KindOf[o] = "pause" THEN "paused" ELSE "active"

OpChecked(o) ==
  /\ pc[o] = "locked" /\ CanReadLock
  /\ Goto(o, IF ManagerStarted THEN "get" ELSE "done")
  /\ UNCHANGED <<limiter, conn, handler, redis, lockGen, local>>

OpGet(o) ==
  LET r == record[OpStream[o]] IN
  /\ pc[o] = "get"
  /\ IF Found(OpStream[o]) /\ r.status = From(o)
     THEN snap' = [snap EXCEPT ![o] = r] /\ Goto(o, "listen")
     ELSE Goto(o, "done") /\ UNCHANGED snap
  /\ UNCHANGED <<limiter, conn, handler, redis, lockGen, ret, target, gen, todo>>

SetPaused(c, status) == paused' = IF status = "paused" THEN paused \cup {c} ELSE paused \ {c}

OpListener(o) ==
  LET c == connections[OpStream[o]] IN
  /\ pc[o] = "listen" /\ CanReadLock
  /\ IF c = None
     THEN Goto(o, "done") /\ UNCHANGED paused
     ELSE SetPaused(c, To(o)) /\ Goto(o, "update")
  /\ UNCHANGED <<limiter, connections, closing, lost, handler, redis, lockGen, local>>

\* Mutant of OpUpdate: Update without XX recreates the key
OpUpdate_Recreates(o) ==
  /\ pc[o] = "update"
  /\ Set(OpStream[o], [snap[o] EXCEPT !.status = To(o)])
  /\ Goto(o, "done")
  /\ UNCHANGED <<limiter, conn, handler, active, lockGen, local>>

\* Update writes the record read earlier, if the key still exists
OpUpdate(o) ==
  LET s == OpStream[o] IN
  /\ pc[o] = "update"
  /\ IF Found(s)
     THEN /\ Set(s, [snap[o] EXCEPT !.status = To(o)])
          /\ Goto(o, "done")
     ELSE Goto(o, "rollback") /\ UNCHANGED record
  /\ UNCHANGED <<limiter, conn, handler, active, lockGen, local>>

OpRollback(o) ==
  LET c == connections[OpStream[o]] IN
  /\ pc[o] = "rollback" /\ CanReadLock
  /\ IF c = None THEN UNCHANGED paused ELSE SetPaused(c, From(o))
  /\ Goto(o, "done")
  /\ UNCHANGED <<limiter, connections, closing, lost, handler, redis, lockGen, local>>

PauseResume(o) ==
  /\ KindOf[o] # "terminate"
  /\ \/ OpLock(o) \/ OpLocked(o) \/ OpChecked(o) \/ OpGet(o)
     \/ OpListener(o) \/ OpUpdate(o) \/ OpRollback(o)

-----------------------------------------------------------------------------
(* Manager.Stop.  It holds m.mu for writing, so no TerminateStream is under *)
(* way; Listener.Stop waits for the connection goroutines, 10 s at most.   *)

\* Mutant of ManagerStop: Stop takes handlersMu before it waits for the listener
ManagerStop_HoldsHandlersMu ==
  /\ "shutdown" \in Faults
  /\ pc[Mgr] = "run" /\ handlersMu = None
  /\ \A o \in Ops : KindOf[o] = "terminate" => pc[o] \in {"idle", "done"}
  /\ handlersMu' = Mgr
  /\ Goto(Mgr, "listener")
  /\ UNCHANGED <<limiter, conn, handlers, hstate, ctxDone, redis, lockGen, local>>

ManagerStop ==
  /\ "shutdown" \in Faults
  /\ pc[Mgr] = "run"
  /\ \A o \in Ops : KindOf[o] = "terminate" => pc[o] \in {"idle", "done"}
  /\ Goto(Mgr, "listener")
  /\ UNCHANGED <<limiter, conn, handler, redis, lockGen, local>>

\* the goroutines have ended or the timer has fired; the map is copied
ListenerStopped ==
  /\ pc[Mgr] = "listener" /\ handlersMu = None
  /\ todo' = {handlers[s] : s \in Streams} \ {None}
  /\ Goto(Mgr, "handlers")
  /\ UNCHANGED <<limiter, conn, handler, redis, lockGen, ret, target, snap, gen>>

StopOneHandler ==
  /\ pc[Mgr] = "handlers"
  /\ \E c \in todo :
       /\ todo' = todo \ {c}
       /\ target' = [target EXCEPT ![Mgr] = c]
  /\ ret' = [ret EXCEPT ![Mgr] = "handlers"]
  /\ Goto(Mgr, "stop")
  /\ UNCHANGED <<limiter, conn, handler, redis, lockGen, snap, gen>>

\* handlerWg.Wait: every Start has returned; then the map is emptied and
\* the registry closed
ClearHandlers ==
  /\ pc[Mgr] = "handlers" /\ todo = {} /\ handlersMu = None
  /\ \A c \in Conns : hstate[c] # "new"
  /\ handlers' = [s \in Streams |-> None]
  /\ Goto(Mgr, "stopped")
  /\ UNCHANGED <<limiter, conn, hstate, ctxDone, handlersMu, redis, lockGen, local>>

Shutdown == ManagerStop \/ ListenerStopped \/ StopOneHandler \/ ClearHandlers \/ Stop(Mgr)

-----------------------------------------------------------------------------
Next ==
  \/ \E c \in Conns :
       Listener(c) \/ HandleSRTConnection(c) \/ StartHandler(c) \/ Close(c) \/ PeerLost(c)
  \/ \E s \in Streams : Expire(s)
  \/ \E o \in Ops : TerminateStream(o) \/ PauseResume(o)
  \/ List \/ Shutdown

\* A goroutine that can run does run; senders, API clients, the operator and
\* Redis's clock need do nothing.  Each goroutine takes a mutex a bounded
\* number of times, so weak fairness is enough.
Fairness ==
  /\ \A c \in Conns :
       /\ WF_vars(HandleSRTConnection(c)) /\ WF_vars(StartHandler(c)) /\ WF_vars(Close(c))
       /\ WF_vars(IncomingAccepted(c) \/ IncomingActive(c))
       /\ WF_vars(AcceptStores(c) \/ AcceptDuplicate(c) \/ DuplicateClosed(c))
  /\ \A o \in Ops : WF_vars(pc[o] # "idle" /\ (TerminateStream(o) \/ PauseResume(o)))
  /\ WF_vars(ListenerStopped \/ StopOneHandler \/ ClearHandlers \/ Stop(Mgr))

Spec == Init /\ [][Next]_vars /\ Fairness

-----------------------------------------------------------------------------
(* Properties                                                              *)

\* goroutines between the handshake and the release of their slot
HoldsSlot ==
  {"checking", "accepted", "register", "regnew", "regset", "create", "failed", "failsrem",
   "wait", "stop", "stopclose", "stopwait", "unmap", "remove", "removed", "release"}

\* connections whose handleConnection is running
Serving == (HoldsSlot \ {"checking", "accepted"}) \cup {"delete"}

\* The limiter counts, per stream and in all, exactly the connections that
\* passed the handshake and have not given their slot back: no path through
\* the listener leaks a slot or frees one twice (srt/listener.go:190-305).
LimiterExact ==
  /\ \A s \in Streams :
       slots[s] = Cardinality({c \in Conns : StreamOf[c] = s /\ pc[c] \in HoldsSlot})
  /\ total = Cardinality({c \in Conns : pc[c] \in HoldsSlot})
  /\ MaxTotal > 0 => total <= MaxTotal

\* While handleConnection runs for a connection, the map names it under its
\* stream ID, so two senders with one ID are never served at the same time
\* even though the handshake check and the store are separate steps.
ServedAlone == \A c \in Conns : pc[c] \in Serving => connections[StreamOf[c]] = c

\* RemoveStreamHandler works by stream ID, yet the clean-up of a connection
\* only ever stops the handler of that connection, and a connection never
\* finds the ID of its new handler taken (manager.go:589, 624-632, 737).
RemovesOwnHandler ==
  \A c \in Conns :
    /\ pc[c] \in {"stop", "stopclose", "stopwait", "unmap"} => target[c] = c
    /\ pc[c] = "create" => handlers[StreamOf[c]] = None

\* While the manager runs, a goroutine that has removed its handler has
\* closed its connection: nothing is left reading from a peer nobody serves.
CleanupCloses ==
  \A c \in Conns : pc[c] \in {"release", "delete", "done"} /\ ~ManagerCancelled => Closed(c)

\* No other sender has used the stream ID so far.
FirstOfItsStream(c) == \A d \in Conns \ {c} : StreamOf[d] = StreamOf[c] => pc[d] = "idle"

\* The stream ID has one sender so far.
OneSender(s) == \E c \in Conns : StreamOf[c] = s /\ FirstOfItsStream(c)

\* While the manager runs, a key in the registry belongs to a stream that a
\* goroutine still serves: the unregistrations, and the XX flag with which
\* Update writes a record read earlier, leave no ghost streams behind.  (With
\* a second sender of the ID they can: its Register may fall between the Close
\* that a TerminateStream of the first one runs and the Stop that a second
\* TerminateStream runs, which finds the connection closed already.)
NoGhostRecords ==
  \A s \in Streams : record[s] # None /\ ~ManagerCancelled /\ OneSender(s) =>
    connections[s] # None /\ pc[connections[s]] \in Serving

\* No operation is under way on the stream.
Quiet(s) == \A o \in Ops : OpStream[o] = s => pc[o] \in {"idle", "lock", "done"}

\* With no operation under way, the status in a connection's own registry
\* entry and the paused flag of the connection agree: Pause, Resume and
\* their rollbacks do not tear them apart, as long as the connection they
\* act on has not replaced another one (manager.go:370-560).
PauseAgrees ==
  \A s \in Streams : Quiet(s) /\ record[s] # None /\ connections[s] # None =>
    (record[s].owner = connections[s] /\ FirstOfItsStream(connections[s]) =>
       (record[s].status = "paused" <=> connections[s] \in paused))

Begun == {o \in Ops : pc[o] # "idle"} \cup (IF pc[Mgr] = "run" THEN {} ELSE {Mgr})

\* Every API call that has begun returns, and so does Manager.Stop, also when
\* a shutdown, a pause or a termination of the same stream holds the locks
\* they need.
OpsReturn ==
  Begun # {} ~> \A p \in Begun : pc[p] \in {"done", "stopped"}

\* A sender whose connection is lost does not keep its stream ID: the
\* connection leaves the listener's map, so the sender can reconnect.
LostFreesStream == \A c \in Conns : c \in lost ~> connections[StreamOf[c]] # c

\* A stream has one owner from the handshake to the last clean-up, although
\* the listener's map, the manager's map and the connection are cleaned up one
\* after the other and by stream ID (srt/listener.go:234-305, manager.go:589-737).
OneOwner == ServedAlone /\ RemovesOwnHandler /\ CleanupCloses

\* The registry tells the truth about the streams the manager serves: the
\* status is that of the connection, and no key outlives its stream.
RegistryAgrees == PauseAgrees /\ NoGhostRecords
=============================================================================
