----------------------------- MODULE RTPSessions -----------------------------
(***************************************************************************)
(* rtp/listener.go: the session table of the RTP listener.  Four parties   *)
(* work on it: the router goroutine, which admits a session for every new  *)
(* source, one goroutine per session that waits for the manager's handler, *)
(* the clean-up ticker, and callers of the API.  A slot of the connection  *)
(* limiter and a share of the bandwidth belong to each session.  Steps are *)
(* sections of l.mu and of the limiters' own locks; Session.Stop runs with *)
(* l.mu held or from the session's own goroutine and is one step.          *)
(***************************************************************************)
EXTENDS Integers, FiniteSets

CONSTANTS
  Keys,          \* sources: remote address and SSRC
  MaxSessions,   \* bound: stream IDs that are generated
  SlotLimit,     \* connLimiter.maxTotal
  PerStreamSlots,\* connLimiter.maxPerStream
  BandwidthUnits \* bandwidthManager.totalBandwidth, in shares of 50 Mbps

ASSUME SessionsAssumption ==
  /\ IsFiniteSet(Keys) /\ MaxSessions \in Nat
  /\ SlotLimit \in Nat \ {0} /\ PerStreamSlots \in Nat \ {0}
  /\ BandwidthUnits \in Nat

\* Stream IDs are numbered as GenerateStreamID hands them out; 0 is none.
Ids == 1..MaxSessions

VARIABLES
  table,     \* l.sessions: key -> session, 0 if there is none
  made,      \* stream IDs generated so far
  keyOf,     \* the session key captured by each handler goroutine
  sessSlots,     \* connLimiter.connections
  slotTotal, \* connLimiter.total
  alloc,     \* bandwidthManager.allocations
  life,      \* each session: "none", "live" or "stopped"
  hand,      \* its goroutine: "none", "serving", "leaving", "freeing", "gone"
  freed,     \* resourcesReleased
  fresh,     \* sessions with a packet within the timeout (lastPacket)
  held,      \* paused sessions
  known,     \* streams in the registry
  router,    \* where the router is, with the key and session in hand
  sessClosing    \* Listener.Stop: "no", "cancelled" or "done"

sessVars == <<table, made, keyOf, sessSlots, slotTotal, alloc, life, hand, freed,
              fresh, held, known, router, sessClosing>>
limits   == <<sessSlots, slotTotal, alloc>>

NoKey == 0
AtRead == [at |-> "read", key |-> NoKey, id |-> 0]

SessInit ==
  /\ table = [k \in Keys |-> 0] /\ made = 0
  /\ keyOf = [i \in Ids |-> NoKey]
  /\ sessSlots = [i \in Ids |-> 0] /\ slotTotal = 0 /\ alloc = {}
  /\ life = [i \in Ids |-> "none"] /\ hand = [i \in Ids |-> "none"]
  /\ freed = {} /\ fresh = {} /\ held = {} /\ known = {}
  /\ router = AtRead /\ sessClosing = "no"

InTable(i) == \E k \in Keys : table[k] = i
WithoutSession(i) == [k \in Keys |-> IF table[k] = i THEN 0 ELSE table[k]]

\* Session.Stop, as many times as anyone likes
StopAll(S) ==
  /\ life' = [i \in Ids |-> IF i \in S THEN "stopped" ELSE life[i]]
  /\ known' = known \ S

\* Mutant of ReleaseSlots: one comes off the total whether or not the stream has a slot
ReleaseSlotsBlindly(S) ==
  /\ sessSlots' = [i \in Ids |-> IF i \in S /\ sessSlots[i] > 0 THEN sessSlots[i] - 1 ELSE sessSlots[i]]
  /\ slotTotal' = slotTotal - Cardinality(S)

\* ConnectionLimiter.Release of every stream in S
ReleaseSlots(S) ==
  LET taken == {i \in S : sessSlots[i] > 0}
  IN  /\ sessSlots' = [i \in Ids |-> IF i \in taken THEN sessSlots[i] - 1 ELSE sessSlots[i]]
      /\ slotTotal' = slotTotal - Cardinality(taken)

ReleaseAll(S) == ReleaseSlots(S) /\ alloc' = alloc \ S

-----------------------------------------------------------------------------
(* routePackets                                                            *)

\* A valid packet has been read: find its session under RLock, or generate a
\* stream ID for a new one.
Lookup(k) ==
  /\ router.at = "read" /\ sessClosing = "no"
  /\ \/ /\ table[k] # 0
        /\ router' = [at |-> "forward", key |-> k, id |-> table[k]]
        /\ made' = made
     \/ /\ table[k] = 0 /\ made < MaxSessions
        /\ made' = made + 1
        /\ router' = [at |-> "acquire", key |-> k, id |-> made + 1]
  /\ UNCHANGED <<table, keyOf, limits, life, hand, freed, fresh, held, known, sessClosing>>

\* connLimiter.TryAcquire
AcquireSlot ==
  /\ router.at = "acquire"
  /\ IF slotTotal < SlotLimit /\ sessSlots[router.id] < PerStreamSlots
     THEN /\ sessSlots' = [sessSlots EXCEPT ![router.id] = @ + 1]
          /\ slotTotal' = slotTotal + 1
          /\ router' = [router EXCEPT !.at = "allocate"]
     ELSE /\ router' = AtRead
          /\ UNCHANGED <<sessSlots, slotTotal>>
  /\ UNCHANGED <<table, made, keyOf, alloc, life, hand, freed, fresh, held, known, sessClosing>>

\* bandwidthManager.AllocateBandwidth; without bandwidth the slot goes back
AllocateBandwidth ==
  /\ router.at = "allocate"
  /\ IF Cardinality(alloc) < BandwidthUnits
     THEN /\ alloc' = alloc \cup {router.id}
          /\ router' = [router EXCEPT !.at = "create"]
          /\ UNCHANGED <<sessSlots, slotTotal>>
     ELSE /\ ReleaseSlots({router.id})
          /\ router' = AtRead
          /\ alloc' = alloc
  /\ UNCHANGED <<table, made, keyOf, life, hand, freed, fresh, held, known, sessClosing>>

\* NewSession: the registry may refuse the stream
NewSession ==
  /\ router.at = "create"
  /\ \/ /\ known' = known \cup {router.id} /\ fresh' = fresh \cup {router.id}
        /\ life' = [life EXCEPT ![router.id] = "live"]
        /\ router' = [router EXCEPT !.at = "insert"]
        /\ UNCHANGED limits
     \/ /\ ReleaseAll({router.id})
        /\ router' = AtRead
        /\ UNCHANGED <<known, fresh, life>>
  /\ UNCHANGED <<table, made, keyOf, hand, freed, held, sessClosing>>

\* The second look under Lock, the entry, and the goroutine for the handler
InsertSession ==
  /\ router.at = "insert"
  /\ IF table[router.key] # 0
     THEN /\ StopAll({router.id}) /\ ReleaseAll({router.id})
          /\ router' = [router EXCEPT !.at = "forward", !.id = table[router.key]]
          /\ UNCHANGED <<table, keyOf, hand>>
     ELSE /\ table' = [table EXCEPT ![router.key] = router.id]
          /\ keyOf' = [keyOf EXCEPT ![router.id] = router.key]
          /\ hand' = [hand EXCEPT ![router.id] = "serving"]
          /\ router' = [router EXCEPT !.at = "forward"]
          /\ UNCHANGED <<limits, life, known>>
  /\ UNCHANGED <<made, freed, fresh, held, sessClosing>>

\* session.ProcessPacket: lastPacket moves unless the session is paused, over
\* its rate or without a codec
Forward ==
  /\ router.at = "forward"
  /\ router' = AtRead
  /\ \/ fresh' = fresh
     \/ /\ router.id \notin held \cup fresh
        /\ fresh' = fresh \cup {router.id}
  /\ UNCHANGED <<table, made, keyOf, limits, life, hand, freed, held, known, sessClosing>>

RouterStep == AcquireSlot \/ AllocateBandwidth \/ NewSession \/ InsertSession \/ Forward

-----------------------------------------------------------------------------
(* The goroutine of a session, its deferred clean-up included              *)

\* HandleRTPSession returned; RemoveStreamHandler has closed the adapter and
\* with it the session
HandlerReturns(i) ==
  /\ hand[i] = "serving"
  /\ StopAll({i})
  /\ hand' = [hand EXCEPT ![i] = "leaving"]
  /\ UNCHANGED <<table, made, keyOf, limits, freed, fresh, held, router, sessClosing>>

\* Mutant of HandlerCancelled: the goroutine does not look at the listener's context
HandlerNotCancelled(i) == FALSE /\ UNCHANGED sessVars

\* the listener's context is cancelled: the goroutine stops the session
HandlerCancelled(i) ==
  /\ hand[i] = "serving" /\ sessClosing # "no"
  /\ StopAll({i})
  /\ hand' = [hand EXCEPT ![i] = "leaving"]
  /\ UNCHANGED <<table, made, keyOf, limits, freed, fresh, held, router, sessClosing>>

\* delete(l.sessions, sessionKey), whoever is under the key by now
HandlerDeletes(i) ==
  /\ hand[i] = "leaving"
  /\ table' = [table EXCEPT ![keyOf[i]] = 0]
  /\ hand' = [hand EXCEPT ![i] = "freeing"]
  /\ UNCHANGED <<made, keyOf, limits, life, freed, fresh, held, known, router, sessClosing>>

\* if newSession.MarkResourcesReleased() { Release; ReleaseBandwidth }; nobody
\* holds the session any more
HandlerFrees(i) ==
  /\ hand[i] = "freeing"
  /\ IF i \in freed THEN UNCHANGED limits ELSE ReleaseAll({i})
  /\ freed' = freed \cup {i}
  /\ hand' = [hand EXCEPT ![i] = "gone"]
  /\ fresh' = fresh \ {i} /\ held' = held \ {i}
  /\ UNCHANGED <<table, made, keyOf, life, known, router, sessClosing>>

-----------------------------------------------------------------------------
(* Clean-up ticker, API and RTCP, all under l.mu                           *)

CleanupSessions ==
  LET dead == {i \in Ids : InTable(i) /\ i \notin fresh}
  IN  /\ sessClosing = "no" /\ dead # {}
      /\ StopAll(dead)
      /\ table' = [k \in Keys |-> IF table[k] \in dead THEN 0 ELSE table[k]]
      /\ ReleaseAll(dead \ freed)
      /\ freed' = freed \cup dead
      /\ UNCHANGED <<made, keyOf, hand, fresh, held, router, sessClosing>>

\* TerminateStream gives the resources back without marking them as released
TerminateSession(i) ==
  /\ InTable(i)
  /\ StopAll({i})
  /\ table' = WithoutSession(i)
  /\ ReleaseAll({i})
  /\ UNCHANGED <<made, keyOf, hand, freed, fresh, held, router, sessClosing>>

PauseStream(i) ==
  /\ InTable(i) /\ i \notin held
  /\ held' = held \cup {i}
  /\ UNCHANGED <<table, made, keyOf, limits, life, hand, freed, fresh, known, router, sessClosing>>

ResumeStream(i) ==
  /\ InTable(i) /\ i \in held
  /\ held' = held \ {i}
  /\ UNCHANGED <<table, made, keyOf, limits, life, hand, freed, fresh, known, router, sessClosing>>

\* handleRTCP finds a session by address and SSRC: ProcessRTCPPacket
RTCP(i) ==
  /\ InTable(i) /\ sessClosing = "no" /\ i \notin held \cup fresh
  /\ fresh' = fresh \cup {i}
  /\ UNCHANGED <<table, made, keyOf, limits, life, hand, freed, held, known, router, sessClosing>>

\* time.Since(lastPacket) reaches the timeout
ExpireSessions(i) ==
  /\ i \in fresh /\ InTable(i)
  /\ fresh' = fresh \ {i}
  /\ UNCHANGED <<table, made, keyOf, limits, life, hand, freed, held, known, router, sessClosing>>

-----------------------------------------------------------------------------
(* Listener.Stop                                                           *)

StopCancel ==
  /\ sessClosing = "no"
  /\ sessClosing' = "cancelled"
  /\ UNCHANGED <<table, made, keyOf, limits, life, hand, freed, fresh, held, known, router>>

\* wg.Wait is over: the router has left its loop.  Then every session is
\* stopped; the slots are left to the sessions' own goroutines.
StopSessions ==
  /\ sessClosing = "cancelled" /\ router.at = "read"
  /\ StopAll({i \in Ids : InTable(i)})
  /\ table' = [k \in Keys |-> 0]
  /\ sessClosing' = "done"
  /\ UNCHANGED <<made, keyOf, limits, hand, freed, fresh, held, router>>

HandlerStep(i) == HandlerCancelled(i) \/ HandlerDeletes(i) \/ HandlerFrees(i)

SessNext ==
  \/ \E k \in Keys : Lookup(k)
  \/ RouterStep
  \/ \E i \in Ids : HandlerStep(i)
  \/ \E i \in Ids : HandlerReturns(i)
  \/ CleanupSessions
  \/ \E i \in Ids : TerminateSession(i)
  \/ \E i \in Ids : PauseStream(i) \/ ResumeStream(i)
  \/ \E i \in Ids : RTCP(i) \/ ExpireSessions(i)
  \/ StopCancel
  \/ StopSessions

\* The scheduler runs a router that is inside the loop, the sessions'
\* goroutines once they have something to do, and Stop once it was called.
SessFairness ==
  /\ WF_sessVars(RouterStep)
  /\ WF_sessVars(StopSessions)
  /\ \A i \in Ids : WF_sessVars(HandlerStep(i))

SessSpec == SessInit /\ [][SessNext]_sessVars /\ SessFairness

-----------------------------------------------------------------------------
InAdmission(i) == router.id = i /\ router.at \in {"allocate", "create", "insert"}

\* What is charged to the limiters is exactly what sessions under admission, in
\* the table or with a goroutine still at work hold: although TerminateStream
\* and the goroutine both release (rtp/listener.go:321, :522), no slot is given
\* back twice and none is left without an owner, and no live session in the
\* table goes uncharged.
SlotsExact ==
  /\ \A i \in Ids : sessSlots[i] \in {0, 1}
  /\ slotTotal = Cardinality({i \in Ids : sessSlots[i] = 1})
  /\ alloc = {i \in Ids : sessSlots[i] = 1 /\ ~(router.at = "allocate" /\ router.id = i)}
  /\ \A i \in Ids : sessSlots[i] = 1 =>
       InAdmission(i) \/ InTable(i) \/ hand[i] \in {"serving", "leaving", "freeing"}
  /\ \A i \in Ids : InTable(i) /\ life[i] = "live" => sessSlots[i] = 1

\* Listener.Stop frees everything: also the session that was being admitted
\* while it began, and those no longer in the table, end up stopped and
\* unregistered with their slots and bandwidth returned.
StopFreesAll ==
  sessClosing # "no" ~> /\ slotTotal = 0 /\ alloc = {} /\ known = {}
                    /\ \A i \in Ids : life[i] # "live"
=============================================================================
