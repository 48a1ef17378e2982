--------------------------- MODULE CodecDetection ---------------------------
(***************************************************************************)
(* The codec detection of an RTP session (rtp/session.go): ProcessPacket   *)
(* with handleCodecDetection, SetSDP, the one-second timer of a waiting    *)
(* packet, the ten-second limit that pauses the session, Pause and Resume, *)
(* and GetDiagnostics (rtp/diagnostics.go), which reads the state.         *)
(*                                                                         *)
(* Two locks are involved.  codecStateMu guards the state machine and is   *)
(* held across steps; the condition variable detectionCond releases it     *)
(* while a goroutine sleeps.  s.mu is taken for writing only around code   *)
(* that takes no other lock, so such a section is one step that needs s.mu *)
(* free; GetDiagnostics alone holds it, for reading, across steps.         *)
(***************************************************************************)
EXTENDS Integers, FiniteSets

CONSTANTS
    Feeders,          \* goroutines that call ProcessPacket
    Describers,       \* goroutines that call SetSDP
    Observers,        \* goroutines that call GetDiagnostics
    Codecs,           \* the codecs a packet or an SDP may indicate
    Unsupported,      \* those the depacketizer factory cannot serve
    Unknown,          \* codec.TypeUnknown, and no depacketizer
    Limits,           \* which limits may expire: subset of {"1s", "10s"}
    MaxCalls,         \* bound: calls per goroutine
    Nobody

Procs == Feeders \cup Describers \cup Observers

ASSUME DetectionAssumption ==
    /\ IsFiniteSet(Procs) /\ Nobody \notin Procs
    /\ Feeders \cap Describers = {} /\ Observers \cap (Feeders \cup Describers) = {}
    /\ Unknown \notin Codecs /\ Unsupported \subseteq Codecs
    /\ Limits \subseteq {"1s", "10s"}
    /\ MaxCalls \in [Procs -> Nat]

VARIABLES
    state,            \* s.codecState
    stateMu,          \* who holds codecStateMu
    readers,          \* who holds s.mu for reading
    codecType,        \* s.codecType
    depacketizer,     \* s.depacketizer, named by its codec
    firstPacket,      \* firstPacketTime: "unset", "recent", or "old" (over 10 s)
    paused,           \* s.paused
    pausing,          \* goroutines that are about to pause the session
    pc,               \* where each goroutine is
    found,            \* the codec a goroutine has detected or read
    asleep,           \* the goroutines in detectionCond.Wait
    timer,            \* the timer goroutine of a waiting packet
    calls,            \* calls started
    refused,          \* ghost: <<SDP's codec, actual codec>> of mismatch errors
    dropped           \* ghost: a packet passed detection, found no depacketizer

machine == <<state, stateMu, asleep>>
result  == <<codecType, depacketizer>>
limits  == <<firstPacket, paused, pausing, timer>>
ghosts  == <<refused, dropped>>
vars    == <<machine, readers, result, limits, pc, found, calls, ghosts>>

Init ==
    /\ state = "unknown" /\ stateMu = Nobody /\ asleep = {}
    /\ readers = {}
    /\ codecType = Unknown /\ depacketizer = Unknown
    /\ firstPacket = "unset" /\ paused = FALSE /\ pausing = 0
    /\ timer = [p \in Procs |-> "none"]
    /\ pc = [p \in Procs |-> "idle"]
    /\ found = [p \in Procs |-> Unknown]
    /\ calls = [p \in Procs |-> 0]
    /\ refused = {} /\ dropped = FALSE

Goto(p, place) == pc' = [pc EXCEPT ![p] = place]

\* codecStateMu is free for p to take.
CanLock == stateMu = Nobody
MuFree  == readers = {}

----------------------------------------------------------------------------
(* The parts that ProcessPacket and SetSDP share *)

\* Nothing is held while the depacketizer and the codec are stored.
Install(p) ==
    /\ pc[p] = "install"
    /\ MuFree
    /\ codecType' = found[p] /\ depacketizer' = found[p]
    /\ Goto(p, "publish")
    /\ UNCHANGED <<machine, readers, limits, found, calls, ghosts>>

\* A packet goes on to be buffered; SetSDP returns.  The registry update it
\* starts is a single Get and Update of the stream's record.
Publish(p) ==
    /\ pc[p] = "publish"
    /\ CanLock
    /\ state' = "detected" /\ asleep' = {}
    /\ Goto(p, IF p \in Feeders THEN "ready" ELSE "idle")
    /\ UNCHANGED <<stateMu, readers, result, limits, found, calls, ghosts>>

\* A sleeper that was woken takes codecStateMu again.
WakeUp(p) ==
    /\ pc[p] = "sleeping" /\ p \notin asleep
    /\ CanLock
    /\ stateMu' = p
    /\ Goto(p, "woken")
    /\ UNCHANGED <<state, asleep, readers, result, limits, found, calls, ghosts>>

Sleep(p) ==
    /\ asleep' = asleep \cup {p}
    /\ stateMu' = Nobody
    /\ Goto(p, "sleeping")
    /\ UNCHANGED state

----------------------------------------------------------------------------
(* ProcessPacket and handleCodecDetection *)

\* The pause check, the rate limiter and the look at the depacketizer.
Packet(p) ==
    /\ pc[p] = "idle" /\ calls[p] < MaxCalls[p]
    /\ MuFree
    /\ calls' = [calls EXCEPT ![p] = @ + 1]
    /\ IF paused THEN UNCHANGED pc
       ELSE Goto(p, IF depacketizer # Unknown THEN "ready" ELSE "lock")
    /\ UNCHANGED <<machine, readers, result, limits, found, ghosts>>

\* The switch on the state.
LookUp(p) ==
    /\ pc[p] = "lock" /\ p \in Feeders
    /\ CanLock
    /\ \/ /\ state = "detected"
          /\ Goto(p, "ready")
          /\ UNCHANGED <<machine, timer>>
       \/ /\ state = "detecting"
          /\ timer' = [timer EXCEPT ![p] = "armed"]
          /\ Sleep(p)
       \/ /\ state \in {"error", "timeout"}
          /\ Goto(p, "idle")
          /\ UNCHANGED <<machine, timer>>
       \/ /\ state = "unknown"
          /\ stateMu' = p
          /\ Goto(p, "first")
          /\ UNCHANGED <<state, asleep, timer>>
    /\ UNCHANGED <<readers, result, firstPacket, paused, pausing, found, calls, ghosts>>

\* With codecStateMu held: s.mu is taken for the time of the first packet.
FirstPacket(p) ==
    /\ pc[p] = "first"
    /\ MuFree
    /\ stateMu' = Nobody
    /\ \/ /\ firstPacket = "old"
          /\ state' = "timeout" /\ asleep' = {}
          /\ pausing' = pausing + 1
          /\ Goto(p, "idle")
          /\ UNCHANGED firstPacket
       \/ /\ firstPacket # "old"
          /\ firstPacket' = "recent"
          /\ state' = "detecting"
          /\ Goto(p, "detect")
          /\ UNCHANGED <<asleep, pausing>>
    /\ UNCHANGED <<readers, result, paused, timer, found, calls, ghosts>>

\* Mutant of Detect: a failed detection wakes nobody.
DetectSilent(p) ==
    /\ pc[p] = "detect" /\ CanLock
    /\ state' = "unknown"
    /\ Goto(p, "idle")
    /\ UNCHANGED <<stateMu, asleep, readers, result, limits, found, calls, ghosts>>

\* DetectFromRTPPacket, and the verdict under codecStateMu, the factory included.
Detect(p) ==
    /\ pc[p] = "detect"
    /\ CanLock
    /\ \E c \in Codecs \cup {Unknown} :
         \/ /\ c \in Codecs \ Unsupported
            /\ found' = [found EXCEPT ![p] = c]
            /\ Goto(p, "install")
            /\ UNCHANGED <<state, asleep>>
         \/ /\ c \notin Codecs \ Unsupported
            /\ state' = IF c = Unknown THEN "unknown" ELSE "error"
            /\ asleep' = {}
            /\ Goto(p, "idle")
            /\ UNCHANGED found
    /\ UNCHANGED <<stateMu, readers, result, limits, calls, ghosts>>

\* A waiting packet wakes up: the detection is over, or the timer has run out,
\* or neither, and it sleeps again.
PacketWoken(p) ==
    /\ pc[p] = "woken" /\ p \in Feeders
    /\ \/ /\ state = "detecting" /\ timer[p] # "done"
          /\ Sleep(p)
          /\ UNCHANGED timer
       \/ /\ state # "detecting" \/ timer[p] = "done"
          /\ stateMu' = Nobody
          /\ timer' = [timer EXCEPT ![p] = "none"]
          /\ Goto(p, IF state = "detected" THEN "ready" ELSE "idle")
          /\ UNCHANGED <<state, asleep>>
    /\ UNCHANGED <<readers, result, firstPacket, paused, pausing, found, calls, ghosts>>

\* The rest of ProcessPacket: statistics, and the jitter buffer if there is a
\* depacketizer.
Deliver(p) ==
    /\ pc[p] = "ready"
    /\ MuFree
    /\ dropped' = (dropped \/ depacketizer = Unknown)
    /\ Goto(p, "idle")
    /\ UNCHANGED <<machine, readers, result, limits, found, calls, refused>>

----------------------------------------------------------------------------
(* SetSDP *)

Describe(p) ==
    /\ pc[p] = "idle" /\ calls[p] < MaxCalls[p]
    /\ calls' = [calls EXCEPT ![p] = @ + 1]
    /\ \E c \in Codecs : found' = [found EXCEPT ![p] = c]
    /\ Goto(p, "lock")
    /\ UNCHANGED <<machine, readers, result, limits, ghosts>>

\* Mutant of Settle: an SDP is always believed.
SettleAnew(p) ==
    /\ stateMu' = Nobody
    /\ state' = "detecting"
    /\ Goto(p, "create")
    /\ UNCHANGED asleep

\* The state is not "detecting" and codecStateMu may be taken or is held: the
\* codec is compared (after the unlock, and without s.mu) or detected anew.
Settle(p) ==
    /\ stateMu' = Nobody
    /\ IF state = "detected"
       THEN /\ Goto(p, "compare")
            /\ UNCHANGED state
       ELSE /\ state' = "detecting"
            /\ Goto(p, "create")
    /\ UNCHANGED asleep

SDPLookUp(p) ==
    /\ pc[p] = "lock" /\ p \in Describers
    /\ CanLock
    /\ IF state = "detecting" THEN Sleep(p) ELSE Settle(p)
    /\ UNCHANGED <<readers, result, limits, found, calls, ghosts>>

\* Mutant of SDPWoken: the state is not looked at again.
SDPWokenOnce(p) ==
    /\ pc[p] = "woken" /\ p \in Describers
    /\ Settle(p)
    /\ UNCHANGED <<readers, result, limits, found, calls, ghosts>>

SDPWoken(p) ==
    /\ pc[p] = "woken" /\ p \in Describers
    /\ IF state = "detecting" THEN Sleep(p) ELSE Settle(p)
    /\ UNCHANGED <<readers, result, limits, found, calls, ghosts>>

Compare(p) ==
    /\ pc[p] = "compare"
    /\ refused' = IF codecType # found[p]
                  THEN refused \cup {<<found[p], codecType>>} ELSE refused
    /\ Goto(p, "idle")
    /\ UNCHANGED <<machine, readers, result, limits, found, calls, dropped>>

\* The factory runs without a lock; only its failure takes codecStateMu.
Create(p) ==
    /\ pc[p] = "create"
    /\ \/ /\ found[p] \notin Unsupported
          /\ Goto(p, "install")
          /\ UNCHANGED <<state, asleep>>
       \/ /\ found[p] \in Unsupported
          /\ CanLock
          /\ state' = "error" /\ asleep' = {}
          /\ Goto(p, "idle")
    /\ UNCHANGED <<stateMu, readers, result, limits, found, calls, ghosts>>

----------------------------------------------------------------------------
(* GetDiagnostics *)

Observe(p) ==
    /\ pc[p] = "idle" /\ calls[p] < MaxCalls[p]
    /\ calls' = [calls EXCEPT ![p] = @ + 1]
    /\ readers' = readers \cup {p}
    /\ Goto(p, "getCodecState")
    /\ UNCHANGED <<machine, result, limits, found, ghosts>>

\* s.mu is held while getCodecState takes codecStateMu.
ReadState(p) ==
    /\ pc[p] = "getCodecState"
    /\ CanLock
    /\ readers' = readers \ {p}
    /\ Goto(p, "idle")
    /\ UNCHANGED <<machine, result, limits, found, calls, ghosts>>

----------------------------------------------------------------------------
(* Timers, Pause and Resume *)

\* The timer goroutine wakes all sleepers and only then closes waitDone.
TimerFires(p) ==
    /\ timer[p] = "armed" /\ "1s" \in Limits
    /\ timer' = [timer EXCEPT ![p] = "fired"]
    /\ asleep' = {}
    /\ UNCHANGED <<state, stateMu, readers, result, firstPacket, paused, pausing,
                   pc, found, calls, ghosts>>

TimerCloses(p) ==
    /\ timer[p] = "fired"
    /\ timer' = [timer EXCEPT ![p] = "done"]
    /\ UNCHANGED <<machine, readers, result, firstPacket, paused, pausing,
                   pc, found, calls, ghosts>>

TenSeconds ==
    /\ firstPacket = "recent" /\ "10s" \in Limits
    /\ firstPacket' = "old"
    /\ UNCHANGED <<machine, readers, result, paused, pausing, timer, pc, found,
                   calls, ghosts>>

\* The goroutine started at the timeout, after its call to the registry.
PauseSelf ==
    /\ pausing > 0
    /\ pausing' = pausing - 1
    /\ paused' = TRUE
    /\ UNCHANGED <<machine, readers, result, firstPacket, timer, pc, found, calls, ghosts>>

----------------------------------------------------------------------------

ProcStep(p) ==
    \/ p \in Feeders /\ Packet(p)
    \/ p \in Describers /\ Describe(p)
    \/ p \in Observers /\ Observe(p)
    \/ Install(p) \/ Publish(p) \/ WakeUp(p)
    \/ LookUp(p) \/ FirstPacket(p) \/ Detect(p) \/ PacketWoken(p) \/ Deliver(p)
    \/ SDPLookUp(p) \/ SDPWoken(p) \/ Compare(p) \/ Create(p)
    \/ ReadState(p)

Next ==
    \/ \E p \in Procs : ProcStep(p)
    \/ \E p \in Feeders : TimerFires(p) \/ TimerCloses(p)
    \/ TenSeconds
    \/ PauseSelf

Spec == Init /\ [][Next]_vars

\* Goroutines run, locks are handed on, and a timer that has fired goes on.
FairSpec ==
    /\ Spec
    /\ \A p \in Procs : WF_vars(ProcStep(p))
    /\ \A p \in Feeders : WF_vars(TimerCloses(p))
    /\ WF_vars(PauseSelf)

----------------------------------------------------------------------------
(* Properties *)

\* The goroutines between the decision to detect and its end.
Detectors == {p \in Procs : pc[p] \in {"detect", "create", "install", "publish"}}

\* One detection at a time (session.go:244, 588): the state is "detecting" exactly
\* while one goroutine detects, though codecStateMu is released on the way, so
\* that those who sleep always have somebody to wake them.
OneDetector ==
    /\ state = "detecting" <=> Detectors # {}
    /\ \A p, q \in Detectors : p = q

\* A packet that detection lets pass finds its depacketizer (session.go:874-880):
\* the depacketizer is stored before the state says "detected".
NoneDropped == ~dropped

\* SetSDP reports a mismatch only with the codec the session really uses, now and
\* ever after, although it reads codecType after the unlock and without s.mu
\* (session.go:252, 263).
MismatchTruthful == \A r \in refused : r[2] = codecType /\ codecType = depacketizer

\* A session changes its codec at most once, from unknown (session.go:248-255):
\* no race of packets and SDPs replaces the depacketizer of a running stream.
CodecStable == [][codecType = Unknown /\ depacketizer = Unknown]_<<codecType, depacketizer>>

\* One goroutine holds codecStateMu and waits for s.mu, another does the opposite
\* (session.go:589-633 and diagnostics.go:78-95): neither lock is ever released.
CrossLocked ==
    \E p, q \in Procs :
      pc[p] = "first" /\ stateMu = p /\ pc[q] = "getCodecState" /\ q \in readers

\* ProcessPacket and SetSDP return, whichever way the detection ends: whoever
\* sleeps in detectionCond.Wait is woken, and the only thing that can hold a call
\* up for good is GetDiagnostics taking the two locks the other way round.
CallsReturn ==
    LET Inside == {p \in Feeders \cup Describers : pc[p] # "idle"}
    IN  Inside # {} ~> (Inside = {} \/ CrossLocked)

\* Detection is done by one goroutine at a time, and is over only when the
\* stream can be depacketized (session.go:588, :874).
DetectionSound == OneDetector /\ NoneDropped
=============================================================================
