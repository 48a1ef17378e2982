--------------------------- MODULE ServicesProofs ---------------------------
(***************************************************************************)
(* Proofs about the goroutines that serve an admitted stream: codec        *)
(* detection and the video pipeline.  Each part opens with its argument.   *)
(***************************************************************************)
EXTENDS CodecDetection, VideoPipeline, TLAPS

-----------------------------------------------------------------------------
(***************************************************************************)
(* The state machine of the codec detection lets one goroutine detect at a *)
(* time and changes the codec at most once, for any number of packets,     *)
(* SDPs, observers, timers and failures.                                   *)
(***************************************************************************)

Places == {"idle", "lock", "first", "detect", "create", "install", "publish",
           "sleeping", "woken", "compare", "ready", "getCodecState"}

\* The shape of what the argument talks about.
ShapeOK ==
    /\ pc \in [Procs -> Places]
    /\ found \in [Procs -> Codecs \cup {Unknown}]

\* codecStateMu is held across steps only by a goroutine that looks at the first
\* packet's time or has just been woken.
LockOK ==
    /\ \A p \in Procs : pc[p] \in {"first", "woken"} => stateMu = p
    /\ \A p \in Procs : pc[p] = "first" => state = "unknown"

\* What is stored, and when: nothing before the end of a detection, and the codec
\* found afterwards.
StoreOK ==
    /\ depacketizer = codecType
    /\ state = "detected" => codecType # Unknown
    /\ codecType # Unknown =>
         state = "detected" \/ \E p \in Procs : pc[p] = "publish"
    /\ \A p \in Procs : pc[p] = "publish" => codecType # Unknown
    /\ \A p \in Procs : pc[p] \in {"create", "install"} => found[p] # Unknown
    /\ \A p \in Procs : pc[p] = "lock" /\ p \in Describers => found[p] # Unknown
    /\ \A p \in Procs :
         pc[p] \in {"sleeping", "woken"} /\ p \in Describers => found[p] # Unknown
    /\ \A p \in Procs : pc[p] \in {"ready", "compare"} => codecType # Unknown

IInv == ShapeOK /\ LockOK /\ OneDetector /\ StoreOK

----------------------------------------------------------------------------

LEMMA InitOK == Init => IInv
BY DEF Init, IInv, ShapeOK, LockOK, OneDetector, Detectors, StoreOK, Places

\* A step that leaves the machine, the result and every goroutine's place alone.
LEMMA NothingMoves ==
    ASSUME IInv, UNCHANGED <<state, stateMu, codecType, depacketizer, pc, found>>
    PROVE  IInv'
BY DEF IInv, ShapeOK, LockOK, OneDetector, Detectors, StoreOK, Places

LEMMA InstallOK ==
    ASSUME IInv, NEW p \in Procs, Install(p)
    PROVE  IInv'
<1> USE DEF Install, Goto, CanLock, machine, result, limits, ghosts
<1>1. ShapeOK'
  BY DetectionAssumption DEF IInv, ShapeOK, Places
<1>2. LockOK'
  BY DetectionAssumption DEF IInv, ShapeOK, LockOK, OneDetector, Detectors, Places
<1>3. OneDetector'
  BY DEF IInv, ShapeOK, LockOK, OneDetector, Detectors, Places
<1>4. StoreOK'
  BY DetectionAssumption DEF IInv, ShapeOK, LockOK, OneDetector, Detectors, StoreOK, Places
<1> QED
  BY <1>1, <1>2, <1>3, <1>4 DEF IInv

LEMMA PublishOK ==
    ASSUME IInv, NEW p \in Procs, Publish(p)
    PROVE  IInv'
<1> USE DEF Publish, Goto, CanLock, machine, result, limits, ghosts
<1>1. ShapeOK'
  BY DetectionAssumption DEF IInv, ShapeOK, Places
<1>2. LockOK'
  BY DetectionAssumption DEF IInv, ShapeOK, LockOK, OneDetector, Detectors, Places
<1>3. OneDetector'
  BY DEF IInv, ShapeOK, LockOK, OneDetector, Detectors, Places
<1>4. StoreOK'
  BY DetectionAssumption DEF IInv, ShapeOK, LockOK, OneDetector, Detectors, StoreOK, Places
<1> QED
  BY <1>1, <1>2, <1>3, <1>4 DEF IInv

LEMMA WakeUpOK ==
    ASSUME IInv, NEW p \in Procs, WakeUp(p)
    PROVE  IInv'
<1> USE DEF WakeUp, Goto, CanLock, machine, result, limits, ghosts
<1>1. ShapeOK'
  BY DetectionAssumption DEF IInv, ShapeOK, Places
<1>2. LockOK'
  BY DetectionAssumption DEF IInv, ShapeOK, LockOK, OneDetector, Detectors, Places
<1>3. OneDetector'
  BY DEF IInv, ShapeOK, LockOK, OneDetector, Detectors, Places
<1>4. StoreOK'
  BY DetectionAssumption DEF IInv, ShapeOK, LockOK, OneDetector, Detectors, StoreOK, Places
<1> QED
  BY <1>1, <1>2, <1>3, <1>4 DEF IInv

LEMMA PacketOK ==
    ASSUME IInv, NEW p \in Procs, p \in Feeders, Packet(p)
    PROVE  IInv'
<1> USE DEF Packet, Goto, CanLock, machine, result, limits, ghosts
<1>1. ShapeOK'
  BY DetectionAssumption DEF IInv, ShapeOK, Places
<1>2. LockOK'
  BY DetectionAssumption DEF IInv, ShapeOK, LockOK, OneDetector, Detectors, Places
<1>3. OneDetector'
  BY DEF IInv, ShapeOK, LockOK, OneDetector, Detectors, Places
<1>4. StoreOK'
  BY DetectionAssumption DEF IInv, ShapeOK, LockOK, OneDetector, Detectors, StoreOK, Places
<1> QED
  BY <1>1, <1>2, <1>3, <1>4 DEF IInv

LEMMA LookUpOK ==
    ASSUME IInv, NEW p \in Procs, LookUp(p)
    PROVE  IInv'
<1> USE DEF LookUp, Sleep, Goto, CanLock, machine, result, limits, ghosts
<1>1. ShapeOK'
  BY DetectionAssumption DEF IInv, ShapeOK, Places
<1>2. LockOK'
  BY DetectionAssumption DEF IInv, ShapeOK, LockOK, OneDetector, Detectors, Places
<1>3. OneDetector'
  BY DEF IInv, ShapeOK, LockOK, OneDetector, Detectors, Places
<1>4. StoreOK'
  BY DetectionAssumption DEF IInv, ShapeOK, LockOK, OneDetector, Detectors, StoreOK, Places
<1> QED
  BY <1>1, <1>2, <1>3, <1>4 DEF IInv

LEMMA FirstPacketOK ==
    ASSUME IInv, NEW p \in Procs, FirstPacket(p)
    PROVE  IInv'
<1> USE DEF FirstPacket, Goto, CanLock, machine, result, limits, ghosts
<1>1. ShapeOK'
  BY DetectionAssumption DEF IInv, ShapeOK, Places
<1>2. LockOK'
  BY DetectionAssumption DEF IInv, ShapeOK, LockOK, OneDetector, Detectors, Places
<1>3. OneDetector'
  BY DEF IInv, ShapeOK, LockOK, OneDetector, Detectors, Places
<1>4. StoreOK'
  BY DetectionAssumption DEF IInv, ShapeOK, LockOK, OneDetector, Detectors, StoreOK, Places
<1> QED
  BY <1>1, <1>2, <1>3, <1>4 DEF IInv

LEMMA DetectOK ==
    ASSUME IInv, NEW p \in Procs, Detect(p)
    PROVE  IInv'
<1> USE DEF Detect, Goto, CanLock, machine, result, limits, ghosts
<1>1. ShapeOK'
  BY DetectionAssumption DEF IInv, ShapeOK, Places
<1>2. LockOK'
  BY DetectionAssumption DEF IInv, ShapeOK, LockOK, OneDetector, Detectors, Places
<1>3. OneDetector'
  BY DEF IInv, ShapeOK, LockOK, OneDetector, Detectors, Places
<1>4. StoreOK'
  BY DetectionAssumption DEF IInv, ShapeOK, LockOK, OneDetector, Detectors, StoreOK, Places
<1> QED
  BY <1>1, <1>2, <1>3, <1>4 DEF IInv

LEMMA PacketWokenOK ==
    ASSUME IInv, NEW p \in Procs, PacketWoken(p)
    PROVE  IInv'
<1> USE DEF PacketWoken, Sleep, Goto, CanLock, machine, result, limits, ghosts
<1>1. ShapeOK'
  BY DetectionAssumption DEF IInv, ShapeOK, Places
<1>2. LockOK'
  BY DetectionAssumption DEF IInv, ShapeOK, LockOK, OneDetector, Detectors, Places
<1>3. OneDetector'
  BY DEF IInv, ShapeOK, LockOK, OneDetector, Detectors, Places
<1>4. StoreOK'
  BY DetectionAssumption DEF IInv, ShapeOK, LockOK, OneDetector, Detectors, StoreOK, Places
<1> QED
  BY <1>1, <1>2, <1>3, <1>4 DEF IInv

LEMMA DeliverOK ==
    ASSUME IInv, NEW p \in Procs, Deliver(p)
    PROVE  IInv'
<1> USE DEF Deliver, Goto, CanLock, machine, result, limits, ghosts
<1>1. ShapeOK'
  BY DetectionAssumption DEF IInv, ShapeOK, Places
<1>2. LockOK'
  BY DetectionAssumption DEF IInv, ShapeOK, LockOK, OneDetector, Detectors, Places
<1>3. OneDetector'
  BY DEF IInv, ShapeOK, LockOK, OneDetector, Detectors, Places
<1>4. StoreOK'
  BY DetectionAssumption DEF IInv, ShapeOK, LockOK, OneDetector, Detectors, StoreOK, Places
<1> QED
  BY <1>1, <1>2, <1>3, <1>4 DEF IInv

LEMMA DescribeOK ==
    ASSUME IInv, NEW p \in Procs, p \in Describers, Describe(p)
    PROVE  IInv'
<1> USE DEF Describe, Goto, CanLock, machine, result, limits, ghosts
<1>1. ShapeOK'
  BY DetectionAssumption DEF IInv, ShapeOK, Places
<1>2. LockOK'
  BY DetectionAssumption DEF IInv, ShapeOK, LockOK, OneDetector, Detectors, Places
<1>3. OneDetector'
  BY DEF IInv, ShapeOK, LockOK, OneDetector, Detectors, Places
<1>4. StoreOK'
  BY DetectionAssumption DEF IInv, ShapeOK, LockOK, OneDetector, Detectors, StoreOK, Places
<1> QED
  BY <1>1, <1>2, <1>3, <1>4 DEF IInv

LEMMA SDPLookUpOK ==
    ASSUME IInv, NEW p \in Procs, SDPLookUp(p)
    PROVE  IInv'
<1> USE DEF SDPLookUp, Sleep, Settle, Goto, CanLock, machine, result, limits, ghosts
<1>1. ShapeOK'
  BY DetectionAssumption DEF IInv, ShapeOK, Places
<1>2. LockOK'
  BY DetectionAssumption DEF IInv, ShapeOK, LockOK, OneDetector, Detectors, Places
<1>3. OneDetector'
  BY DEF IInv, ShapeOK, LockOK, OneDetector, Detectors, Places
<1>4. StoreOK'
  BY DetectionAssumption DEF IInv, ShapeOK, LockOK, OneDetector, Detectors, StoreOK, Places
<1> QED
  BY <1>1, <1>2, <1>3, <1>4 DEF IInv

LEMMA SDPWokenOK ==
    ASSUME IInv, NEW p \in Procs, SDPWoken(p)
    PROVE  IInv'
<1> USE DEF SDPWoken, Sleep, Settle, Goto, CanLock, machine, result, limits, ghosts
<1>1. ShapeOK'
  BY DetectionAssumption DEF IInv, ShapeOK, Places
<1>2. LockOK'
  BY DetectionAssumption DEF IInv, ShapeOK, LockOK, OneDetector, Detectors, Places
<1>3. OneDetector'
  BY DEF IInv, ShapeOK, LockOK, OneDetector, Detectors, Places
<1>4. StoreOK'
  BY DetectionAssumption DEF IInv, ShapeOK, LockOK, OneDetector, Detectors, StoreOK, Places
<1> QED
  BY <1>1, <1>2, <1>3, <1>4 DEF IInv

LEMMA CompareOK ==
    ASSUME IInv, NEW p \in Procs, Compare(p)
    PROVE  IInv'
<1> USE DEF Compare, Goto, CanLock, machine, result, limits, ghosts
<1>1. ShapeOK'
  BY DetectionAssumption DEF IInv, ShapeOK, Places
<1>2. LockOK'
  BY DetectionAssumption DEF IInv, ShapeOK, LockOK, OneDetector, Detectors, Places
<1>3. OneDetector'
  BY DEF IInv, ShapeOK, LockOK, OneDetector, Detectors, Places
<1>4. StoreOK'
  BY DetectionAssumption DEF IInv, ShapeOK, LockOK, OneDetector, Detectors, StoreOK, Places
<1> QED
  BY <1>1, <1>2, <1>3, <1>4 DEF IInv

LEMMA CreateOK ==
    ASSUME IInv, NEW p \in Procs, Create(p)
    PROVE  IInv'
<1> USE DEF Create, Goto, CanLock, machine, result, limits, ghosts
<1>1. ShapeOK'
  BY DetectionAssumption DEF IInv, ShapeOK, Places
<1>2. LockOK'
  BY DetectionAssumption DEF IInv, ShapeOK, LockOK, OneDetector, Detectors, Places
<1>3. OneDetector'
  BY DEF IInv, ShapeOK, LockOK, OneDetector, Detectors, Places
<1>4. StoreOK'
  BY DetectionAssumption DEF IInv, ShapeOK, LockOK, OneDetector, Detectors, StoreOK, Places
<1> QED
  BY <1>1, <1>2, <1>3, <1>4 DEF IInv

LEMMA ObserveOK ==
    ASSUME IInv, NEW p \in Procs, p \in Observers, Observe(p)
    PROVE  IInv'
<1> USE DEF Observe, Goto, CanLock, machine, result, limits, ghosts
<1>1. ShapeOK'
  BY DetectionAssumption DEF IInv, ShapeOK, Places
<1>2. LockOK'
  BY DetectionAssumption DEF IInv, ShapeOK, LockOK, OneDetector, Detectors, Places
<1>3. OneDetector'
  BY DEF IInv, ShapeOK, LockOK, OneDetector, Detectors, Places
<1>4. StoreOK'
  BY DetectionAssumption DEF IInv, ShapeOK, LockOK, OneDetector, Detectors, StoreOK, Places
<1> QED
  BY <1>1, <1>2, <1>3, <1>4 DEF IInv

LEMMA ReadStateOK ==
    ASSUME IInv, NEW p \in Procs, ReadState(p)
    PROVE  IInv'
<1> USE DEF ReadState, Goto, CanLock, machine, result, limits, ghosts
<1>1. ShapeOK'
  BY DetectionAssumption DEF IInv, ShapeOK, Places
<1>2. LockOK'
  BY DetectionAssumption DEF IInv, ShapeOK, LockOK, OneDetector, Detectors, Places
<1>3. OneDetector'
  BY DEF IInv, ShapeOK, LockOK, OneDetector, Detectors, Places
<1>4. StoreOK'
  BY DetectionAssumption DEF IInv, ShapeOK, LockOK, OneDetector, Detectors, StoreOK, Places
<1> QED
  BY <1>1, <1>2, <1>3, <1>4 DEF IInv

LEMMA StepOK == IInv /\ [Next]_vars => IInv'
<1> SUFFICES ASSUME IInv, [Next]_vars PROVE IInv'
  OBVIOUS
<1>1. CASE \E p \in Procs : ProcStep(p)
  BY <1>1, InstallOK, PublishOK, WakeUpOK, PacketOK, LookUpOK, FirstPacketOK, DetectOK,
     PacketWokenOK, DeliverOK, DescribeOK, SDPLookUpOK, SDPWokenOK, CompareOK, CreateOK,
     ObserveOK, ReadStateOK DEF ProcStep
<1>2. CASE \E p \in Feeders : TimerFires(p) \/ TimerCloses(p)
  BY <1>2, NothingMoves DEF TimerFires, TimerCloses, machine, result
<1>3. CASE TenSeconds \/ PauseSelf
  BY <1>3, NothingMoves DEF TenSeconds, PauseSelf, machine, result
<1>4. CASE UNCHANGED vars
  BY <1>4, NothingMoves DEF vars, machine, result
<1> QED
  BY <1>1, <1>2, <1>3, <1>4 DEF Next

\* One detection at a time (session.go:244, 588), whatever races with it.
THEOREM DetectsAlone == Spec => []OneDetector
<1>1. IInv => OneDetector
  BY DEF IInv
<1> QED
  BY <1>1, InitOK, StepOK, PTL DEF Spec

\* The codec and its depacketizer are set together, once (session.go:248-255).
THEOREM CodecSetOnce == Spec => CodecStable
<1>1. IInv /\ [Next]_vars
        => [codecType = Unknown /\ depacketizer = Unknown]_<<codecType, depacketizer>>
  <2> SUFFICES ASSUME IInv, [Next]_vars, ~UNCHANGED <<codecType, depacketizer>>
               PROVE  codecType = Unknown /\ depacketizer = Unknown
    OBVIOUS
  <2>1. PICK p \in Procs : Install(p)
    BY DEF Next, ProcStep, vars, result, Packet, Describe, Observe, Publish, WakeUp,
       LookUp, FirstPacket, Detect, PacketWoken, Deliver, SDPLookUp, SDPWoken,
       Compare, Create, ReadState, TimerFires, TimerCloses, TenSeconds, PauseSelf
  <2> QED
    BY <2>1 DEF Install, IInv, StoreOK, OneDetector, Detectors
<1> QED
  BY <1>1, InitOK, StepOK, PTL DEF Spec, CodecStable

\* What is reported and what is dropped, given the invariant.
RefusedKnown == \A r \in refused : r[2] # Unknown

GhostInv == MismatchTruthful /\ NoneDropped /\ RefusedKnown

LEMMA GhostStep == IInv /\ GhostInv /\ [Next]_vars => GhostInv'
<1> SUFFICES ASSUME IInv, GhostInv, [Next]_vars PROVE GhostInv'
  OBVIOUS
<1>1. NoneDropped'
  <2>1. CASE UNCHANGED dropped
    BY <2>1, Zenon DEF GhostInv, NoneDropped
  <2>2. CASE \E p \in Procs : Deliver(p)
    <3> PICK p \in Procs : Deliver(p)
      BY <2>2
    <3>1. depacketizer # Unknown
      BY DEF Deliver, IInv, StoreOK
    <3> QED
      BY <3>1, Zenon DEF Deliver, GhostInv, NoneDropped
  <2> QED
    BY <2>1, <2>2 DEF Next, ProcStep, vars, ghosts, Packet, Describe, Observe, Install,
       Publish, WakeUp, LookUp, FirstPacket, Detect, PacketWoken, SDPLookUp, SDPWoken,
       Compare, Create, ReadState, TimerFires, TimerCloses, TenSeconds, PauseSelf
<1>2. MismatchTruthful'
  <2>1. depacketizer' = codecType'
    BY StepOK DEF IInv, StoreOK
  <2>2. CASE UNCHANGED <<refused, codecType>>
    BY <2>1, <2>2 DEF GhostInv, MismatchTruthful
  <2>3. CASE \E p \in Procs : Install(p)
    <3> PICK p \in Procs : Install(p)
      BY <2>3
    <3>1. codecType = Unknown /\ refused' = refused
      BY DEF Install, ghosts, IInv, StoreOK, OneDetector, Detectors
    <3>2. refused = {}
      BY <3>1 DEF GhostInv, MismatchTruthful, RefusedKnown
    <3> QED
      BY <3>1, <3>2 DEF MismatchTruthful
  <2>4. CASE \E p \in Procs : Compare(p)
    BY <2>1, <2>4 DEF Compare, result, GhostInv, MismatchTruthful
  <2> QED
    BY <2>2, <2>3, <2>4 DEF Next, ProcStep, vars, ghosts, result, Packet, Describe,
       Observe, Publish, WakeUp, LookUp, FirstPacket, Detect, PacketWoken, Deliver,
       SDPLookUp, SDPWoken, Create, ReadState, TimerFires, TimerCloses, TenSeconds,
       PauseSelf
<1>3. RefusedKnown'
  <2>1. CASE UNCHANGED refused
    BY <2>1 DEF GhostInv, RefusedKnown
  <2>2. CASE \E p \in Procs : Compare(p)
    BY <2>2 DEF Compare, IInv, StoreOK, GhostInv, RefusedKnown
  <2> QED
    BY <2>1, <2>2 DEF Next, ProcStep, vars, ghosts, Packet, Describe, Observe, Install,
       Publish, WakeUp, LookUp, FirstPacket, Detect, PacketWoken, Deliver, SDPLookUp,
       SDPWoken, Create, ReadState, TimerFires, TimerCloses, TenSeconds, PauseSelf
<1> QED
  BY <1>1, <1>2, <1>3 DEF GhostInv

LEMMA GhostInit == Init => GhostInv
<1> SUFFICES ASSUME Init PROVE GhostInv
  OBVIOUS
<1>1. NoneDropped
  BY Zenon DEF Init, NoneDropped
<1>2. MismatchTruthful /\ RefusedKnown
  BY DEF Init, MismatchTruthful, RefusedKnown
<1> QED
  BY <1>1, <1>2 DEF GhostInv

\* SetSDP reports a mismatch only with the codec the session uses for good
\* (session.go:252, 263), although it reads codecType without s.mu.
THEOREM MismatchIsReal == Spec => []MismatchTruthful
<1>1. GhostInv => MismatchTruthful
  BY DEF GhostInv
<1> QED
  BY <1>1, InitOK, StepOK, GhostInit, GhostStep, PTL DEF Spec

\* A packet that passes the detection finds a depacketizer (session.go:874-880).
THEOREM DetectedIsReady == Spec => []NoneDropped
<1>1. GhostInv => NoneDropped
  BY DEF GhostInv
<1> QED
  BY <1>1, InitOK, StepOK, GhostInit, GhostStep, PTL DEF Spec

\* One goroutine detects, and what it found can be used as soon as the others
\* may rely on it (session.go:588, :874).
THEOREM DetectsSoundly == Spec => []DetectionSound
<1>1. OneDetector /\ NoneDropped => DetectionSound
  BY DEF DetectionSound
<1> QED
  BY <1>1, DetectsAlone, DetectedIsReady, PTL

-----------------------------------------------------------------------------
(***************************************************************************)
(* The video pipeline loses and reorders nothing until it is shut down,    *)
(* and leaves nothing running behind it (FramesFlow).                      *)
(*                                                                         *)
(* Argument: the frames in flight form one line, from what was emitted     *)
(* over what processFrames has in hand, the reorderer and the assembler's  *)
(* channel to what the assembler completes; IDs rise along it, except that *)
(* metadata passes the video frames that are held back (OrderOK).  Each    *)
(* step moves the first frame of one place to the end of the next.  The    *)
(* order is only kept up until the context is cancelled; from then on Stop *)
(* closes a channel only behind the goroutines it waited for (StopOK).     *)
(***************************************************************************)

Kind3 == {"video", "meta", "empty"}

\* One frame may leave the pipeline before another.
Fits(x, y) == y < x => kind[x] = "meta" /\ kind[y] = "video"

Rising(s) == \A i, j \in DOMAIN s : i < j => s[i] < s[j]
FitsWithin(s) == \A i, j \in DOMAIN s : i < j => Fits(s[i], s[j])

\* The frames past the assembler's channel, and those that wait before it.
Ahead == IDs(emitted) \cup IDs(pfSend) \cup IDs(held)
Behind == IDs(asmOut) \cup IDs(ppSend)

PipeShape ==
  /\ nextID \in Nat \ {0} /\ current \in 0..(nextID - 1)
  /\ kind \in Seq(Kind3) /\ Len(kind) = nextID - 1
  /\ ppSend \in Seq(Nat) /\ asmOut \in Seq(Nat) /\ pfSend \in Seq(Nat)
  /\ held \in Seq(Nat) /\ prSend \in Seq(Nat) /\ emitted \in Seq(Nat)
  /\ Ahead \cup Behind \cup IDs(prSend) \subseteq 1..(nextID - 1)

StageOK ==
  /\ pp \in {"select", "send", "done"} /\ pf \in {"select", "send", "done"}
  /\ pp = "send" => ppSend # <<>>
  /\ pp = "select" => ppSend = <<>>
  /\ pf = "send" => pfSend # <<>>
  /\ pf = "select" => pfSend = <<>>
  /\ ~cancelled => pf # "done" /\ pr = "wait" /\ ~asmClosed /\ ~outClosed

StopOK ==
  /\ pr \in {"wait", "flush", "done"}
  /\ stop \in {"running", "waiting", "assembler", "flushing", "done"}
  /\ stop # "running" => cancelled
  /\ asmClosed => stop \in {"flushing", "done"}
  /\ outClosed => stop = "done"
  /\ ~impatient /\ stop \in {"assembler", "flushing", "done"}
       => pp = "done" /\ pf = "done" /\ pr = "done"
  /\ crashed => impatient

OrderOK ==
  /\ Rising(held) /\ Rising(asmOut) /\ Rising(ppSend)
  /\ \A x \in IDs(held) : kind[x] = "video"
  /\ FitsWithin(emitted) /\ FitsWithin(pfSend)
  /\ \A x \in IDs(emitted), y \in IDs(pfSend) : Fits(x, y)
  /\ \A x \in IDs(emitted) \cup IDs(pfSend), y \in IDs(held) : Fits(x, y)
  /\ \A x \in Ahead, y \in Behind : x < y
  /\ \A x \in IDs(asmOut), y \in IDs(ppSend) : x < y
  /\ current # 0 => \A x \in Ahead \cup Behind : x < current

PipeInv == PipeShape /\ StageOK /\ StopOK /\ NoLossWhileRunning /\ (~cancelled => OrderOK)

-----------------------------------------------------------------------------
LEMMA IDsEmpty == IDs(<<>>) = {}
BY DEF IDs

LEMMA IDsAppend ==
  ASSUME NEW s \in Seq(Nat), NEW e \in Nat
  PROVE  Append(s, e) \in Seq(Nat) /\ IDs(Append(s, e)) = IDs(s) \cup {e}
<1>1. Append(s, e) \in Seq(Nat) /\ DOMAIN Append(s, e) = 1..(Len(s) + 1) /\ DOMAIN s = 1..Len(s)
  OBVIOUS
<1>2. \A i \in 1..(Len(s) + 1) : Append(s, e)[i] = IF i <= Len(s) THEN s[i] ELSE e
  OBVIOUS
<1>3. Len(s) \in Nat /\ (Len(s) + 1) \in 1..(Len(s) + 1) /\ ~(Len(s) + 1 <= Len(s))
  OBVIOUS
<1>4. IDs(Append(s, e)) \subseteq IDs(s) \cup {e}
  BY <1>1, <1>2, <1>3 DEF IDs
<1>5. IDs(s) \subseteq IDs(Append(s, e))
  BY <1>1, <1>2, <1>3 DEF IDs
<1>6. e \in IDs(Append(s, e))
  BY <1>1, <1>2, <1>3 DEF IDs
<1> QED
  BY <1>1, <1>4, <1>5, <1>6

LEMMA IDsTail ==
  ASSUME NEW s \in Seq(Nat), s # <<>>
  PROVE  /\ Head(s) \in Nat /\ Tail(s) \in Seq(Nat) /\ IDs(s) = {Head(s)} \cup IDs(Tail(s))
         /\ Head(s) = s[1] /\ Len(Tail(s)) = Len(s) - 1 /\ Len(s) \in Nat \ {0}
         /\ \A i \in DOMAIN Tail(s) : i + 1 \in DOMAIN s /\ Tail(s)[i] = s[i + 1]
<1>1. /\ Head(s) \in Nat /\ Tail(s) \in Seq(Nat) /\ DOMAIN s = 1..Len(s) /\ Len(s) \in Nat \ {0}
      /\ DOMAIN Tail(s) = 1..(Len(s) - 1) /\ Head(s) = s[1] /\ Len(Tail(s)) = Len(s) - 1
  OBVIOUS
<1>2. \A i \in 1..(Len(s) - 1) : Tail(s)[i] = s[i + 1]
  OBVIOUS
<1>3. IDs(Tail(s)) \subseteq IDs(s) /\ Head(s) \in IDs(s)
  BY <1>1, <1>2 DEF IDs
<1>4. ASSUME NEW i \in 1..Len(s) PROVE s[i] \in {Head(s)} \cup IDs(Tail(s))
  <2>1. CASE i = 1
    BY <1>1, <2>1
  <2>2. CASE i # 1
    <3>1. i - 1 \in 1..(Len(s) - 1) /\ (i - 1) + 1 = i
      BY <1>1, <2>2
    <3>2. Tail(s)[i - 1] = s[i]
      BY <1>2, <3>1
    <3> QED
      BY <1>1, <3>1, <3>2 DEF IDs
  <2> QED
    BY <2>1, <2>2
<1>5. IDs(s) \subseteq {Head(s)} \cup IDs(Tail(s))
  BY <1>1, <1>4 DEF IDs
<1> QED
  BY <1>1, <1>2, <1>3, <1>5

LEMMA IDsSplit ==
  ASSUME NEW s \in Seq(Nat), NEW n \in 0..Len(s)
  PROVE  LET a == SubSeq(s, 1, n)
             b == SubSeq(s, n + 1, Len(s))
         IN  /\ a \in Seq(Nat) /\ b \in Seq(Nat) /\ IDs(s) = IDs(a) \cup IDs(b)
             /\ Len(a) = n /\ Len(b) = Len(s) - n
             /\ \A i \in 1..n : a[i] = s[i]
             /\ \A i \in 1..(Len(s) - n) : b[i] = s[n + i]
<1> DEFINE a == SubSeq(s, 1, n)
           b == SubSeq(s, n + 1, Len(s))
<1>1. /\ a \in Seq(Nat) /\ b \in Seq(Nat) /\ Len(a) = n /\ Len(b) = Len(s) - n
      /\ DOMAIN s = 1..Len(s) /\ DOMAIN a = 1..n /\ DOMAIN b = 1..(Len(s) - n)
      /\ Len(s) \in Nat /\ n \in Nat
  OBVIOUS
<1>2. \A i \in 1..n : a[i] = s[i] /\ i \in 1..Len(s)
  OBVIOUS
<1>3. \A i \in 1..(Len(s) - n) : b[i] = s[n + i] /\ n + i \in 1..Len(s)
  OBVIOUS
<1> HIDE DEF a, b
<1>4. IDs(a) \subseteq IDs(s) /\ IDs(b) \subseteq IDs(s)
  <2>1. \A i \in DOMAIN a : \E j \in DOMAIN s : a[i] = s[j]
    BY <1>1, <1>2
  <2>2. \A i \in DOMAIN b : \E j \in DOMAIN s : b[i] = s[j]
    BY <1>1, <1>3
  <2> QED
    BY <2>1, <2>2 DEF IDs
<1>5. ASSUME NEW i \in 1..Len(s) PROVE s[i] \in IDs(a) \cup IDs(b)
  <2>1. CASE i <= n
    <3>1. i \in 1..n /\ i \in DOMAIN a /\ a[i] = s[i]
      BY <1>1, <1>2, <2>1
    <3> QED
      BY <3>1 DEF IDs
  <2>2. CASE i > n
    <3>1. i - n \in 1..(Len(s) - n) /\ n + (i - n) = i
      BY <1>1, <2>2
    <3>2. b[i - n] = s[i]
      BY <1>3, <3>1
    <3> QED
      BY <1>1, <3>1, <3>2 DEF IDs
  <2> QED
    BY <1>1, <2>1, <2>2
<1>6. IDs(s) \subseteq IDs(a) \cup IDs(b)
  BY <1>1, <1>5 DEF IDs
<1> QED
  BY <1>1, <1>2, <1>3, <1>4, <1>6 DEF a, b

\* Rising sequences: the tail, and one more at the end.
LEMMA RisingTail ==
  ASSUME NEW s \in Seq(Nat), s # <<>>, Rising(s)
  PROVE  Rising(Tail(s)) /\ \A x \in IDs(Tail(s)) : Head(s) < x
<1>1. /\ Tail(s) \in Seq(Nat) /\ DOMAIN Tail(s) = 1..(Len(s) - 1) /\ Len(s) \in Nat \ {0}
      /\ Head(s) = s[1] /\ 1 \in DOMAIN s
      /\ \A i \in DOMAIN Tail(s) : i + 1 \in DOMAIN s /\ Tail(s)[i] = s[i + 1]
  BY IDsTail
<1>2. Rising(Tail(s))
  BY <1>1 DEF Rising
<1>3. \A i \in DOMAIN Tail(s) : s[1] < Tail(s)[i]
  BY <1>1 DEF Rising
<1> QED
  BY <1>1, <1>2, <1>3 DEF IDs

LEMMA RisingAppend ==
  ASSUME NEW s \in Seq(Nat), NEW e \in Nat, Rising(s), \A x \in IDs(s) : x < e
  PROVE  Rising(Append(s, e))
<1>1. /\ DOMAIN Append(s, e) = 1..(Len(s) + 1) /\ DOMAIN s = 1..Len(s) /\ Len(s) \in Nat
      /\ \A i \in 1..(Len(s) + 1) : Append(s, e)[i] = IF i <= Len(s) THEN s[i] ELSE e
  OBVIOUS
<1>2. \A i \in 1..Len(s) : s[i] < e
  BY <1>1 DEF IDs
<1> QED
  BY <1>1, <1>2 DEF Rising

LEMMA FitsAppend ==
  ASSUME NEW s \in Seq(Nat), NEW e \in Nat, FitsWithin(s), \A x \in IDs(s) : Fits(x, e)
  PROVE  FitsWithin(Append(s, e))
<1>1. /\ DOMAIN Append(s, e) = 1..(Len(s) + 1) /\ DOMAIN s = 1..Len(s) /\ Len(s) \in Nat
      /\ \A i \in 1..(Len(s) + 1) : Append(s, e)[i] = IF i <= Len(s) THEN s[i] ELSE e
  OBVIOUS
<1>2. \A i \in 1..Len(s) : Fits(s[i], e)
  BY <1>1 DEF IDs
<1> QED
  BY <1>1, <1>2 DEF FitsWithin

LEMMA FitsTail ==
  ASSUME NEW s \in Seq(Nat), s # <<>>, FitsWithin(s)
  PROVE  FitsWithin(Tail(s)) /\ \A x \in IDs(Tail(s)) : Fits(Head(s), x)
<1>1. /\ Tail(s) \in Seq(Nat) /\ DOMAIN Tail(s) = 1..(Len(s) - 1) /\ Len(s) \in Nat \ {0}
      /\ Head(s) = s[1] /\ 1 \in DOMAIN s
      /\ \A i \in DOMAIN Tail(s) : i + 1 \in DOMAIN s /\ Tail(s)[i] = s[i + 1]
  BY IDsTail
<1>2. FitsWithin(Tail(s))
  BY <1>1 DEF FitsWithin
<1>3. \A i \in DOMAIN Tail(s) : Fits(s[1], Tail(s)[i])
  BY <1>1 DEF FitsWithin
<1> QED
  BY <1>1, <1>2, <1>3 DEF IDs

LEMMA RisingSplit ==
  ASSUME NEW s \in Seq(Nat), NEW n \in 0..Len(s), Rising(s)
  PROVE  LET a == SubSeq(s, 1, n)
             b == SubSeq(s, n + 1, Len(s))
         IN  Rising(b) /\ FitsWithin(a) /\ \A x \in IDs(a), y \in IDs(b) : x < y
<1> DEFINE a == SubSeq(s, 1, n)
           b == SubSeq(s, n + 1, Len(s))
<1>1. /\ DOMAIN a = 1..n /\ DOMAIN b = 1..(Len(s) - n) /\ DOMAIN s = 1..Len(s)
      /\ \A i \in 1..n : a[i] = s[i]
      /\ \A i \in 1..(Len(s) - n) : b[i] = s[n + i]
      /\ Len(s) \in Nat /\ n \in Nat /\ n <= Len(s)
      /\ \A i \in 1..Len(s) : s[i] \in Nat
  BY IDsSplit
<1> HIDE DEF a, b
<1>2. Rising(b)
  <2> SUFFICES ASSUME NEW i \in 1..(Len(s) - n), NEW j \in 1..(Len(s) - n), i < j
               PROVE  b[i] < b[j]
    BY <1>1 DEF Rising
  <2>1. n + i \in DOMAIN s /\ n + j \in DOMAIN s /\ n + i < n + j
    BY <1>1
  <2>2. s[n + i] < s[n + j]
    BY <2>1 DEF Rising
  <2> QED
    BY <1>1, <2>2
<1>3. FitsWithin(a)
  BY <1>1 DEF Rising, FitsWithin, Fits
<1>4. ASSUME NEW i \in 1..n, NEW j \in 1..(Len(s) - n)
      PROVE  a[i] < b[j]
  <2>1. i \in DOMAIN s /\ n + j \in DOMAIN s /\ i < n + j
    BY <1>1
  <2>2. s[i] < s[n + j]
    BY <2>1 DEF Rising
  <2> QED
    BY <1>1, <2>2
<1> QED
  BY <1>1, <1>2, <1>3, <1>4 DEF IDs, a, b

-----------------------------------------------------------------------------
(* The steps *)

USE DEF Kind3

LEMMA PipeInitially == PipeInit => PipeInv
BY IDsEmpty DEF PipeInit, PipeInv, PipeShape, StageOK, StopOK, OrderOK, NoLossWhileRunning, Rising,
   FitsWithin, Ahead, Behind

\* Stop, the connection and the consumer move no frame.
LEMMA UnmovedKeeps ==
  ASSUME PipeInv, UNCHANGED <<ppVars, asmOut, pfVars, held, prVars, emitted>>,
         cancelled => cancelled'
  PROVE  PipeShape' /\ NoLossWhileRunning' /\ (~cancelled' => OrderOK')
<1>1. UNCHANGED <<current, nextID, kind, ppSend, lost, asmOut, pfSend, held, prSend, emitted>>
  BY DEF ppVars, pfVars, prVars
<1>2. PipeShape'
  BY <1>1 DEF PipeInv, PipeShape, Ahead, Behind
<1>3. NoLossWhileRunning'
  BY <1>1 DEF PipeInv, NoLossWhileRunning
<1>4. OrderOK => OrderOK'
  BY <1>1 DEF OrderOK, Ahead, Behind, Rising, FitsWithin, Fits
<1> QED
  BY <1>2, <1>3, <1>4 DEF PipeInv

LEMMA StopKeeps ==
  ASSUME PipeInv,
         \/ StopCalled \/ Stop \/ StopTimeout \/ ParentCancelled \/ InputClosed
         \/ Consume \/ UNCHANGED pipeVars
  PROVE  PipeInv'
<1>1. UNCHANGED <<ppVars, asmOut, pfVars, held, prVars, emitted>> /\ (cancelled => cancelled')
  BY DEF StopCalled, Stop, StopTimeout, ParentCancelled, InputClosed, Consume, pipeVars, StopWaited,
     StopAssembler, CloseOutput, StopWaitedTooLong, CloseOutputTooEarly, Unmoved, sdVars, ppVars, pfVars,
     prVars, outVars
<1>2. PipeShape' /\ NoLossWhileRunning' /\ (~cancelled' => OrderOK')
  BY <1>1, UnmovedKeeps
<1>3. StageOK' /\ StopOK'
  BY <1>1 DEF PipeInv, StageOK, StopOK, ppVars, pfVars, prVars, StopCalled, Stop, StopTimeout,
     ParentCancelled, InputClosed, Consume, pipeVars, StopWaited, StopAssembler, CloseOutput,
     StopWaitedTooLong, CloseOutputTooEarly, Unmoved, sdVars
<1> QED
  BY <1>2, <1>3 DEF PipeInv

LEMMA FlushKeeps ==
  ASSUME PipeInv, processReorderedFrames
  PROVE  PipeInv'
<1>1. cancelled /\ cancelled' /\ UNCHANGED <<ppVars, asmOut, pfVars, sdVars>>
  BY DEF PipeInv, StageOK, processReorderedFrames, FlushReorderer, FlushSend, FlushTimeout,
     FlushCrash,
     FlushEnd, sdVars, ppVars, pfVars
<1>2. StageOK' /\ StopOK'
  BY <1>1
     DEF PipeInv, StageOK, StopOK, processReorderedFrames, FlushReorderer, FlushSend, FlushTimeout,
     FlushCrash, FlushEnd, sdVars, ppVars, pfVars
<1>3. PipeShape'
  <2>1. CASE FlushReorderer
    BY <1>1, <2>1, IDsEmpty
       DEF PipeInv, PipeShape, FlushReorderer, ppVars, pfVars, outVars, Ahead, Behind
  <2>2. CASE FlushSend
    BY <2>2, IDsTail, IDsAppend
       DEF PipeInv, PipeShape, FlushSend, ppVars, pfVars, outVars, Ahead, Behind
  <2>3. CASE FlushTimeout \/ FlushCrash \/ FlushEnd
    BY <2>3 DEF PipeInv, PipeShape, FlushTimeout, FlushCrash, FlushEnd, ppVars, pfVars, outVars,
       Ahead, Behind
  <2> QED
    BY <2>1, <2>2, <2>3 DEF processReorderedFrames
<1> QED
  BY <1>1, <1>2, <1>3 DEF PipeInv, NoLossWhileRunning

\* A completed frame goes into the assembler's channel, or is dropped.
LEMMA AssemblerKeeps ==
  ASSUME PipeInv, AssemblerSend \/ AssemblerDrop
  PROVE  PipeInv'
<1> DEFINE h == Head(ppSend)
<1>1. /\ ppSend # <<>> /\ ppSend' = Tail(ppSend)
      /\ asmOut' \in {asmOut, Append(asmOut, h)}
      /\ asmOut' = asmOut => lost' = lost \cup {h}
      /\ asmOut' = Append(asmOut, h) => lost' = lost
      /\ UNCHANGED <<packets, current, nextID, kind, pf, pfSend, held, pr, prSend, out, emitted,
                     inputClosed, cancelled, asmClosed, stop, impatient, outClosed, crashed>>
      /\ pp = "send"
      /\ (pp' = IF Len(ppSend) = 1 THEN "select" ELSE "send") \/ (asmClosed /\ pp' = "done")
  BY DEF PipeInv, StageOK, AssemblerSend, AssemblerDrop, pfVars, prVars, outVars, sdVars
<1>2. /\ ppSend \in Seq(Nat) /\ h \in Nat /\ Tail(ppSend) \in Seq(Nat) /\ Len(ppSend) \in Nat
      /\ IDs(ppSend) = {h} \cup IDs(ppSend')
      /\ Len(ppSend') = Len(ppSend) - 1
  BY <1>1, IDsTail DEF PipeInv, PipeShape
<1>3. asmOut \in Seq(Nat) /\ asmOut' \in Seq(Nat) /\ IDs(asmOut') \in {IDs(asmOut), IDs(asmOut) \cup {h}}
  <2>1. asmOut \in Seq(Nat)
    BY DEF PipeInv, PipeShape
  <2>2. Append(asmOut, h) \in Seq(Nat) /\ IDs(Append(asmOut, h)) = IDs(asmOut) \cup {h}
    BY <1>2, <2>1, IDsAppend
  <2> HIDE DEF h
  <2> QED
    BY <1>1, <2>1, <2>2
<1>4. PipeShape'
  BY <1>1, <1>2, <1>3 DEF PipeInv, PipeShape, Ahead, Behind
<1>5. StageOK' /\ StopOK'
  <2>1. pp' = "select" => ppSend' = <<>>
    BY <1>1, <1>2
  <2>2. pp' = "send" => ppSend' # <<>>
    <3>1. ASSUME pp' = "send" PROVE Len(ppSend') # 0
      BY <1>1, <1>2, <3>1
    <3> QED
      BY <3>1
  <2> QED
    BY <1>1, <2>1, <2>2 DEF PipeInv, StageOK, StopOK
<1>6. NoLossWhileRunning'
  <2>1. asmOut' = asmOut => h \in lost' /\ lost \subseteq lost'
    BY <1>1
  <2>2. asmOut' = Append(asmOut, h) => h \in IDs(asmOut') /\ IDs(asmOut) \subseteq IDs(asmOut')
    BY <1>2, IDsAppend DEF PipeInv, PipeShape
  <2>3. {h} \cup lost \cup IDs(asmOut) \subseteq lost' \cup IDs(asmOut')
    BY <1>1, <2>1, <2>2
  <2> QED
    BY <1>1, <1>2, <2>3 DEF PipeInv, NoLossWhileRunning
<1>7. ASSUME ~cancelled' PROVE OrderOK'
  <2>1. OrderOK
    BY <1>1, <1>7 DEF PipeInv
  <2>2. Rising(ppSend') /\ \A x \in IDs(ppSend') : h < x
    BY <1>1, <1>2, <2>1, RisingTail DEF OrderOK
  <2>3. Rising(asmOut')
    BY <1>1, <1>2, <1>3, <2>1, RisingAppend DEF OrderOK
  <2>4. UNCHANGED <<current, kind, Ahead, held, emitted, pfSend>> /\ Behind' \subseteq Behind
    BY <1>1, <1>2, <1>3 DEF Ahead, Behind
  <2>5. \A x \in IDs(asmOut'), y \in IDs(ppSend') : x < y
    BY <1>2, <1>3, <2>1, <2>2 DEF OrderOK
  <2>6. /\ \A x \in Ahead', y \in Behind' : x < y
        /\ current' # 0 => \A x \in (Ahead \cup Behind)' : x < current'
    BY <2>1, <2>4 DEF OrderOK
  <2>7. FitsWithin(emitted') /\ FitsWithin(pfSend)' /\ Rising(held)'
    BY <2>1, <2>4 DEF OrderOK, FitsWithin, Fits, Rising
  <2> QED
    BY <2>1, <2>2, <2>3, <2>4, <2>5, <2>6, <2>7 DEF OrderOK, FitsWithin, Fits, Rising
<1> QED
  BY <1>4, <1>5, <1>6, <1>7 DEF PipeInv

LEMMA PacketsEndKeeps ==
  ASSUME PipeInv, PacketsEnd
  PROVE  PipeInv'
<1>1. UNCHANGED <<current, nextID, kind, ppSend, lost, asmOut, pf, pfSend, held, pr, prSend, emitted,
                  cancelled, asmClosed, stop, impatient, outClosed, crashed>> /\ pp' = "done"
  BY DEF PacketsEnd, pfVars, prVars, outVars, sdVars
<1>2. StageOK' /\ StopOK'
  BY <1>1 DEF PipeInv, StageOK, StopOK
<1>3. PipeShape'
  BY <1>1 DEF PipeInv, PipeShape, Ahead, Behind
<1>4. NoLossWhileRunning'
  BY <1>1 DEF PipeInv, NoLossWhileRunning
<1>5. OrderOK => OrderOK'
  BY <1>1 DEF OrderOK, Ahead, Behind, Rising, FitsWithin, Fits
<1> QED
  BY <1>1, <1>2, <1>3, <1>4, <1>5 DEF PipeInv

LEMMA Joined ==
  ASSUME NEW a \in Nat, NEW b \in Nat
  PROVE  <<a>> \o <<b>> = <<a, b>>
<1>1. <<a>> \in Seq(Nat) /\ Len(<<a>>) = 1 /\ <<b>> \in Seq(Nat) /\ Len(<<b>>) = 1
  OBVIOUS
<1>2. Len(<<a>> \o <<b>>) = 2 /\ <<a>> \o <<b>> \in Seq(Nat)
  BY <1>1
<1>3. (<<a>> \o <<b>>)[1] = a /\ (<<a>> \o <<b>>)[2] = b
  BY <1>1
<1> DEFINE s == <<a>> \o <<b>>
<1> HIDE DEF s
<1>4. s \in Seq(Nat) /\ Len(s) = 2 /\ s[1] = a /\ s[2] = b
  BY <1>2, <1>3 DEF s
<1>5. s = <<a, b>>
  BY <1>4
<1> QED
  BY <1>5 DEF s

\* A packet that starts a frame completes the one before it.
LEMMA AddKeeps ==
  ASSUME PipeInv, pp = "select", ~asmClosed,
         NEW start \in BOOLEAN, NEW end \in BOOLEAN, NEW k \in Kinds, AddPacket(start, end, k),
         UNCHANGED <<asmOut, lost, pfVars, held, prVars, outVars, sdVars, crashed>>
  PROVE  PipeInv'
<1> DEFINE cur  == IF start THEN nextID ELSE current
           one  == IF start /\ current # 0 THEN <<current>> ELSE <<>>
           two  == IF end /\ cur # 0 THEN <<cur>> ELSE <<>>
<1>1. /\ current' = IF end THEN 0 ELSE cur
      /\ nextID' = IF start THEN nextID + 1 ELSE nextID
      /\ kind' = IF start THEN Append(kind, k) ELSE kind
      /\ ppSend' = one \o two
      /\ pp' = IF ppSend' = <<>> THEN "select" ELSE "send"
      /\ UNCHANGED <<lost, asmOut, pf, pfSend, held, pr, prSend, emitted,
                  cancelled, asmClosed, stop, impatient, outClosed, crashed>>
  BY DEF AddPacket, pfVars, prVars, outVars, sdVars
<1>2. /\ nextID \in Nat \ {0} /\ current \in 0..(nextID - 1) /\ kind \in Seq(Kind3)
      /\ Len(kind) = nextID - 1 /\ k \in Kind3 /\ ppSend = <<>> /\ IDs(ppSend) = {}
  BY IDsEmpty, PipelineAssumption DEF PipeInv, PipeShape, StageOK
<1>3. /\ ppSend' \in Seq(Nat) /\ Rising(ppSend')
      /\ \A x \in IDs(ppSend') : x # 0 /\ x \in {current, cur} /\ x < nextID'
      /\ current' # 0 => current' = cur /\ current' < nextID' /\ \A x \in IDs(ppSend') : x < current'
      /\ \A x \in {current, cur} \ {0} : x \in IDs(ppSend') \/ x = current'
  <2>1. \/ one = <<>> /\ ~(start /\ current # 0)
        \/ one = <<current>> /\ start /\ current # 0
    OBVIOUS
  <2>2. \/ two = <<>> /\ ~(end /\ cur # 0)
        \/ two = <<cur>> /\ end /\ cur # 0
    OBVIOUS
  <2>3. /\ cur \in Nat /\ current \in Nat /\ cur < nextID' /\ current < nextID'
        /\ start => cur = nextID /\ nextID' = nextID + 1 /\ current < cur
        /\ ~start => cur = current
    BY <1>1, <1>2
  <2> HIDE DEF one, two, cur
  <2>4. CASE one = <<>> /\ ~(start /\ current # 0) /\ two = <<>> /\ ~(end /\ cur # 0)
    <3>1. ppSend' = <<>>
      BY <1>1, <2>4
    <3>2. ppSend' \in Seq(Nat) /\ IDs(ppSend') = {} /\ Rising(ppSend')
      BY <3>1, IDsEmpty DEF Rising
    <3> QED
      BY <1>1, <2>3, <2>4, <3>2
  <2>5. CASE one = <<current>> /\ start /\ current # 0 /\ two = <<>> /\ ~(end /\ cur # 0)
    <3>1. ppSend' = <<current>>
      BY <1>1, <2>5
    <3>2. ppSend' \in Seq(Nat) /\ IDs(ppSend') = {current} /\ Rising(ppSend')
      BY <2>3, <3>1 DEF IDs, Rising
    <3> QED
      BY <1>1, <2>3, <2>5, <3>2
  <2>6. CASE one = <<>> /\ ~(start /\ current # 0) /\ two = <<cur>> /\ end /\ cur # 0
    <3>1. ppSend' = <<cur>>
      BY <1>1, <2>6
    <3>2. ppSend' \in Seq(Nat) /\ IDs(ppSend') = {cur} /\ Rising(ppSend')
      BY <2>3, <3>1 DEF IDs, Rising
    <3> QED
      BY <1>1, <2>3, <2>6, <3>2
  <2>7. CASE one = <<current>> /\ start /\ current # 0 /\ two = <<cur>> /\ end /\ cur # 0
    <3>0. <<current>> \o <<cur>> = <<current, cur>>
      BY <2>3, Joined
    <3>1. ppSend' = <<current, cur>>
      BY <1>1, <2>7, <3>0
    <3>2. ppSend' \in Seq(Nat) /\ IDs(ppSend') = {current, cur} /\ Rising(ppSend')
      BY <2>3, <2>7, <3>1 DEF IDs, Rising
    <3> QED
      BY <1>1, <2>3, <2>7, <3>2
  <2> QED
    BY <2>1, <2>2, <2>4, <2>5, <2>6, <2>7
<1> HIDE DEF one, two
<1>4. /\ nextID' \in Nat \ {0} /\ kind' \in Seq(Kind3) /\ Len(kind') = nextID' - 1 /\ nextID <= nextID'
      /\ current' \in 0..(nextID' - 1)
      /\ \A f \in 1..(nextID - 1) : kind'[f] = kind[f]
      /\ \A f \in 1..(nextID' - 1) : f \in 1..(nextID - 1) \/ f = cur
  BY <1>1, <1>2
<1>5. PipeShape'
  BY <1>1, <1>2, <1>3, <1>4 DEF PipeInv, PipeShape, Ahead, Behind
<1>6. StageOK' /\ StopOK'
  BY <1>1 DEF PipeInv, StageOK, StopOK
<1>7. NoLossWhileRunning'
  <2> SUFFICES ASSUME ~cancelled', NEW f \in 1..(nextID' - 1)
               PROVE  \/ f \in lost' \cup {current'} \/ kind'[f] = "empty"
                      \/ f \in IDs(ppSend') \cup IDs(asmOut') \cup IDs(pfSend') \cup IDs(held')
                               \cup IDs(emitted')
    BY DEF NoLossWhileRunning
  <2>1. CASE f \in {current, cur}
    BY <1>3, <2>1
  <2>2. CASE f \notin {current, cur}
    <3>1. f \in 1..(nextID - 1) /\ kind'[f] = kind[f]
      BY <1>4, <2>2
    <3> QED
      BY <1>1, <1>2, <2>2, <3>1 DEF PipeInv, NoLossWhileRunning
  <2> QED
    BY <2>1, <2>2
<1>8. ASSUME ~cancelled' PROVE OrderOK'
  <2>1. OrderOK
    BY <1>1, <1>8 DEF PipeInv
  <2>2. Ahead' = Ahead /\ Behind' = IDs(asmOut) \cup IDs(ppSend') /\ Behind = IDs(asmOut)
    BY <1>1, <1>2 DEF Ahead, Behind
  <2>3. \A x \in Ahead \cup Behind : x \in 1..(nextID - 1) /\ kind'[x] = kind[x]
    BY <1>4 DEF PipeInv, PipeShape
  <2>4. \A x \in Ahead \cup Behind, y \in {current, cur} : y # 0 => x < y
    BY <1>2, <2>1, <2>3 DEF OrderOK
  <2>5. /\ \A x \in Ahead', y \in Behind' : x < y
        /\ \A x \in IDs(asmOut'), y \in IDs(ppSend') : x < y
        /\ current' # 0 => \A x \in Ahead' \cup Behind' : x < current'
    BY <1>1, <1>3, <2>1, <2>2, <2>4 DEF OrderOK
  <2>6. \A x, y \in Ahead : Fits(x, y) => Fits(x, y)'
    BY <2>3 DEF Fits
  <2>7. IDs(emitted) \subseteq Ahead /\ IDs(pfSend) \subseteq Ahead /\ IDs(held) \subseteq Ahead
    BY DEF Ahead
  <2>8. FitsWithin(emitted)' /\ FitsWithin(pfSend)'
    <3>1. \A i \in DOMAIN emitted : emitted[i] \in Ahead
      BY <2>7 DEF IDs
    <3>2. \A i \in DOMAIN pfSend : pfSend[i] \in Ahead
      BY <2>7 DEF IDs
    <3> QED
      BY <1>1, <2>1, <2>6, <3>1, <3>2 DEF OrderOK, FitsWithin
  <2>9. Rising(held)' /\ Rising(asmOut)' /\ \A x \in IDs(held') : kind'[x] = "video"
    BY <1>1, <2>1, <2>3, <2>7 DEF OrderOK, Rising
  <2>10. /\ \A x \in IDs(emitted'), y \in IDs(pfSend') : Fits(x, y)'
         /\ \A x \in IDs(emitted') \cup IDs(pfSend'), y \in IDs(held') : Fits(x, y)'
    BY <1>1, <2>1, <2>6, <2>7 DEF OrderOK
  <2> QED
    BY <1>3, <2>5, <2>8, <2>9, <2>10 DEF OrderOK, Ahead, Behind, Fits
<1> QED
  BY <1>5, <1>6, <1>7, <1>8 DEF PipeInv

LEMMA ReadPacketKeeps ==
  ASSUME PipeInv, ReadPacket
  PROVE  PipeInv'
<1>1. CASE asmClosed
  <2>1. UNCHANGED <<current, nextID, kind, ppSend, lost, asmOut, pf, pfSend, held, pr, prSend, emitted,
                    cancelled, asmClosed, stop, impatient, outClosed, crashed, pp>> /\ cancelled
    BY <1>1 DEF ReadPacket, pfVars, prVars, outVars, sdVars, PipeInv, StageOK
  <2> QED
    BY <2>1 DEF PipeInv, PipeShape, StageOK, StopOK, NoLossWhileRunning, Ahead, Behind
<1>2. CASE ~asmClosed
  BY <1>2, AddKeeps DEF ReadPacket
<1> QED
  BY <1>1, <1>2

\* Metadata overtakes the frames held back; video frames come out oldest first.
LEMMA ReadFrameKeeps ==
  ASSUME PipeInv, ReadFrame
  PROVE  PipeInv'
<1> DEFINE h == Head(asmOut)
<1>1. /\ pf = "select" /\ pfSend = <<>> /\ IDs(pfSend) = {} /\ asmOut # <<>> /\ asmOut' = Tail(asmOut)
      /\ UNCHANGED <<current, nextID, kind, pp, ppSend, lost, pr, prSend, emitted,
                     cancelled, asmClosed, stop, impatient, outClosed, crashed>>
      /\ pf' = IF pfSend' = <<>> THEN "select" ELSE "send"
  BY IDsEmpty DEF PipeInv, StageOK, ReadFrame, ppVars, prVars, outVars, sdVars
<1>2. /\ asmOut \in Seq(Nat) /\ h \in Nat /\ asmOut' \in Seq(Nat) /\ IDs(asmOut) = {h} \cup IDs(asmOut')
      /\ held \in Seq(Nat) /\ h \in 1..(nextID - 1)
  BY <1>1, IDsTail DEF PipeInv, PipeShape, Behind
<1>3. /\ \/ kind[h] = "empty" /\ pfSend' = pfSend /\ held' = held
         \/ kind[h] = "meta" /\ pfSend' = <<h>> /\ held' = held
         \/ kind[h] = "video" /\ \E n \in 0..(Len(held) + 1) : Release(n)
  BY DEF ReadFrame
<1> HIDE DEF h
<1>4. ASSUME NEW n \in 0..(Len(held) + 1), Release(n)
      PROVE  /\ pfSend' \in Seq(Nat) /\ held' \in Seq(Nat)
             /\ IDs(pfSend') \cup IDs(held') = IDs(held) \cup {h}
             /\ Rising(held) /\ (\A x \in IDs(held) : x < h) =>
                  /\ Rising(held') /\ FitsWithin(pfSend')
                  /\ \A x \in IDs(pfSend'), y \in IDs(held') : x < y
  <2> DEFINE all == Append(held, h)
  <2>1. pfSend' = SubSeq(all, 1, n) /\ held' = SubSeq(all, n + 1, Len(all))
    BY <1>4 DEF Release, h
  <2>2. all \in Seq(Nat) /\ n \in 0..Len(all) /\ IDs(all) = IDs(held) \cup {h}
    BY <1>2, IDsAppend
  <2>3. Rising(held) /\ (\A x \in IDs(held) : x < h) => Rising(all)
    BY <1>2, RisingAppend
  <2> HIDE DEF all
  <2>4. pfSend' \in Seq(Nat) /\ held' \in Seq(Nat) /\ IDs(all) = IDs(pfSend') \cup IDs(held')
    BY <2>1, <2>2, IDsSplit
  <2>5. Rising(all) => /\ Rising(held') /\ FitsWithin(SubSeq(all, 1, n))
                       /\ \A x \in IDs(pfSend'), y \in IDs(held') : x < y
    BY <2>1, <2>2, RisingSplit
  <2> QED
    BY <2>1, <2>2, <2>3, <2>4, <2>5
<1>5. CASE kind[h] = "empty" /\ pfSend' = pfSend /\ held' = held
  <2>1. PipeShape'
    BY <1>1, <1>2, <1>5 DEF PipeInv, PipeShape, Ahead, Behind
  <2>2. StageOK' /\ StopOK'
    BY <1>1, <1>5 DEF PipeInv, StageOK, StopOK
  <2>3. NoLossWhileRunning'
    BY <1>1, <1>2, <1>5 DEF PipeInv, NoLossWhileRunning
  <2>4. ASSUME OrderOK PROVE OrderOK'
    <3>1. Rising(asmOut')
      BY <1>1, <1>2, <2>4, RisingTail DEF OrderOK
    <3>2. Ahead' = Ahead /\ Behind' \subseteq Behind /\ IDs(asmOut') \subseteq IDs(asmOut)
      BY <1>1, <1>2, <1>5 DEF Ahead, Behind
    <3>3. FitsWithin(emitted)' /\ FitsWithin(pfSend)' /\ Rising(held)' /\ Rising(ppSend)'
      BY <1>1, <1>5, <2>4 DEF OrderOK, FitsWithin, Fits, Rising
    <3> QED
      BY <1>1, <1>5, <2>4, <3>1, <3>2, <3>3 DEF OrderOK, Fits
  <2> QED
    BY <1>1, <2>1, <2>2, <2>3, <2>4 DEF PipeInv
<1>6. CASE kind[h] = "meta" /\ pfSend' = <<h>> /\ held' = held
  <2>0. pfSend' \in Seq(Nat) /\ IDs(pfSend') = {h} /\ pfSend' # <<>>
    BY <1>2, <1>6 DEF IDs
  <2>1. PipeShape'
    BY <1>1, <1>2, <1>6, <2>0 DEF PipeInv, PipeShape, Ahead, Behind
  <2>2. StageOK' /\ StopOK'
    BY <1>1, <2>0 DEF PipeInv, StageOK, StopOK
  <2>3. NoLossWhileRunning'
    BY <1>1, <1>2, <1>6, <2>0 DEF PipeInv, NoLossWhileRunning
  <2>4. ASSUME OrderOK PROVE OrderOK'
    <3>1. Rising(asmOut') /\ \A x \in IDs(asmOut') : h < x
      BY <1>1, <1>2, <2>4, RisingTail DEF OrderOK, h
    <3>2. Ahead' = Ahead \cup {h} /\ Behind = Behind' \cup {h}
      BY <1>1, <1>2, <1>6, <2>0 DEF Ahead, Behind
    <3>3. FitsWithin(emitted)' /\ Rising(held)' /\ Rising(ppSend)'
      BY <1>1, <1>6, <2>4 DEF OrderOK, FitsWithin, Fits, Rising
    <3>4. FitsWithin(pfSend)'
      BY <1>6 DEF FitsWithin
    <3>5. \A x \in Ahead : x < h /\ x \in Nat
      BY <2>4, <3>2 DEF OrderOK, PipeInv, PipeShape
    <3>6. \A x \in IDs(emitted') \cup IDs(held') : x \in Ahead
      BY <1>1, <1>6 DEF Ahead
    <3>7. \A x \in IDs(emitted'), y \in IDs(pfSend') : Fits(x, y)'
      BY <1>2, <2>0, <3>5, <3>6 DEF Fits
    <3>8. \A x \in IDs(emitted') \cup IDs(pfSend'), y \in IDs(held') : Fits(x, y)'
      BY <1>1, <1>6, <2>0, <2>4 DEF OrderOK, Fits
    <3>9. \A y \in Behind' : h < y
      BY <1>1, <1>2, <2>4, <3>1 DEF Behind, OrderOK
    <3>10. \A x \in Ahead', y \in Behind' : x < y
      BY <2>4, <3>2, <3>9 DEF OrderOK
    <3>11. \A x \in IDs(asmOut'), y \in IDs(ppSend') : x < y
      BY <1>1, <1>2, <2>4 DEF OrderOK
    <3>12. /\ \A x \in IDs(held') : kind'[x] = "video"
           /\ current' # 0 => \A x \in Ahead' \cup Behind' : x < current'
      BY <1>1, <1>6, <2>4, <3>2 DEF OrderOK
    <3> QED
      BY <3>1, <3>3, <3>4, <3>7, <3>8, <3>10, <3>11, <3>12 DEF OrderOK, Ahead, Behind, Fits
  <2> QED
    BY <1>1, <2>1, <2>2, <2>3, <2>4 DEF PipeInv
<1>7. ASSUME kind[h] = "video", NEW n \in 0..(Len(held) + 1), Release(n) PROVE PipeInv'
  <2>0. /\ pfSend' \in Seq(Nat) /\ held' \in Seq(Nat)
        /\ IDs(pfSend') \cup IDs(held') = IDs(held) \cup {h}
    BY <1>4, <1>7
  <2>1. PipeShape'
    BY <1>1, <1>2, <2>0 DEF PipeInv, PipeShape, Ahead, Behind
  <2>2. StageOK' /\ StopOK'
    BY <1>1 DEF PipeInv, StageOK, StopOK
  <2>3. NoLossWhileRunning'
    BY <1>1, <1>2, <2>0 DEF PipeInv, NoLossWhileRunning
  <2>4. ASSUME OrderOK PROVE OrderOK'
    <3>1. Rising(asmOut') /\ \A x \in IDs(asmOut') : h < x
      BY <1>1, <1>2, <2>4, RisingTail DEF OrderOK, h
    <3>2. Ahead' = Ahead \cup {h} /\ Behind = Behind' \cup {h}
      BY <1>1, <1>2, <2>0 DEF Ahead, Behind
    <3>3. \A x \in Ahead : x < h /\ x \in Nat
      BY <2>4, <3>2 DEF OrderOK, PipeInv, PipeShape
    <3>4. /\ Rising(held') /\ FitsWithin(pfSend')
          /\ \A x \in IDs(pfSend'), y \in IDs(held') : x < y /\ x \in Nat /\ y \in Nat
      <4>1. Rising(held) /\ \A x \in IDs(held) : x < h
        BY <2>4, <3>3 DEF OrderOK, Ahead
      <4>2. /\ Rising(held') /\ FitsWithin(pfSend')
            /\ \A x \in IDs(pfSend'), y \in IDs(held') : x < y
        BY <1>4, <1>7, <4>1
      <4>3. \A x \in IDs(pfSend') \cup IDs(held') : x \in Nat
        BY <1>2, <2>0, <3>3 DEF Ahead
      <4> QED
        BY <4>2, <4>3
    <3>5. FitsWithin(emitted)' /\ FitsWithin(pfSend)' /\ Rising(ppSend)'
      BY <1>1, <2>4, <3>4 DEF OrderOK, FitsWithin, Fits, Rising
    <3>6. \A x \in IDs(emitted), y \in IDs(held) \cup {h} : Fits(x, y)'
      BY <1>1, <1>2, <2>4, <3>3 DEF OrderOK, Fits, Ahead
    <3>7. /\ \A x \in IDs(emitted'), y \in IDs(pfSend') : Fits(x, y)'
          /\ \A x \in IDs(emitted') \cup IDs(pfSend'), y \in IDs(held') : Fits(x, y)'
      BY <1>1, <2>0, <3>4, <3>6 DEF Fits
    <3>8. \A y \in Behind' : h < y
      BY <1>1, <1>2, <2>4, <3>1 DEF Behind, OrderOK
    <3>9. \A x \in Ahead', y \in Behind' : x < y
      BY <2>4, <3>2, <3>8 DEF OrderOK
    <3>10. \A x \in IDs(asmOut'), y \in IDs(ppSend') : x < y
      BY <1>1, <1>2, <2>4 DEF OrderOK
    <3>11. /\ \A x \in IDs(held') : kind'[x] = "video"
           /\ current' # 0 => \A x \in Ahead' \cup Behind' : x < current'
      BY <1>1, <1>7, <2>0, <2>4, <3>2 DEF OrderOK
    <3> QED
      BY <3>1, <3>4, <3>5, <3>7, <3>9, <3>10, <3>11 DEF OrderOK, Ahead, Behind, Fits
  <2> QED
    BY <1>1, <2>1, <2>2, <2>3, <2>4 DEF PipeInv
<1> QED
  BY <1>3, <1>5, <1>6, <1>7

\* What is emitted is the oldest of what processFrames has in hand.
LEMMA FrameSendKeeps ==
  ASSUME PipeInv, FrameSend
  PROVE  PipeInv'
<1> DEFINE h == Head(pfSend)
<1>1. /\ pf = "send" /\ pfSend # <<>> /\ pfSend' = Tail(pfSend) /\ emitted' = Append(emitted, h)
      /\ UNCHANGED <<current, nextID, kind, pp, ppSend, lost, asmOut, held, pr, prSend,
                     cancelled, asmClosed, stop, impatient, outClosed, crashed>>
      /\ pf' = IF Len(pfSend) = 1 THEN "select" ELSE "send"
  BY DEF PipeInv, StageOK, FrameSend, ppVars, prVars, sdVars
<1>2. /\ pfSend \in Seq(Nat) /\ h \in Nat /\ pfSend' \in Seq(Nat) /\ IDs(pfSend) = {h} \cup IDs(pfSend')
      /\ Len(pfSend') = Len(pfSend) - 1 /\ Len(pfSend) \in Nat /\ emitted \in Seq(Nat)
  BY <1>1, IDsTail DEF PipeInv, PipeShape
<1>3. emitted' \in Seq(Nat) /\ IDs(emitted') = IDs(emitted) \cup {h}
  BY <1>1, <1>2, IDsAppend
<1> HIDE DEF h
<1>4. PipeShape'
  BY <1>1, <1>2, <1>3 DEF PipeInv, PipeShape, Ahead, Behind
<1>5. StageOK' /\ StopOK'
  <2>1. pf' = "select" => pfSend' = <<>>
    <3>1. ASSUME pf' = "select" PROVE Len(pfSend') = 0
      BY <1>1, <1>2, <3>1
    <3> QED
      BY <1>2, <3>1
  <2>2. ASSUME pf' = "send" PROVE Len(pfSend') # 0
    BY <1>1, <1>2, <2>2
  <2>3. pf' = "send" => pfSend' # <<>>
    BY <2>2
  <2> QED
    BY <1>1, <2>1, <2>3 DEF PipeInv, StageOK, StopOK
<1>6. NoLossWhileRunning'
  BY <1>1, <1>2, <1>3 DEF PipeInv, NoLossWhileRunning
<1>7. ASSUME OrderOK PROVE OrderOK'
  <2>1. Ahead' = Ahead /\ Behind' = Behind
    BY <1>1, <1>2, <1>3 DEF Ahead, Behind
  <2>2. FitsWithin(pfSend') /\ \A x \in IDs(pfSend') : Fits(h, x)
    BY <1>1, <1>2, <1>7, FitsTail DEF OrderOK, h
  <2>3. FitsWithin(emitted')
    BY <1>1, <1>2, <1>7, FitsAppend DEF OrderOK
  <2>4. FitsWithin(emitted)' /\ FitsWithin(pfSend)' /\ Rising(held)' /\ Rising(asmOut)' /\ Rising(ppSend)'
    BY <1>1, <1>7, <2>2, <2>3 DEF OrderOK, FitsWithin, Fits, Rising
  <2>5. /\ \A x \in IDs(emitted'), y \in IDs(pfSend') : Fits(x, y)
        /\ \A x \in IDs(emitted') \cup IDs(pfSend'), y \in IDs(held') : Fits(x, y)
    BY <1>1, <1>2, <1>3, <1>7, <2>2 DEF OrderOK
  <2> QED
    BY <1>1, <1>7, <2>1, <2>4, <2>5 DEF OrderOK, Fits
<1> QED
  BY <1>1, <1>4, <1>5, <1>6, <1>7 DEF PipeInv

LEMMA FramesEndKeeps ==
  ASSUME PipeInv, FramesEnd
  PROVE  PipeInv'
<1>1. UNCHANGED <<current, nextID, kind, pp, ppSend, lost, asmOut, pfSend, held, pr, prSend, emitted,
                  cancelled, asmClosed, stop, impatient, outClosed, crashed>> /\ pf' = "done" /\ cancelled
  BY DEF FramesEnd, ppVars, prVars, outVars, sdVars, PipeInv, StageOK
<1>2. StageOK' /\ StopOK'
  BY <1>1 DEF PipeInv, StageOK, StopOK
<1>3. PipeShape'
  BY <1>1 DEF PipeInv, PipeShape, Ahead, Behind
<1> QED
  BY <1>1, <1>2, <1>3 DEF PipeInv, NoLossWhileRunning

LEMMA PipeStep == PipeInv /\ [PipeNext]_pipeVars => PipeInv'
BY AssemblerKeeps, PacketsEndKeeps, ReadPacketKeeps, ReadFrameKeeps, FrameSendKeeps, FramesEndKeeps,
   FlushKeeps, StopKeeps DEF PipeNext, processPackets, processFrames

\* From the packets to the output, for every depth of the reorderer, capacity of
\* the channels and moment of the shutdown, no frame is lost or overtaken until
\* the shutdown, and nothing runs after it (pipeline/video_pipeline.go).
THEOREM FramesAlwaysFlow == PipeSpec => []FramesFlow
<1>1. PipeInv => FramesFlow
  <2> SUFFICES ASSUME PipeInv PROVE FramesFlow
    OBVIOUS
  <2>1. ParametersFirst
    BY DEF PipeInv, OrderOK, FitsWithin, Fits, ParametersFirst
  <2>2. NothingRunsAfterClose
    BY DEF PipeInv, StopOK, NothingRunsAfterClose
  <2> QED
    BY <2>1, <2>2 DEF PipeInv, FramesFlow
<1> QED
  BY <1>1, PipeInitially, PipeStep, PTL DEF PipeSpec
=============================================================================
