---------------------------- MODULE VideoPipeline ----------------------------
(***************************************************************************)
(* pipeline/video_pipeline.go with the frame assembler (frame/assembler.go)*)
(* it drives: three goroutines, processPackets, processFrames and          *)
(* processReorderedFrames, joined by two bounded channels, and Stop, which *)
(* cancels them, waits, and closes the channels.                           *)
(*                                                                         *)
(* A frame is its ID; kind tells whether it is a video frame, a metadata   *)
(* frame (SPS, PPS, SEI: these bypass the reorderer) or one without any    *)
(* NAL unit.  The reorderer is used at the level TimelineProofs            *)
(* establishes for a conforming stream: it hands frames on in the order    *)
(* they came and keeps fewer than Depth of them.  A timer may fire         *)
(* whenever what it guards has not happened yet.                           *)
(***************************************************************************)
EXTENDS Integers, Sequences

CONSTANTS
    MaxPackets,       \* bound: packets the connection delivers
    Kinds,            \* the kinds of frame that occur
    AssemblerCap,     \* capacity of the assembler's output channel
    OutputCap,        \* capacity of the pipeline's output channel
    Depth             \* MaxBFrameReorderDepth

ASSUME PipelineAssumption ==
    /\ {MaxPackets, AssemblerCap, OutputCap, Depth} \subseteq Nat
    /\ AssemblerCap > 0 /\ OutputCap > 0 /\ Depth > 0
    /\ Kinds \subseteq {"video", "meta", "empty"}

VARIABLES
    packets,          \* packets not yet read from the input channel
    inputClosed,      \* the connection has closed the input channel
    cancelled,        \* p.ctx
    current,          \* a.currentFrame: its ID, or 0
    nextID,           \* a.nextFrameID
    kind,             \* the kind of each completed frame
    asmOut,           \* a.output
    asmClosed,        \* a.output is closed and a.ctx cancelled
    pp, ppSend,       \* processPackets: its place, and the frames it completes
    pf, pfSend,       \* processFrames: its place, and the frames it emits
    held,             \* the frames in the reorderer
    pr, prSend,       \* processReorderedFrames
    stop,             \* Stop: how far it is
    impatient,        \* Stop's 5 s or 2 s ran out before the goroutines ended
    out, outClosed,   \* p.output
    emitted,          \* ghost: all frames ever sent to p.output
    lost,             \* ghost: frames the assembler could not hand over
    crashed           \* a send on a closed channel outside a recover

pipeVars == <<packets, inputClosed, cancelled, current, nextID, kind, asmOut, asmClosed,
          pp, ppSend, pf, pfSend, held, pr, prSend, stop, impatient, out, outClosed,
          emitted, lost, crashed>>

ppVars  == <<packets, current, nextID, kind, pp, ppSend, lost>>
pfVars  == <<pf, pfSend>>
prVars  == <<pr, prSend>>
outVars == <<out, emitted>>
sdVars  == <<inputClosed, cancelled, asmClosed, stop, impatient, outClosed>>

PipeInit ==
    /\ packets = MaxPackets /\ inputClosed = FALSE /\ cancelled = FALSE
    /\ current = 0 /\ nextID = 1 /\ kind = <<>>
    /\ asmOut = <<>> /\ asmClosed = FALSE
    /\ pp = "select" /\ ppSend = <<>>
    /\ pf = "select" /\ pfSend = <<>>
    /\ held = <<>>
    /\ pr = "wait" /\ prSend = <<>>
    /\ stop = "running" /\ impatient = FALSE
    /\ out = <<>> /\ outClosed = FALSE
    /\ emitted = <<>> /\ lost = {} /\ crashed = FALSE

-----------------------------------------------------------------------------
(* processPackets and Assembler.AddPacket *)

\* A packet that starts a frame completes the one before it; a packet that ends
\* one (or comes after the frame timeout) completes the current one; a packet
\* outside any frame is dropped.
AddPacket(start, end, k) ==
    LET cur  == IF start THEN nextID ELSE current
        done == (IF start /\ current # 0 THEN <<current>> ELSE <<>>)
                \o (IF end /\ cur # 0 THEN <<cur>> ELSE <<>>)
    IN  /\ current' = IF end THEN 0 ELSE cur
        /\ nextID' = IF start THEN nextID + 1 ELSE nextID
        /\ kind' = IF start THEN Append(kind, k) ELSE kind
        /\ ppSend' = done
        /\ pp' = IF done = <<>> THEN "select" ELSE "send"

ReadPacket ==
    /\ pp = "select" /\ packets > 0
    /\ packets' = packets - 1
    /\ IF asmClosed THEN UNCHANGED <<current, nextID, kind, pp, ppSend>>
       ELSE \E start \in BOOLEAN, end \in BOOLEAN, k \in Kinds : AddPacket(start, end, k)
    /\ UNCHANGED <<asmOut, lost, pfVars, held, prVars, outVars, sdVars, crashed>>

\* sendFrameToOutput: the frame is handed over, ...
AssemblerSend ==
    /\ pp = "send" /\ ~ asmClosed
    /\ Len(asmOut) < AssemblerCap
    /\ asmOut' = Append(asmOut, Head(ppSend))
    /\ ppSend' = Tail(ppSend)
    /\ pp' = IF Len(ppSend) = 1 THEN "select" ELSE "send"
    /\ UNCHANGED <<packets, current, nextID, kind, lost, pfVars, held, prVars,
                   outVars, sdVars, crashed>>

\* ... or dropped: the channel stayed full until the timer fired, or the
\* assembler was stopped (a send on its closed channel is recovered from and
\* ends the goroutine).
AssemblerDrop ==
    /\ pp = "send"
    /\ asmClosed \/ Len(asmOut) = AssemblerCap
    /\ lost' = lost \cup {Head(ppSend)}
    /\ ppSend' = Tail(ppSend)
    /\ \/ pp' = IF Len(ppSend) = 1 THEN "select" ELSE "send"
       \/ asmClosed /\ pp' = "done"
    /\ UNCHANGED <<packets, current, nextID, kind, asmOut, pfVars, held, prVars,
                   outVars, sdVars, crashed>>

PacketsEnd ==
    /\ pp = "select"
    /\ cancelled \/ (inputClosed /\ packets = 0)
    /\ pp' = "done"
    /\ UNCHANGED <<packets, current, nextID, kind, ppSend, lost, asmOut, pfVars, held,
                   prVars, outVars, sdVars, crashed>>

-----------------------------------------------------------------------------
(* processFrames *)

\* Mutant of Release: the newest frames come out first.
ReleaseNewest(n) ==
    /\ Len(held) + 1 - n < Depth
    /\ LET all == Append(held, Head(asmOut)) IN
         /\ pfSend' = SubSeq(all, Len(all) - n + 1, Len(all))
         /\ held' = SubSeq(all, 1, Len(all) - n)

\* AddFrame of the reorderer: the first n of the frames it has are released.
Release(n) ==
    /\ Len(held) + 1 - n < Depth
    /\ LET all == Append(held, Head(asmOut)) IN
         /\ pfSend' = SubSeq(all, 1, n)
         /\ held' = SubSeq(all, n + 1, Len(all))

\* A frame without NAL units is skipped, a metadata frame goes straight to the
\* output, a video frame goes through the reorderer.
ReadFrame ==
    /\ pf = "select" /\ asmOut # <<>>
    /\ asmOut' = Tail(asmOut)
    /\ \/ kind[Head(asmOut)] = "empty" /\ UNCHANGED <<pfSend, held>>
       \/ kind[Head(asmOut)] = "meta" /\ pfSend' = <<Head(asmOut)>> /\ UNCHANGED held
       \/ kind[Head(asmOut)] = "video" /\ \E n \in 0 .. Len(held) + 1 : Release(n)
    /\ pf' = IF pfSend' = <<>> THEN "select" ELSE "send"
    /\ UNCHANGED <<ppVars, prVars, outVars, sdVars, crashed>>

FrameSend ==
    /\ pf = "send"
    /\ ~ outClosed /\ Len(out) < OutputCap
    /\ out' = Append(out, Head(pfSend))
    /\ emitted' = Append(emitted, Head(pfSend))
    /\ pfSend' = Tail(pfSend)
    /\ pf' = IF Len(pfSend) = 1 THEN "select" ELSE "send"
    /\ UNCHANGED <<ppVars, asmOut, held, prVars, sdVars, crashed>>

\* The context is done, the assembler's channel is closed and empty, or the
\* output is closed under the goroutine (the panic is recovered from).
FramesEnd ==
    /\ pf # "done"
    /\ \/ cancelled
       \/ pf = "select" /\ asmClosed /\ asmOut = <<>>
       \/ pf = "send" /\ outClosed
    /\ pf' = "done"
    /\ UNCHANGED <<pfSend, ppVars, asmOut, held, prVars, outVars, sdVars, crashed>>

-----------------------------------------------------------------------------
(* processReorderedFrames *)

FlushReorderer ==
    /\ pr = "wait" /\ cancelled
    /\ prSend' = held
    /\ held' = <<>>
    /\ pr' = "flush"
    /\ UNCHANGED <<ppVars, asmOut, pfVars, outVars, sdVars, crashed>>

FlushSend ==
    /\ pr = "flush" /\ prSend # <<>>
    /\ ~ outClosed /\ Len(out) < OutputCap
    /\ out' = Append(out, Head(prSend))
    /\ emitted' = Append(emitted, Head(prSend))
    /\ prSend' = Tail(prSend)
    /\ UNCHANGED <<pr, ppVars, asmOut, pfVars, held, sdVars, crashed>>

\* Mutant of FlushTimeout: the flush waits for its consumer.
FlushTimeoutNever == FALSE /\ UNCHANGED pipeVars

FlushTimeout ==
    /\ pr = "flush" /\ prSend # <<>>
    /\ ~ outClosed /\ Len(out) = OutputCap
    /\ pr' = "done"
    /\ UNCHANGED <<prSend, ppVars, asmOut, pfVars, held, outVars, sdVars, crashed>>

\* There is no recover in this goroutine.
FlushCrash ==
    /\ pr = "flush" /\ prSend # <<>> /\ outClosed
    /\ pr' = "done" /\ crashed' = TRUE
    /\ UNCHANGED <<prSend, ppVars, asmOut, pfVars, held, outVars, sdVars>>

FlushEnd ==
    /\ pr = "flush" /\ prSend = <<>>
    /\ pr' = "done"
    /\ UNCHANGED <<prSend, ppVars, asmOut, pfVars, held, outVars, sdVars, crashed>>

-----------------------------------------------------------------------------
(* Stop, the connection, the consumer *)

Unmoved == UNCHANGED <<ppVars, asmOut, pfVars, held, prVars, outVars, crashed>>

StopCalled ==
    /\ stop = "running"
    /\ stop' = "waiting" /\ cancelled' = TRUE
    /\ UNCHANGED <<inputClosed, asmClosed, impatient, outClosed>> /\ Unmoved

StopWaited ==
    /\ stop = "waiting"
    /\ pp = "done" /\ pf = "done" /\ pr = "done"
    /\ stop' = "assembler"
    /\ UNCHANGED <<inputClosed, cancelled, asmClosed, impatient, outClosed>> /\ Unmoved

\* The 5 s of the wait for the goroutines run out.
StopWaitedTooLong ==
    /\ stop = "waiting"
    /\ stop' = "assembler" /\ impatient' = TRUE
    /\ UNCHANGED <<inputClosed, cancelled, asmClosed, outClosed>> /\ Unmoved

StopAssembler ==
    /\ stop = "assembler"
    /\ stop' = "flushing" /\ asmClosed' = TRUE
    /\ UNCHANGED <<inputClosed, cancelled, impatient, outClosed>> /\ Unmoved

CloseOutput ==
    /\ stop = "flushing" /\ pr = "done"
    /\ stop' = "done" /\ outClosed' = TRUE
    /\ UNCHANGED <<inputClosed, cancelled, asmClosed, impatient>> /\ Unmoved

\* The 2 s of the wait for reordererDone run out.
CloseOutputTooEarly ==
    /\ stop = "flushing" /\ pr # "done"
    /\ stop' = "done" /\ outClosed' = TRUE /\ impatient' = TRUE
    /\ UNCHANGED <<inputClosed, cancelled, asmClosed>> /\ Unmoved

\* The parent context of NewVideoPipeline is cancelled by the stream handler.
ParentCancelled ==
    /\ ~ cancelled
    /\ cancelled' = TRUE
    /\ UNCHANGED <<inputClosed, asmClosed, stop, impatient, outClosed>> /\ Unmoved

InputClosed ==
    /\ ~ inputClosed
    /\ inputClosed' = TRUE
    /\ UNCHANGED <<cancelled, asmClosed, stop, impatient, outClosed>> /\ Unmoved

Consume ==
    /\ out # <<>>
    /\ out' = Tail(out)
    /\ UNCHANGED <<ppVars, asmOut, pfVars, held, prVars, emitted, sdVars, crashed>>

processPackets == ReadPacket \/ AssemblerSend \/ AssemblerDrop \/ PacketsEnd
processFrames == ReadFrame \/ FrameSend \/ FramesEnd
processReorderedFrames ==
    FlushReorderer \/ FlushSend \/ FlushTimeout \/ FlushCrash \/ FlushEnd
Stop == StopWaited \/ StopAssembler \/ CloseOutput
StopTimeout == StopWaitedTooLong \/ CloseOutputTooEarly

PipeNext ==
    \/ processPackets \/ processFrames \/ processReorderedFrames
    \/ StopCalled \/ Stop \/ StopTimeout
    \/ ParentCancelled \/ InputClosed \/ Consume

\* Goroutines run, and so do the timers of the assembler and of the flush; the
\* packets, the consumer and the caller of Stop promise nothing, and Stop's own
\* timeouts are not relied on.
Fairness ==
    /\ WF_pipeVars(AssemblerSend \/ AssemblerDrop \/ PacketsEnd)
    /\ WF_pipeVars(processFrames) /\ WF_pipeVars(processReorderedFrames) /\ WF_pipeVars(Stop)

PipeSpec == PipeInit /\ [][PipeNext]_pipeVars
PipeFairSpec == PipeSpec /\ Fairness

-----------------------------------------------------------------------------
(* Properties *)

IDs(s) == {s[i] : i \in DOMAIN s}

\* Until the pipeline is shut down no frame gets lost in it: a completed frame
\* that the assembler did not have to drop is on its way or has been emitted.
NoLossWhileRunning ==
    ~ cancelled =>
        \A f \in 1 .. nextID - 1 :
            \/ f \in lost \cup {current} \/ kind[f] = "empty"
            \/ f \in IDs(ppSend) \cup IDs(asmOut) \cup IDs(pfSend) \cup IDs(held)
                     \cup IDs(emitted)

\* Until the pipeline is shut down video frames leave it in decode order, and a
\* parameter set leaves it before every frame that came after it.
ParametersFirst ==
    ~ cancelled =>
        \A i, j \in DOMAIN emitted :
            (i < j /\ emitted[j] < emitted[i]) =>
                kind[emitted[i]] = "meta" /\ kind[emitted[j]] = "video"

\* Once the output is closed nothing of the pipeline runs any more, unless Stop
\* has lost patience.  So there is no send on the closed output, which would
\* bring the whole server down: Stop waits for the goroutine that has no
\* recover, and that one waits at most 100 ms for its consumer.
NothingRunsAfterClose ==
    /\ (outClosed /\ ~ impatient) => pp = "done" /\ pf = "done" /\ pr = "done"
    /\ crashed => impatient

\* A shutdown ends, whatever the consumer of the output does: Stop returns,
\* without its own timeouts, and every goroutine ends once the context is done,
\* even when Stop has lost patience and closed the channels under them.
ShutdownEnds ==
    cancelled ~> /\ pp = "done" /\ pf = "done" /\ pr = "done"
                 /\ stop \in {"running", "done"}

\* From the packets to the output no frame is lost or overtaken, until a
\* shutdown, which leaves nothing running behind it (video_pipeline.go).
FramesFlow == NoLossWhileRunning /\ ParametersFirst /\ NothingRunsAfterClose
=============================================================================
