--------------------------- MODULE BFrameReorderer ---------------------------
(***************************************************************************)
(* frame/bframe_reorderer.go: frames wait in a heap ordered by DTS until   *)
(* one of five conditions lets the lowest one out; isValidOutput then      *)
(* accepts it, takes it for a wrap or a stream reset, or drops it.         *)
(* AddFrame and Flush hold the mutex from beginning to end, so their loops *)
(* are written as steps that nothing else can come between (pc).           *)
(*                                                                         *)
(* The environment is an encoder that obeys the rules of its standard:     *)
(* frames arrive in decode order, a frame is never shown before it is      *)
(* decoded, frames other than B-frames are shown in the order they are     *)
(* decoded, and a B-frame is shown before the reference frame decoded last.*)
(***************************************************************************)
EXTENDS Integers, FiniteSets

CONSTANTS
    Depth,            \* maxReorderDepth
    Start,            \* the DTS before the first frame
    MaxTime,          \* bound: the last DTS the encoder reaches
    Steps,            \* the gaps between the DTS of consecutive frames
    MaxPresent,       \* bound: the longest time between decoding and showing
    PTSWrap,             \* 2^33
    ResetJump,        \* maxReasonableJump, 10 seconds
    DurationCap       \* 10000, the longest gap taken for a frame duration

ASSUME DepthAssumption == Depth \in Nat /\ Depth > 0
ASSUME TimeAssumption ==
    /\ Start \in Int /\ Start >= -1 /\ MaxTime \in Int /\ MaxPresent \in Nat
    /\ Steps \in SUBSET (Nat \ {0})
ASSUME JumpAssumption == {PTSWrap, ResetJump, DurationCap} \subseteq Nat

Types == {"IDR", "I", "P", "B"}

VARIABLES
    time,             \* the DTS of the frame that arrived last, unwrapped
    refPTS,           \* the PTS of the last frame that is not a B-frame
    arrived,          \* how many frames have arrived
    buffer,           \* the heap
    lastOutputPTS,
    lastOutputDTS,
    pc,               \* "idle", or inside AddFrame ("check") or Flush ("flush")
    last,             \* ghost: the frame emitted last (n = 0: none)
    dropped           \* ghost: the frames isValidOutput has refused

reorderVars == <<time, refPTS, arrived, buffer, lastOutputPTS, lastOutputDTS, pc, last, dropped>>

Frames == [n : Nat, type : Types, pts : Int, dts : Int]
NoFrame == [n |-> 0, type |-> "B", pts |-> -1, dts |-> -1]

\* The 33-bit value on the wire; one wrap is explored.
Stamp(t) == IF t < PTSWrap THEN t ELSE t - PTSWrap

ReorderInit ==
    /\ time = Start
    /\ refPTS = -1
    /\ arrived = 0
    /\ buffer = {}
    /\ lastOutputPTS = -1
    /\ lastOutputDTS = -1
    /\ pc = "idle"
    /\ last = NoFrame
    /\ dropped = {}

-----------------------------------------------------------------------------
\* Mutant of IsNext: the heap is ordered by PTS.
IsNextByPTS(f) == f \in buffer /\ \A g \in buffer : f.pts <= g.pts

\* The heap's next frame: one with the lowest DTS.
IsNext(f) == f \in buffer /\ \A g \in buffer : f.dts <= g.dts

\* The frame after it, of which there may be several with the same DTS.
IsSecond(f, g) == g \in buffer \ {f} /\ \A h \in buffer \ {f} : g.dts <= h.dts

\* estimateFrameDuration returns the gap itself when it is plausible, and the
\* caller asks for a gap of more than two durations: only an implausible gap
\* passes.
GapLetsOut(f, g) == g.type \in {"I", "P"} /\ g.dts - f.dts > DurationCap

\* checkOutput: conditions 1 to 5; aged is condition 2, the frame has waited
\* longer than maxDelay.
ShouldOutput(f, aged) ==
    \/ aged
    \/ Cardinality(buffer) >= Depth
    \/ f.type = "IDR"
    \/ f.type = "I" /\ Cardinality(buffer) > 1
    \/ /\ f.type = "P" /\ Cardinality(buffer) > 1
       /\ \/ \E g \in buffer : IsSecond(f, g) /\ GapLetsOut(f, g)
          \/ Cardinality(buffer) >= (Depth + 1) \div 2

-----------------------------------------------------------------------------
\* What isValidOutput makes of a step back by d.
Jump(d) == CASE d > PTSWrap \div 2 -> "wrap"
             [] d <= PTSWrap \div 2 /\ d > ResetJump -> "reset"
             [] OTHER -> "drop"

isValidOutput(f) ==
    CASE lastOutputPTS < 0 -> "ok"
      [] lastOutputPTS >= 0 /\ f.dts < lastOutputDTS -> Jump(lastOutputDTS - f.dts)
      [] /\ lastOutputPTS >= 0 /\ f.dts >= lastOutputDTS
         /\ f.type # "B" /\ f.pts < lastOutputPTS -> Jump(lastOutputPTS - f.pts)
      [] OTHER -> "ok"

\* updateOutputState, after the reset of a stream reset.
updateOutputState(f, verdict) ==
    /\ lastOutputDTS' = f.dts
    /\ lastOutputPTS' = IF f.type # "B" THEN f.pts
                        ELSE IF verdict = "reset" THEN -1 ELSE lastOutputPTS

\* heap.Pop and what the loops of checkOutput and Flush do with the frame.
Emit(f) ==
    /\ buffer' = buffer \ {f}
    /\ \/ /\ isValidOutput(f) # "drop"
          /\ updateOutputState(f, isValidOutput(f))
          /\ last' = f
          /\ UNCHANGED dropped
       \/ /\ isValidOutput(f) = "drop"
          /\ dropped' = dropped \cup {f}
          /\ UNCHANGED <<lastOutputPTS, lastOutputDTS, last>>

-----------------------------------------------------------------------------
\* validateFrame: a DTS of zero is taken for a missing one.
validateFrame(f) == IF f.dts = 0 /\ f.pts # 0 THEN [f EXCEPT !.dts = f.pts] ELSE f

\* What a conforming encoder may send next: a frame decoded at t, shown at p.
Conforms(type, t, p) ==
    /\ p >= t
    /\ IF type = "B" THEN p < refPTS ELSE p > refPTS

\* AddFrame, up to its call of checkOutput.
AddFrame(type, step, delay) ==
    LET t == time + step
        p == t + delay
    IN  /\ pc = "idle"
        /\ t <= MaxTime
        /\ Conforms(type, t, p)
        /\ time' = t
        /\ refPTS' = IF type = "B" THEN refPTS ELSE p
        /\ arrived' = arrived + 1
        /\ buffer' = buffer \cup {validateFrame([n |-> arrived + 1, type |-> type,
                                                 pts |-> Stamp(p), dts |-> Stamp(t)])}
        /\ pc' = "check"
        /\ UNCHANGED <<lastOutputPTS, lastOutputDTS, last, dropped>>

\* checkOutput: one round of its loop.
OutputNext(f, aged) ==
    /\ pc = "check"
    /\ IsNext(f)
    /\ ShouldOutput(f, aged)
    /\ Emit(f)
    /\ UNCHANGED <<time, refPTS, arrived, pc>>

\* checkOutput: the loop ends.  The frame looked at has not aged.
OutputDone ==
    /\ pc = "check"
    /\ buffer = {} \/ \E f \in buffer : IsNext(f) /\ ~ ShouldOutput(f, FALSE)
    /\ pc' = "idle"
    /\ UNCHANGED <<time, refPTS, arrived, buffer, lastOutputPTS, lastOutputDTS, last, dropped>>

Flush ==
    /\ pc = "idle"
    /\ pc' = "flush"
    /\ UNCHANGED <<time, refPTS, arrived, buffer, lastOutputPTS, lastOutputDTS, last, dropped>>

FlushNext(f) ==
    /\ pc = "flush"
    /\ IsNext(f)
    /\ Emit(f)
    /\ UNCHANGED <<time, refPTS, arrived, pc>>

FlushDone ==
    /\ pc = "flush"
    /\ buffer = {}
    /\ pc' = "idle"
    /\ UNCHANGED <<time, refPTS, arrived, buffer, lastOutputPTS, lastOutputDTS, last, dropped>>

ReorderNext ==
    \/ \E type \in Types, step \in Steps, delay \in 0 .. MaxPresent :
           AddFrame(type, step, delay)
    \/ \E f \in buffer, aged \in BOOLEAN : OutputNext(f, aged)
    \/ OutputDone
    \/ Flush
    \/ \E f \in buffer : FlushNext(f)
    \/ FlushDone

ReorderSpec == ReorderInit /\ [][ReorderNext]_reorderVars

-----------------------------------------------------------------------------
(* Properties *)

\* The delay the reorderer adds is bounded: between calls fewer than
\* maxReorderDepth frames are held back, whatever their types (checkOutput).
Bounded == pc = "idle" => Cardinality(buffer) < Depth

\* A conforming stream loses no frame in the reorderer: isValidOutput refuses
\* none, whatever conditions let the frames out and when Flush is called.
NothingLost == dropped = {}

\* A conforming stream leaves the reorderer in the order it was decoded: no
\* frame held back comes before one already emitted (checkOutput, Flush).
DecodeOrder == \A f \in buffer : last.n < f.n

\* What the reorderer promises a conforming stream: a bounded delay, every
\* frame, and decode order (bframe_reorderer.go).
ReorderExact == Bounded /\ NothingLost /\ DecodeOrder
=============================================================================
