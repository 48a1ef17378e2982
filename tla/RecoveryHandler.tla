-------------------------- MODULE RecoveryHandler --------------------------
(***************************************************************************)
(* The recovery handler of a stream: recovery/recovery.go, with the        *)
(* callbacks that the stream handler gives it (stream_handler.go).  An     *)
(* error sets the state, and unless the GOP buffer has what is needed a    *)
(* goroutine is started that waits for the next keyframe or a timeout.     *)
(*                                                                         *)
(* What the state is set to, and the callback that follows, are two steps, *)
(* and an error is handled in steps too: frames are processed by one       *)
(* goroutine, RecoverFromError is called by others.                        *)
(***************************************************************************)
EXTENDS Integers, Sequences, FiniteSets

CONSTANTS
  RecReporters,  \* goroutines that report errors
  MaxErrors   \* bound: errors reported

ASSUME RecoveryAssumption == IsFiniteSet(RecReporters) /\ MaxErrors \in Nat

VARIABLES
  rstate,    \* Handler.state
  report,    \* reporter -> what it does in HandleError
  waiters,   \* goroutines of waitForKeyframe, in the order they were started
  flowPaused,    \* StreamHandler.backpressure as the callbacks leave it
  reported     \* errors so far

recVars == <<rstate, report, waiters, flowPaused, reported>>

ErrorTypes == {"packetLoss", "corruption", "timeout", "timestampJump", "codecError"}
NoReport == [at |-> "out", type |-> "none"]

Waiter == [at |-> "new", cancelled |-> FALSE, fresh |-> FALSE]

RecInit ==
  /\ rstate = "normal" /\ flowPaused = FALSE /\ reported = 0
  /\ report = [r \in RecReporters |-> NoReport]
  /\ waiters = <<>>

-----------------------------------------------------------------------------
(* HandleError                                                             *)

GoesTo(r, at) == report' = [report EXCEPT ![r].at = at]

\* HandleError reads the state: in "recovering" the error escalates.  Small
\* sequence gaps end here, large ones are packet losses.
HandleError(r, type) ==
  /\ report[r].at = "out" /\ reported < MaxErrors
  /\ reported' = reported + 1
  /\ report' = [report EXCEPT ![r] = [type |-> type,
       at |-> IF rstate = "recovering" THEN "escalate" ELSE "start"]]
  /\ UNCHANGED <<rstate, waiters, flowPaused>>

\* recoverFrom...: the state, and for two of them onRecoveryStart
StartRecovery(r) ==
  /\ report[r].at = "start"
  /\ IF report[r].type \in {"packetLoss", "corruption"}
       THEN /\ rstate' = "recovering" /\ flowPaused' = TRUE
            /\ GoesTo(r, "search")
       ELSE /\ rstate' = "resyncing" /\ UNCHANGED flowPaused
            /\ GoesTo(r, "request")
  /\ UNCHANGED <<waiters, reported>>

\* a closed GOP, or a keyframe, in the buffer ends the recovery at once; whoever
\* still waits for a keyframe is not told
Search(r, found) ==
  /\ report[r].at = "search"
  /\ IF found THEN rstate' = "normal" /\ GoesTo(r, "end")
              ELSE UNCHANGED rstate /\ GoesTo(r, "request")
  /\ UNCHANGED <<waiters, flowPaused, reported>>

\* onRecoveryEnd(true)
EndRecovery(r) ==
  /\ report[r].at = "end"
  /\ flowPaused' = FALSE /\ GoesTo(r, "out")
  /\ UNCHANGED <<rstate, waiters, reported>>

\* escalateRecovery: failed when the recovery has lasted too long
EscalateRecovery(r, tooLong) ==
  /\ report[r].at = "escalate"
  /\ IF tooLong THEN rstate' = "failed" /\ GoesTo(r, "out")
                ELSE UNCHANGED rstate /\ GoesTo(r, "request")
  /\ UNCHANGED <<waiters, flowPaused, reported>>

\* requestKeyframe, and the end of recoverFromTimeout: the previous wait is
\* cancelled, a new one started
RequestKeyframe(r) ==
  /\ report[r].at = "request"
  /\ waiters' = Append([w \in DOMAIN waiters |-> [waiters[w] EXCEPT !.cancelled = TRUE]], Waiter)
  /\ GoesTo(r, "out")
  /\ UNCHANGED <<rstate, flowPaused, reported>>

-----------------------------------------------------------------------------
(* waitForKeyframe                                                         *)

WaiterGoes(w, at) == waiters' = [waiters EXCEPT ![w].at = at]

\* the clock starts when the goroutine does: a keyframe before that is missed
BeginWait(w) ==
  /\ waiters[w].at = "new" /\ WaiterGoes(w, "waiting")
  /\ UNCHANGED <<rstate, report, flowPaused, reported>>

\* select takes any case that is ready, also next to a cancelled context
Cancelled(w) ==
  /\ waiters[w].at = "waiting" /\ waiters[w].cancelled /\ WaiterGoes(w, "gone")
  /\ UNCHANGED <<rstate, report, flowPaused, reported>>

\* Mutant of TimesOut: the wait has no timer.
NeverTimesOut(w) == FALSE /\ UNCHANGED recVars

TimesOut(w) ==
  /\ waiters[w].at = "waiting" /\ WaiterGoes(w, "gone")
  /\ rstate' = "failed"
  /\ UNCHANGED <<report, flowPaused, reported>>

SeesKeyframe(w) ==
  /\ waiters[w].at = "waiting" /\ waiters[w].fresh
  /\ WaiterGoes(w, "ending") /\ rstate' = "normal"
  /\ UNCHANGED <<report, flowPaused, reported>>

\* onRecoveryEnd(true)
EndWait(w) ==
  /\ waiters[w].at = "ending" /\ WaiterGoes(w, "gone")
  /\ flowPaused' = FALSE
  /\ UNCHANGED <<rstate, report, reported>>

\* UpdateKeyframe: for those who wait a keyframe captured after they began
UpdateKeyframe ==
  /\ \E w \in DOMAIN waiters : waiters[w].at = "waiting" /\ ~waiters[w].fresh
  /\ waiters' = [w \in DOMAIN waiters |->
       IF waiters[w].at = "waiting" THEN [waiters[w] EXCEPT !.fresh = TRUE] ELSE waiters[w]]
  /\ UNCHANGED <<rstate, report, flowPaused, reported>>

\* monitorBackpressure clears the flag when the queue is nearly empty
ReleasePaused ==
  /\ flowPaused /\ flowPaused' = FALSE
  /\ UNCHANGED <<rstate, report, waiters, reported>>

ReportStep(r) == StartRecovery(r) \/ (\E b \in BOOLEAN : Search(r, b) \/ EscalateRecovery(r, b))
                 \/ EndRecovery(r) \/ RequestKeyframe(r)
WaitStep(w) == BeginWait(w) \/ Cancelled(w) \/ TimesOut(w) \/ SeesKeyframe(w) \/ EndWait(w)

RecNext ==
  \/ \E r \in RecReporters, t \in ErrorTypes : HandleError(r, t)
  \/ \E r \in RecReporters : ReportStep(r)
  \/ \E w \in DOMAIN waiters : WaitStep(w)
  \/ UpdateKeyframe
  \/ ReleasePaused

\* goroutines are scheduled, and the timer of a wait fires; keyframes need not come
RecFairness ==
  /\ \A r \in RecReporters : WF_recVars(ReportStep(r))
  /\ \A w \in 1..MaxErrors : WF_recVars(w \in DOMAIN waiters /\ WaitStep(w))

RecSpec == RecInit /\ [][RecNext]_recVars /\ RecFairness

-----------------------------------------------------------------------------
\* While a stream is recovering someone is at work on it: a reporter inside
\* HandleError, or a wait that nobody has cancelled.  Escalations cancel the
\* wait before, and errors of two goroutines mix (recovery.go:326, :392).
RecoveryWatched ==
  rstate \in {"recovering", "resyncing"} =>
    \/ \E r \in RecReporters : report[r].at \in {"search", "request", "escalate"}
    \/ \E w \in DOMAIN waiters : waiters[w].at \in {"new", "waiting"} /\ ~waiters[w].cancelled

\* A recovery ends, one way or the other (recovery.go:334).
RecoveryEnds == rstate \in {"recovering", "resyncing"} ~> rstate \in {"normal", "failed"}

\* A recovery is watched as long as it lasts, and it does not last for ever.
RecoveryRuns == []RecoveryWatched /\ RecoveryEnds
=============================================================================
