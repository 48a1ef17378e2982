---------------------------- MODULE SmartRecovery ---------------------------
(***************************************************************************)
(* The smart recovery handler (recovery/smart_recovery.go): it wraps the   *)
(* handler of RecoveryHandler, keeps a history of errors, picks a strategy *)
(* from it, and starts goroutines that wait for a keyframe or watch for a  *)
(* recovery point.  The question is its mutex: HandleError holds it over   *)
(* everything it calls, the callbacks of the wrapped handler included, and *)
(* those lock it again (SetSmartCallbacks, UpdateRecoveryMetrics).         *)
(*                                                                         *)
(* How old an error is, how regular the intervals are, whether a keyframe  *)
(* is near and what the frame buffer holds are choices.  The metrics       *)
(* themselves are left out; taking the mutex to update them is not.        *)
(***************************************************************************)
EXTENDS Integers, Sequences, FiniteSets

CONSTANTS
  Callers,        \* goroutines that report errors
  FrameLoop,      \* the goroutine that calls ProcessFrame
  Unlocked,       \* holder of a free mutex
  Strategies,     \* enabled: subset of {"fast", "adaptive", "preemptive"}
  KeyframeFound,  \* may the GOP buffer hold a keyframe: subset of BOOLEAN
  FastErrors,     \* recent errors that make the rate high (10)
  PatternErrors,  \* errors a repeating pattern needs (4)
  CorruptErrors,  \* recent corruptions that are no pattern yet (2)
  MaxHistory      \* bound: errors handled

ASSUME SmartAssumption ==
  /\ IsFiniteSet(Callers) /\ FrameLoop \notin Callers
  /\ Strategies \subseteq {"fast", "adaptive", "preemptive"}
  /\ KeyframeFound \subseteq BOOLEAN
  /\ {FastErrors, PatternErrors, CorruptErrors, MaxHistory} \subseteq Nat

Spawned == 1..MaxHistory        \* goroutines: HandleError starts at most one
Actors == Callers \cup {FrameLoop} \cup Spawned
SmartErrors == {"packetLoss", "corruption", "timeout"}

VARIABLES
  holder,     \* who holds SmartRecoveryHandler.mu
  actor,      \* actor -> where it is and the error it reports
  errorHistory,
  baseState,  \* state of the wrapped handler
  latestWait  \* the wait of the wrapped handler that nobody cancelled, 0: none

smartVars == <<holder, actor, errorHistory, baseState, latestWait>>

Resting == [at |-> "idle", type |-> "none"]

SmartInit ==
  /\ holder = Unlocked
  /\ actor = [a \in Actors |-> Resting]
  /\ errorHistory = <<>>
  /\ baseState = "normal"
  /\ latestWait = 0

Moved(a, at) == [actor EXCEPT ![a].at = at]

\* Where an actor goes when HandleError returns: a spawned one ends.
Returned(a) == Moved(a, IF a \in Spawned THEN "gone" ELSE "idle")

----------------------------------------------------------------------------
(* HandleError. *)

\* A caller reports an error; the error waits for the mutex.
SmartReport(c, type) ==
  /\ actor[c].at = "idle"
  /\ Len(errorHistory) < MaxHistory
  /\ actor' = [actor EXCEPT ![c] = [at |-> "lock", type |-> type]]
  /\ UNCHANGED <<holder, errorHistory, baseState, latestWait>>

\* An error past the bound is not followed any further.
EnterHandleError(a) ==
  /\ actor[a].at = "lock" /\ holder = Unlocked
  /\ IF Len(errorHistory) < MaxHistory
     THEN /\ holder' = a
          /\ errorHistory' = Append(errorHistory, actor[a].type)
          /\ actor' = Moved(a, "inside")
     ELSE /\ actor' = Returned(a)
          /\ UNCHANGED <<holder, errorHistory>>
  /\ UNCHANGED <<baseState, latestWait>>

\* The last n errors are those of the last five minutes; regular says that
\* the last four came at similar intervals.
AnalyzeErrorPattern(n, regular) ==
  LET len == Len(errorHistory)
      recent == (len - n + 1)..len
      corruptions == {i \in recent : errorHistory[i] = "corruption"}
  IN CASE len < 2 -> "default"
       [] len >= 2 /\ n > FastErrors /\ "fast" \in Strategies -> "fast"
       [] len >= PatternErrors /\ regular /\ "adaptive" \in Strategies -> "adaptive"
       [] Cardinality(corruptions) > CorruptErrors /\ "preemptive" \in Strategies -> "preemptive"
       [] OTHER -> "default"

\* A goroutine that is started, and the caller that leaves with it.
Starts(a, at) ==
  LET g == CHOOSE s \in Spawned : actor[s].at = "idle"
  IN [Returned(a) EXCEPT ![g] = [at |-> at, type |-> "timeout"]]

\* requestKeyframe of the wrapped handler: a new wait replaces the last one.
RequestKeyframeFrom(a) ==
  /\ latestWait' = CHOOSE s \in Spawned : actor[s].at = "idle"
  /\ actor' = Starts(a, "baseWait")
  /\ holder' = Unlocked

\* A buffered recovery point, or the keyframe is asked for and not awaited.
ApplyFastRecovery(a, buffered) ==
  /\ baseState' = IF buffered THEN "normal" ELSE "resyncing"
  /\ actor' = Returned(a) /\ holder' = Unlocked
  /\ UNCHANGED latestWait

\* A keyframe due soon is waited for, otherwise requested.
ApplyAdaptiveRecovery(a, soon) ==
  /\ UNCHANGED baseState
  /\ IF soon
     THEN actor' = Starts(a, "smartWait") /\ holder' = Unlocked /\ UNCHANGED latestWait
     ELSE RequestKeyframeFrom(a)

ApplyPreemptiveRecovery(a, advice) ==
  /\ UNCHANGED baseState
  /\ CASE advice = "request" -> RequestKeyframeFrom(a)
       [] advice = "upcoming" ->
            actor' = Starts(a, "monitor") /\ holder' = Unlocked /\ UNCHANGED latestWait
       [] OTHER -> actor' = Returned(a) /\ holder' = Unlocked /\ UNCHANGED latestWait

\* The wrapped handler: it escalates, finds a keyframe in the GOP buffer and
\* calls onRecoveryEnd, or asks for one.
BaseHandleError(a, found, tooLong) ==
  CASE baseState = "recovering" /\ tooLong ->
         /\ baseState' = "failed" /\ actor' = Returned(a)
         /\ holder' = Unlocked /\ UNCHANGED latestWait
    [] baseState = "recovering" /\ ~tooLong ->
         RequestKeyframeFrom(a) /\ UNCHANGED baseState
    [] baseState # "recovering" /\ actor[a].type # "timeout" /\ found ->
         /\ baseState' = "normal" /\ actor' = Moved(a, "callback")
         /\ UNCHANGED <<holder, latestWait>>
    [] OTHER ->
         /\ baseState' = IF actor[a].type = "timeout" THEN "resyncing" ELSE "recovering"
         /\ RequestKeyframeFrom(a)

SmartHandleError(a) ==
  /\ actor[a].at = "inside"
  /\ \E n \in 1..Len(errorHistory), regular \in BOOLEAN, choice \in BOOLEAN :
       LET strategy == AnalyzeErrorPattern(n, regular)
       IN \/ strategy = "fast" /\ ApplyFastRecovery(a, choice)
          \/ strategy = "adaptive" /\ ApplyAdaptiveRecovery(a, choice)
          \/ /\ strategy = "preemptive"
             /\ \E advice \in {"request", "upcoming", "none"} :
                  ApplyPreemptiveRecovery(a, advice)
          \/ /\ strategy = "default"
             /\ \E found \in KeyframeFound : BaseHandleError(a, found, choice)
  /\ UNCHANGED errorHistory

----------------------------------------------------------------------------
(* Frames and the goroutines. *)

\* Mutant of SmartProcessFrame: the recovery is triggered inside the lock.
ProcessFrameLocked ==
  /\ actor[FrameLoop].at = "idle" /\ holder = Unlocked
  /\ Len(errorHistory) < MaxHistory /\ "preemptive" \in Strategies
  /\ actor' = [actor EXCEPT ![FrameLoop] = [at |-> "lock", type |-> "corruption"]]
  /\ holder' = FrameLoop
  /\ UNCHANGED <<errorHistory, baseState, latestWait>>

\* The frame is looked at under the mutex; a poor one is an error, reported
\* after the mutex is released.  (A good one changes nothing kept here.)
SmartProcessFrame ==
  /\ actor[FrameLoop].at = "idle" /\ holder = Unlocked
  /\ Len(errorHistory) < MaxHistory /\ "preemptive" \in Strategies
  /\ actor' = [actor EXCEPT ![FrameLoop] = [at |-> "lock", type |-> "corruption"]]
  /\ UNCHANGED <<holder, errorHistory, baseState, latestWait>>

\* waitForKeyframeWithTimeout: the state is normal again, or time is up and
\* the timeout is an error of its own.
SmartWaitEnds(g, timeout) ==
  /\ actor[g].at = "smartWait"
  /\ timeout \/ baseState = "normal"
  /\ actor' = Moved(g, IF timeout THEN "metricsThenError" ELSE "metrics")
  /\ UNCHANGED <<holder, errorHistory, baseState, latestWait>>

\* waitForKeyframe of the wrapped handler: cancelled, or a keyframe or the
\* timeout ends the recovery and calls onRecoveryEnd.
BaseWaitEnds(g, keyframe) ==
  /\ actor[g].at = "baseWait"
  /\ \/ /\ latestWait # g
        /\ actor' = Moved(g, "gone")
        /\ UNCHANGED baseState
     \/ /\ baseState' = IF keyframe THEN "normal" ELSE "failed"
        /\ actor' = Moved(g, "metrics")
  /\ UNCHANGED <<holder, errorHistory, latestWait>>

\* UpdateRecoveryMetrics locks the mutex, called from a goroutine or back
\* from the wrapped handler inside HandleError: a Go mutex does not know
\* who holds it.
UpdateRecoveryMetrics(a) ==
  /\ actor[a].at \in {"metrics", "metricsThenError", "callback"} /\ holder = Unlocked
  /\ actor' = IF actor[a].at = "metricsThenError" THEN Moved(a, "lock") ELSE Returned(a)
  /\ UNCHANGED <<holder, errorHistory, baseState, latestWait>>

\* monitorRecoveryPoint: the frame came, or two seconds passed.
MonitorEnds(g, reached) ==
  /\ actor[g].at = "monitor"
  /\ actor' = Moved(g, "gone")
  /\ baseState' = IF reached THEN "normal" ELSE baseState
  /\ UNCHANGED <<holder, errorHistory, latestWait>>

SpawnedStep(g) ==
  \E b \in BOOLEAN : SmartWaitEnds(g, b) \/ BaseWaitEnds(g, b) \/ MonitorEnds(g, b)

HandlingStep(a) ==
  EnterHandleError(a) \/ SmartHandleError(a) \/ UpdateRecoveryMetrics(a)

SmartNext ==
  \/ \E c \in Callers, type \in SmartErrors : SmartReport(c, type)
  \/ SmartProcessFrame
  \/ \E a \in Actors : HandlingStep(a)
  \/ \E g \in Spawned : SpawnedStep(g)

\* Goroutines are scheduled and a waiting locker gets a mutex that is free
\* (the history is bounded, so that nobody can be overtaken for ever).
SmartFairness ==
  /\ \A a \in Actors : WF_smartVars(HandlingStep(a))
  /\ \A g \in Spawned : WF_smartVars(SpawnedStep(g))

SmartSpec == SmartInit /\ [][SmartNext]_smartVars /\ SmartFairness

----------------------------------------------------------------------------
(* Properties. *)

\* Every HandleError returns, and every goroutine it started ends, whoever
\* holds the mutex in between ("Trigger recovery outside of lock to avoid
\* deadlock" in ProcessFrame, and the callbacks of SetSmartCallbacks).
SmartReturns ==
  (\E a \in Actors : actor[a].at # "idle") ~> (\A a \in Actors : actor[a].at \in {"idle", "gone"})
============================================================================
