--------------------------- MODULE StreamRecovery ---------------------------
(***************************************************************************)
(* recovery/stream_recovery.go: errors reported from several goroutines,   *)
(* a circuit breaker in front of the recovery, one goroutine that retries  *)
(* it, and a health check that tries again after a failure.  The state,    *)
(* the flag that admits one goroutine and the breaker are three separate   *)
(* pieces, read and written one at a time.  Whether a recovery attempt     *)
(* succeeds and whether the breaker's time-out has passed are inputs.      *)
(***************************************************************************)
EXTENDS Naturals, Sequences

CONSTANTS
  Reporters,   \* goroutines that call HandleError
  MaxRetries,
  Threshold,   \* CircuitBreakerThreshold
  MaxTries,    \* maxTotalRecoveryAttempts
  MaxReports   \* bound: errors

ASSUME StreamRecoveryAssumption ==
  /\ MaxRetries \in Nat \ {0} /\ Threshold \in Nat \ {0}
  /\ MaxTries \in Nat /\ MaxReports \in Nat

VARIABLES
  health,    \* StreamRecovery.state
  breaker,   \* CircuitBreaker: [state, failures, used]
  recovering,\* the flag
  saved,     \* whether the state store holds the stream's state
  caller,    \* reporter -> "out", "refused", "allowed" or "preserved"
  runs,      \* recover goroutines: [at, attempt]
  checking,  \* whether the health check has seen "failed"
  tries,     \* totalRecoveryAttempts
  reports,
  stopped

srVars == <<health, breaker, recovering, saved, caller, runs, checking, tries, reports, stopped>>

Closed == [state |-> "closed", failures |-> 0, used |-> FALSE]

SRInit ==
  /\ health = "healthy" /\ breaker = Closed /\ recovering = FALSE /\ saved = FALSE
  /\ caller = [r \in Reporters |-> "out"] /\ runs = <<>>
  /\ checking = FALSE /\ tries = 0 /\ reports = 0 /\ stopped = FALSE

-----------------------------------------------------------------------------
(* HandleError                                                             *)

CallerGoes(r, at) == caller' = [caller EXCEPT ![r] = at]

\* CircuitBreaker.Allow; an open breaker may have timed out by now
Allow(r, timedOut) ==
  LET open == breaker.state = "open"
      ok   == \/ breaker.state = "closed" \/ (open /\ timedOut)
              \/ (breaker.state = "half-open" /\ ~breaker.used)
  IN  /\ caller[r] = "out" /\ reports < MaxReports /\ reports' = reports + 1
      /\ timedOut => open
      /\ CallerGoes(r, IF ok THEN "allowed" ELSE "refused")
      /\ breaker' = IF ~ok \/ breaker.state = "closed" THEN breaker
                    ELSE [breaker EXCEPT !.state = "half-open", !.used = TRUE]
      /\ UNCHANGED <<health, recovering, saved, runs, checking, tries, stopped>>

Refused(r) ==
  /\ caller[r] = "refused" /\ CallerGoes(r, "out")
  /\ health' = "failed"
  /\ UNCHANGED <<breaker, recovering, saved, runs, checking, tries, reports, stopped>>

PreserveState(r) ==
  /\ caller[r] = "allowed" /\ CallerGoes(r, "preserved")
  /\ saved' = TRUE
  /\ UNCHANGED <<health, breaker, recovering, runs, checking, tries, reports, stopped>>

\* the compare-and-swap, and the goroutine of the one who wins it
StartRecover ==
  IF recovering THEN UNCHANGED <<recovering, runs>>
  ELSE recovering' = TRUE /\ runs' = Append(runs, [at |-> "start", attempt |-> 1])

\* an error that comes during a recovery is left to that recovery
TryRecover(r) ==
  /\ caller[r] = "preserved" /\ CallerGoes(r, "out")
  /\ StartRecover
  /\ UNCHANGED <<health, breaker, saved, checking, tries, reports, stopped>>

-----------------------------------------------------------------------------
(* recover                                                                 *)

RunGoes(n, at) == runs[n].at # at /\ runs' = [runs EXCEPT ![n].at = at]

Begin(n) ==
  /\ runs[n].at = "start" /\ RunGoes(n, "try") /\ health' = "recovering"
  /\ UNCHANGED <<breaker, recovering, saved, caller, checking, tries, reports, stopped>>

\* onRecover fails: RecordFailure
RecordFailure(n) ==
  /\ runs[n].at = "try" /\ RunGoes(n, "backoff")
  /\ breaker' = [breaker EXCEPT !.failures = IF @ < Threshold THEN @ + 1 ELSE @,
                   !.state = IF breaker.failures + 1 >= Threshold THEN "open" ELSE @]
  /\ UNCHANGED <<health, recovering, saved, caller, checking, tries, reports, stopped>>

\* Mutant of Backoff: the attempt is not counted.
BackoffUncounted(n) ==
  /\ runs[n].at = "backoff" /\ ~stopped
  /\ runs' = [runs EXCEPT ![n].at = "try"]
  /\ UNCHANGED <<health, breaker, recovering, saved, caller, checking, tries, reports, stopped>>

Backoff(n) ==
  /\ runs[n].at = "backoff" /\ ~stopped
  /\ runs' = [runs EXCEPT ![n] =
       IF @.attempt < MaxRetries THEN [at |-> "try", attempt |-> @.attempt + 1]
                                 ELSE [@ EXCEPT !.at = "giveUp"]]
  /\ UNCHANGED <<health, breaker, recovering, saved, caller, checking, tries, reports, stopped>>

GiveUp(n) ==
  /\ runs[n].at = "giveUp" /\ RunGoes(n, "leave") /\ health' = "failed"
  /\ UNCHANGED <<breaker, recovering, saved, caller, checking, tries, reports, stopped>>

\* onRecover succeeds: RecordSuccess, then the state, then the store
RecordSuccess(n) ==
  /\ runs[n].at = "try" /\ RunGoes(n, "recovered")
  /\ breaker' = Closed
  /\ UNCHANGED <<health, recovering, saved, caller, checking, tries, reports, stopped>>

Recovered(n) ==
  /\ runs[n].at = "recovered" /\ RunGoes(n, "clean") /\ health' = "healthy"
  /\ UNCHANGED <<breaker, recovering, saved, caller, checking, tries, reports, stopped>>

DeletePreserved(n) ==
  /\ runs[n].at = "clean" /\ RunGoes(n, "leave") /\ saved' = FALSE
  /\ UNCHANGED <<health, breaker, recovering, caller, checking, tries, reports, stopped>>

\* the deferred recovering.Store(false); Stop ends a backoff here
Leave(n) ==
  /\ runs[n].at = "leave" \/ (runs[n].at = "backoff" /\ stopped)
  /\ RunGoes(n, "gone") /\ recovering' = FALSE
  /\ UNCHANGED <<health, breaker, saved, caller, checking, tries, reports, stopped>>

RecoverStep(n) ==
  \/ Begin(n) \/ RecordFailure(n) \/ Backoff(n) \/ GiveUp(n)
  \/ RecordSuccess(n) \/ Recovered(n) \/ DeletePreserved(n) \/ Leave(n)

-----------------------------------------------------------------------------
(* checkHealth                                                             *)

HealthSees ==
  /\ ~checking /\ ~stopped /\ health = "failed" /\ tries < MaxTries
  /\ checking' = TRUE
  /\ UNCHANGED <<health, breaker, recovering, saved, caller, runs, tries, reports, stopped>>

\* counted as a try also when another goroutine is still at it
HealthRetries ==
  /\ checking /\ checking' = FALSE
  /\ tries' = tries + 1 /\ breaker' = Closed
  /\ StartRecover
  /\ UNCHANGED <<health, saved, caller, reports, stopped>>

StopRecovery ==
  /\ ~stopped /\ stopped' = TRUE
  /\ UNCHANGED <<health, breaker, recovering, saved, caller, runs, checking, tries, reports>>

CallerStep(r) == Refused(r) \/ PreserveState(r) \/ TryRecover(r)

SRNext ==
  \/ \E r \in Reporters, b \in BOOLEAN : Allow(r, b)
  \/ \E r \in Reporters : CallerStep(r)
  \/ \E n \in DOMAIN runs : RecoverStep(n)
  \/ HealthSees \/ HealthRetries
  \/ StopRecovery

\* goroutines run, back-offs end, the health check ticks until Stop
SRFairness ==
  /\ \A r \in Reporters : WF_srVars(CallerStep(r))
  /\ \A n \in 1..(MaxReports + MaxTries) : WF_srVars(n \in DOMAIN runs /\ RecoverStep(n))
  /\ WF_srVars(HealthSees \/ HealthRetries)

SRSpec == SRInit /\ [][SRNext]_srVars /\ SRFairness

-----------------------------------------------------------------------------
Working == {n \in DOMAIN runs : runs[n].at # "gone"}

\* At most one recovery runs, however errors, refusals and health checks
\* interleave, and a stream that is called healthy has a closed breaker: its
\* next error is recovered and not refused for an earlier one
\* (stream_recovery.go:206, :238, :362).
HealthyIsOpenToRecovery ==
  /\ \A m, n \in Working : m = n
  /\ recovering <=> Working # {}
  /\ health = "healthy" => breaker = Closed

\* A recovery comes to an end: unless it is stopped the stream is healthy or
\* failed again, and a failed one is tried again until the tries are used up.
RecoveryConcludes ==
  /\ health = "recovering" ~> health # "recovering" \/ stopped
  /\ health = "failed" ~> health # "failed" \/ tries = MaxTries \/ stopped

\* Recoveries of a stream are exclusive, and they come to an end.
StreamRecovers == []HealthyIsOpenToRecovery /\ RecoveryConcludes
=============================================================================
