----------------------------- MODULE FlowControl -----------------------------
(***************************************************************************)
(* backpressure/controller.go and what stream_handler.go does with it.     *)
(* Four goroutines share the pressure reading, the rate, the back-pressure *)
(* flag and the connection's bandwidth limit: the monitor, which measures  *)
(* once a second; the control loop, which adjusts the rate; processFrames, *)
(* which throttles the connection when the queue refuses a frame; and the  *)
(* recovery, which uses the same flag.  The API sets the pressure by hand. *)
(* Pressure is in percent, rates are in units of the smallest step.        *)
(***************************************************************************)
EXTENDS Integers, Sequences

CONSTANTS
  Pressures,   \* readings of the queue
  GOPSizes,    \* avgGOPSize, 0 while there is none
  MinRate, MaxRate,
  HistorySize,
  Target,      \* TargetPressure
  MaxEvents    \* bound: what the API, the recovery and processFrames do

ASSUME FlowAssumption ==
  /\ Pressures \subseteq 0..100 /\ GOPSizes \subseteq Nat
  /\ MinRate \in Nat \ {0} /\ MaxRate \in Nat /\ MinRate <= MaxRate
  /\ HistorySize \in Nat \ {0} /\ Target \in 1..100 /\ MaxEvents \in Nat

VARIABLES
  pressure,   \* what the queue would report now
  reading,    \* currentPressure
  readings,   \* pressureHistory
  gopSize,    \* avgGOPSize
  rate,       \* currentRate
  flag,       \* StreamHandler.backpressure
  limit,      \* the bandwidth limit: "none" (0), "rate" or "cut"
  monitor,    \* [at, p]: the monitor and the pressure it measured
  loop,       \* the control loop: "idle" or "tell"
  throttle,   \* processFrames in applyBackpressure: [at, saw]
  shed,       \* whether the last round of the monitor dropped a GOP
  events

flowVars == <<pressure, reading, readings, gopSize, rate, flag, limit, monitor, loop, throttle,
              shed, events>>

FlowInit ==
  /\ pressure \in Pressures /\ reading = 0 /\ readings = <<>> /\ gopSize \in GOPSizes
  /\ rate = MaxRate /\ flag = FALSE /\ limit = "rate"
  /\ monitor = [at |-> "measure", p |-> 0] /\ loop = "idle"
  /\ throttle = [at |-> "out", saw |-> "none"]
  /\ shed = FALSE /\ events = 0

-----------------------------------------------------------------------------
(* The controller                                                          *)

\* getSmoothedPressureUnsafe: recent readings weigh more
SmoothedPressure ==
  LET sum[i \in 0..Len(readings)] == IF i = 0 THEN 0 ELSE sum[i - 1] + i * readings[i]
      n == Len(readings)
  IN  IF n = 0 THEN reading ELSE sum[n] \div ((n * (n + 1)) \div 2)

\* what adjustRate reacts to
Blend ==
  LET s == SmoothedPressure
  IN  IF reading - s \in -10..10 THEN s ELSE (7 * reading + 3 * s) \div 10

CalculateIncreaseRate(r, p) == (r * (IF 2 * p < Target THEN 180 ELSE 120)) \div 100

CalculateDecreaseRate(r, p) ==
  (r * (IF p > 90 THEN 40 ELSE IF p > 80 THEN 56 ELSE 80)) \div 100

CalculateStableRate(r, p) == (r * (1000 + Target - p)) \div 1000

\* applyGOPAdjustments: below one GOP a second the rate snaps to the GOP size
ApplyGOPAdjustments(r, p) ==
  IF gopSize = 0 \/ r >= gopSize THEN r ELSE IF p > 80 THEN gopSize \div 2 ELSE gopSize

EnforceRateLimits(r) == IF r < MinRate THEN MinRate ELSE IF r > MaxRate THEN MaxRate ELSE r

NewRate ==
  LET p == Blend
      r == CASE 10 * p < 9 * Target -> CalculateIncreaseRate(rate, p)
             [] 10 * p > 11 * Target -> CalculateDecreaseRate(rate, p)
             [] OTHER -> CalculateStableRate(rate, p)
  IN  EnforceRateLimits(ApplyGOPAdjustments(r, p))

\* adjustRate; onRateChange follows if the rate has changed
AdjustRate ==
  /\ loop = "idle" /\ NewRate # rate
  /\ rate' = NewRate /\ loop' = "tell"
  /\ UNCHANGED <<pressure, reading, readings, gopSize, flag, limit, monitor, throttle, shed, events>>

OnRateChange ==
  /\ loop = "tell" /\ loop' = "idle" /\ limit' = "rate"
  /\ UNCHANGED <<pressure, reading, readings, gopSize, rate, flag, monitor, throttle, shed, events>>

Noted(p) == IF Len(readings) = HistorySize THEN Append(Tail(readings), p) ELSE Append(readings, p)

-----------------------------------------------------------------------------
(* monitorBackpressure, once a second                                      *)

\* the reading is stored before the history is locked
Measure ==
  /\ monitor.at = "measure"
  /\ monitor' = [at |-> "note", p |-> pressure]
  /\ reading' = pressure
  /\ UNCHANGED <<pressure, readings, gopSize, rate, flag, limit, loop, throttle, shed, events>>

NoteReading ==
  /\ monitor.at = "note"
  /\ readings' = Noted(monitor.p)
  /\ monitor' = [monitor EXCEPT !.at = "judge"]
  /\ UNCHANGED <<pressure, reading, gopSize, rate, flag, limit, loop, throttle, shed, events>>

\* Mutant of ShouldDropGOP: only below the minimum.
ShouldDropBelow(p) ==
  p >= 90 /\ (rate < MinRate \/ (gopSize > 0 /\ (rate < 3 * gopSize \/ p >= 95)))

ShouldDropGOP(p) ==
  p >= 90 /\ (rate <= MinRate \/ (gopSize > 0 /\ (rate < 3 * gopSize \/ p >= 95)))

\* dropOldestGOP, or the release of the flag below a pressure of 50
Judge ==
  /\ monitor.at = "judge"
  /\ shed' = ShouldDropGOP(monitor.p)
  /\ IF flag /\ monitor.p < 50
     THEN flag' = FALSE /\ monitor' = [monitor EXCEPT !.at = "release"]
     ELSE flag' = flag /\ monitor' = [monitor EXCEPT !.at = "measure"]
  /\ UNCHANGED <<pressure, reading, readings, gopSize, rate, limit, loop, throttle, events>>

\* releaseBackpressure: SetMaxBW(0)
ReleaseLimit ==
  /\ monitor.at = "release"
  /\ limit' = "none" /\ monitor' = [monitor EXCEPT !.at = "measure"]
  /\ UNCHANGED <<pressure, reading, readings, gopSize, rate, flag, loop, throttle, shed, events>>

MonitorStep == Measure \/ NoteReading \/ Judge \/ ReleaseLimit

-----------------------------------------------------------------------------
(* The others                                                              *)

Event == events < MaxEvents /\ events' = events + 1

\* applyBackpressure, when the queue refuses a frame: the flag, then 80 percent
\* of whatever the limit is found to be
ApplyBackpressure ==
  /\ throttle.at = "out" /\ Event
  /\ flag' = TRUE /\ throttle' = [throttle EXCEPT !.at = "look"]
  /\ UNCHANGED <<pressure, reading, readings, gopSize, rate, limit, monitor, loop, shed>>

ThrottleLooks ==
  /\ throttle.at = "look"
  /\ throttle' = [at |-> "set", saw |-> limit]
  /\ UNCHANGED <<pressure, reading, readings, gopSize, rate, flag, limit, monitor, loop, shed, events>>

ThrottleSets ==
  /\ throttle.at = "set"
  /\ limit' = IF throttle.saw = "none" THEN "none" ELSE "cut"
  /\ throttle' = [at |-> "out", saw |-> "none"]
  /\ UNCHANGED <<pressure, reading, readings, gopSize, rate, flag, monitor, loop, shed, events>>

ThrottleStep == ThrottleLooks \/ ThrottleSets

\* onRecoveryStart and a successful onRecoveryEnd
Recovery(starts) ==
  /\ Event /\ flag # starts /\ flag' = starts
  /\ UNCHANGED <<pressure, reading, readings, gopSize, rate, limit, monitor, loop, throttle, shed>>

\* HandleStreamBackpressureControl: "set_pressure", "reset" is 0
SetPressure(p) ==
  /\ Event /\ reading' = p /\ readings' = Noted(p)
  /\ UNCHANGED <<pressure, gopSize, rate, flag, limit, monitor, loop, throttle, shed>>

\* the queue fills or drains, the GOP statistics change
QueueChanges ==
  /\ Event
  /\ \E p \in Pressures, g \in GOPSizes :
       /\ pressure' = p /\ gopSize' = IF g = 0 THEN gopSize ELSE g
       /\ p # pressure \/ gopSize' # gopSize
  /\ UNCHANGED <<reading, readings, rate, flag, limit, monitor, loop, throttle, shed>>

FlowNext ==
  \/ AdjustRate \/ OnRateChange
  \/ MonitorStep
  \/ ApplyBackpressure \/ ThrottleStep
  \/ \E b \in BOOLEAN : Recovery(b)
  \/ \E p \in Pressures : SetPressure(p)
  \/ QueueChanges

\* Tickers fire and goroutines run.
FlowFairness ==
  /\ WF_flowVars(MonitorStep) /\ WF_flowVars(AdjustRate) /\ WF_flowVars(OnRateChange)
  /\ WF_flowVars(ThrottleStep)

FlowSpec == FlowInit /\ [][FlowNext]_flowVars /\ FlowFairness

-----------------------------------------------------------------------------
Calm    == pressure < Target \div 2
Extreme == pressure >= 95
AtRest  == rate = MaxRate /\ ~flag

\* However the goroutines interleave and whatever the pressure was before: once
\* the queue stays calm the rate climbs back to its maximum and the flag is
\* cleared for good (backpressure/controller.go:150, stream_handler.go:605);
\* while it stays at 95 percent or more, GOPs are dropped every round from some point
\* on, also when no GOP size is known (controller.go:376).
FlowSettles ==
  /\ (<>[]Calm => <>[]AtRest)
  /\ (<>[]Extreme => <>[]shed)

=============================================================================
