----------------------------- MODULE Reconnect -----------------------------
(***************************************************************************)
(* reconnect/reconnect.go: the manager that calls onConnect until it       *)
(* succeeds, its back-off strategy gives up or Stop is called.  The loop   *)
(* reads the field stopCh afresh in each select; Start replaces it.  A     *)
(* channel is its number in the order of their making.                     *)
(***************************************************************************)
EXTENDS Naturals

CONSTANTS
  Retries,       \* the strategy's MaxRetries, 0: without end
  MaxStarts,     \* bound: loops started
  RestartEarly   \* TRUE: Start may come before the stopped loop has ended

ASSUME ReconnectAssumption ==
  {Retries, MaxStarts} \subseteq Nat /\ RestartEarly \in BOOLEAN

VARIABLES
  running,    \* Manager.running
  stopCh,     \* Manager.stopCh
  closedCh,   \* the stop channels that are closed
  loop,       \* per started loop: where it is and the channel its select holds
  retryCount  \* the strategy's retryCount

reVars == <<running, stopCh, closedCh, loop, retryCount>>

Loops == 1..MaxStarts

ReInit ==
  /\ running = FALSE /\ stopCh = 0 /\ closedCh = {}
  /\ loop = [l \in Loops |-> [at |-> "unborn", ch |-> 0]]
  /\ retryCount = 0

Living == {l \in Loops : loop[l].at \notin {"unborn", "ended"}}

-----------------------------------------------------------------------------

ReStart ==
  /\ ~running /\ stopCh < MaxStarts
  /\ RestartEarly \/ Living = {}
  /\ running' = TRUE
  /\ stopCh' = stopCh + 1
  /\ loop' = [loop EXCEPT ![stopCh + 1].at = "look"]
  /\ UNCHANGED <<closedCh, retryCount>>

\* Mutant of ReStop: the channel is not closed.
StopQuietly ==
  /\ running
  /\ running' = FALSE
  /\ UNCHANGED <<stopCh, closedCh, loop, retryCount>>

ReStop ==
  /\ running
  /\ running' = FALSE
  /\ closedCh' = closedCh \cup {stopCh}
  /\ UNCHANGED <<stopCh, loop, retryCount>>

Goes(l, at) == loop' = [loop EXCEPT ![l].at = at]

\* The select at the head of the loop
Look(l) ==
  /\ loop[l].at = "look"
  /\ Goes(l, IF stopCh \in closedCh THEN "leave" ELSE "connect")
  /\ UNCHANGED <<running, stopCh, closedCh, retryCount>>

ConnectSucceeds(l) ==
  /\ loop[l].at = "connect" /\ Goes(l, "leave")
  /\ retryCount' = 0
  /\ UNCHANGED <<running, stopCh, closedCh>>

\* onConnect fails, NextDelay decides; without end the count does not matter
NextDelay(l) ==
  /\ loop[l].at = "connect"
  /\ IF Retries > 0 /\ retryCount >= Retries
     THEN Goes(l, "leave") /\ UNCHANGED retryCount
     ELSE Goes(l, "delay") /\ retryCount' = IF Retries > 0 THEN retryCount + 1 ELSE 0
  /\ UNCHANGED <<running, stopCh, closedCh>>

\* The select with the timer
EnterWait(l) ==
  /\ loop[l].at = "delay"
  /\ loop' = [loop EXCEPT ![l] = [at |-> "wait", ch |-> stopCh]]
  /\ UNCHANGED <<running, stopCh, closedCh, retryCount>>

LeaveWait(l) ==
  /\ loop[l].at = "wait"
  /\ \/ Goes(l, "look")
     \/ loop[l].ch \in closedCh /\ Goes(l, "leave")
  /\ UNCHANGED <<running, stopCh, closedCh, retryCount>>

\* The deferred running = false
EndLoop(l) ==
  /\ loop[l].at = "leave" /\ Goes(l, "ended")
  /\ running' = FALSE
  /\ UNCHANGED <<stopCh, closedCh, retryCount>>

LoopStep(l) ==
  \/ Look(l) \/ ConnectSucceeds(l) \/ NextDelay(l) \/ EnterWait(l) \/ LeaveWait(l)
  \/ EndLoop(l)

ReNext == ReStart \/ ReStop \/ \E l \in Loops : LoopStep(l)

\* onConnect returns and timers fire: a loop always goes on
ReFairness == \A l \in Loops : WF_reVars(LoopStep(l))

ReSpec == ReInit /\ [][ReNext]_reVars /\ ReFairness

-----------------------------------------------------------------------------
(* Properties *)

\* "Stops the reconnection loop" (reconnect/README.md): after Stop the loop ends,
\* however often the connection fails.
StopEndsLoop == (~running /\ Living # {}) ~> Living = {}

=============================================================================
