------------------------------ MODULE MCServices ------------------------------
(* The goroutines that serve a stream once it is admitted: codec detection, the *)
(* video pipeline, flow control and the two recoveries.  A behaviour exercises  *)
(* one of them while the others stay as they were created.                      *)
EXTENDS CodecDetection, VideoPipeline, FlowControl, RecoveryHandler, StreamRecovery

CONSTANTS Subjects, h264, hevc, av1

VARIABLE subject

\* A session is described and observed once; its packets come from two goroutines.
CallsOf == [p \in Procs |-> IF p \in Feeders THEN 2 ELSE 1]

MCInit ==
  /\ subject \in Subjects
  /\ Init /\ PipeInit /\ FlowInit /\ RecInit /\ SRInit
  /\ subject # "flow" => pressure = 20 /\ gopSize = 0

MCNext ==
  /\ UNCHANGED subject
  /\ \/ subject = "detection" /\ Next /\ UNCHANGED <<pipeVars, flowVars, recVars, srVars>>
     \/ subject = "pipeline" /\ PipeNext /\ UNCHANGED <<vars, flowVars, recVars, srVars>>
     \/ subject = "flow" /\ FlowNext /\ UNCHANGED <<vars, pipeVars, recVars, srVars>>
     \/ subject = "recovery" /\ RecNext /\ UNCHANGED <<vars, pipeVars, flowVars, srVars>>
     \/ subject = "health" /\ SRNext /\ UNCHANGED <<vars, pipeVars, flowVars, recVars>>

MCSpec == MCInit /\ [][MCNext]_<<subject, vars, pipeVars, flowVars, recVars, srVars>>

\* The fairness of each module, for its own subject.
MCFairness ==
  /\ \A p \in Procs : WF_vars(subject = "detection" /\ ProcStep(p))
  /\ \A p \in Feeders : WF_vars(subject = "detection" /\ TimerCloses(p))
  /\ WF_vars(subject = "detection" /\ PauseSelf)
  /\ WF_pipeVars(subject = "pipeline" /\ (AssemblerSend \/ AssemblerDrop \/ PacketsEnd))
  /\ WF_pipeVars(subject = "pipeline" /\ processFrames)
  /\ WF_pipeVars(subject = "pipeline" /\ processReorderedFrames)
  /\ WF_pipeVars(subject = "pipeline" /\ Stop)
  /\ WF_flowVars(subject = "flow" /\ MonitorStep)
  /\ WF_flowVars(subject = "flow" /\ AdjustRate)
  /\ WF_flowVars(subject = "flow" /\ OnRateChange)
  /\ WF_flowVars(subject = "flow" /\ ThrottleStep)
  /\ \A r \in RecReporters : WF_recVars(subject = "recovery" /\ ReportStep(r))
  /\ \A w \in 1..MaxErrors :
       WF_recVars(subject = "recovery" /\ w \in DOMAIN waiters /\ WaitStep(w))
  /\ \A r \in Reporters : WF_srVars(subject = "health" /\ CallerStep(r))
  /\ \A n \in 1..(MaxReports + MaxTries) :
       WF_srVars(subject = "health" /\ n \in DOMAIN runs /\ RecoverStep(n))
  /\ WF_srVars(subject = "health" /\ (HealthSees \/ HealthRetries))

MCFairSpec == MCSpec /\ MCFairness
=============================================================================
