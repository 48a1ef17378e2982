------------------------------- MODULE MCIngest -------------------------------
(* The admission of SRT connections, the gate and the GOP buffer their frames   *)
(* pass, and the memory they are charged to.  A behaviour exercises one of them *)
(* while the others stay as they were created.                                  *)
EXTENDS StreamLifecycle, FrameGate, MemoryController, TLC

CONSTANTS Subjects, c1, c2, c3, s1, s2, t1, m1, m2, x1, x2

VARIABLE subject

\* c1 and c2 announce the same stream; the API terminates it.
StreamOfConn == [c \in Conns |-> IF c = c3 THEN s2 ELSE s1]
OnS1 == [o \in Ops |-> s1]
Terminates == [o \in Ops |-> "terminate"]

\* Keyframes are large.
FrameSize == [I |-> 3, P |-> 2, B |-> 1, M |-> 1]

\* The two senders of one stream are alike, and so are the callers and the
\* streams of the memory controller.
Symmetry ==
  Permutations({c1, c2}) \cup Permutations(MemProcs) \cup Permutations(MemStreams)

MCInit ==
  /\ subject \in Subjects
  /\ Init /\ GateInit /\ MemInit
  /\ subject # "lifecycle" => active = {}

MCNext ==
  /\ UNCHANGED subject
  /\ \/ subject = "lifecycle" /\ Next /\ UNCHANGED <<gateVars, memVars>>
     \/ subject = "gate" /\ GateNext /\ UNCHANGED <<vars, memVars>>
     \/ subject = "memory" /\ MemNext /\ UNCHANGED <<vars, gateVars>>

MCSpec == MCInit /\ [][MCNext]_<<subject, vars, gateVars, memVars>>
=============================================================================
