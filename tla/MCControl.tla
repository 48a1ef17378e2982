------------------------------ MODULE MCControl ------------------------------
(* Calls that have to come back: the stream API against connections and        *)
(* shutdown, the RTP session table, the locks of the parameter contexts, smart *)
(* recovery and the reconnect loop.  A behaviour exercises one of them while   *)
(* the others stay as they were created.                                       *)
EXTENDS StreamLifecycle, RTPSessions, ParameterLocks, SmartRecovery, Reconnect

CONSTANTS Subjects, c1, s1, t1, p1, r1

VARIABLE subject

\* One connection, and one API call of each kind on its stream.
OneStream == [c \in Conns |-> s1]
OnS1 == [o \in Ops |-> s1]
OpKind == [o \in Ops |->
             CASE o = t1 -> "terminate" [] o = p1 -> "pause" [] o = r1 -> "resume"]

MCInit ==
  /\ subject \in Subjects
  /\ Init /\ SessInit /\ LockInit /\ SmartInit /\ ReInit

MCNext ==
  /\ UNCHANGED subject
  /\ \/ subject = "streams" /\ Next /\ UNCHANGED <<sessVars, lockVars, smartVars, reVars>>
     \/ subject = "sessions" /\ SessNext /\ UNCHANGED <<vars, lockVars, smartVars, reVars>>
     \/ subject = "locks" /\ LockNext /\ UNCHANGED <<vars, sessVars, smartVars, reVars>>
     \/ subject = "smart" /\ SmartNext /\ UNCHANGED <<vars, sessVars, lockVars, reVars>>
     \/ subject = "reconnect" /\ ReNext /\ UNCHANGED <<vars, sessVars, lockVars, smartVars>>

MCSpec == MCInit /\ [][MCNext]_<<subject, vars, sessVars, lockVars, smartVars, reVars>>

\* The fairness of each module, for its own subject.
MCFairness ==
  /\ \A c \in Conns :
       /\ WF_vars(subject = "streams" /\ HandleSRTConnection(c))
       /\ WF_vars(subject = "streams" /\ StartHandler(c))
       /\ WF_vars(subject = "streams" /\ Close(c))
       /\ WF_vars(subject = "streams" /\
                    (AcceptStores(c) \/ AcceptDuplicate(c) \/ DuplicateClosed(c)))
  /\ \A o \in Ops :
       WF_vars(subject = "streams" /\ pc[o] # "idle" /\ (TerminateStream(o) \/ PauseResume(o)))
  /\ WF_vars(subject = "streams" /\
               (ListenerStopped \/ StopOneHandler \/ ClearHandlers \/ Stop(Mgr)))
  /\ WF_sessVars(subject = "sessions" /\ RouterStep)
  /\ WF_sessVars(subject = "sessions" /\ StopSessions)
  /\ \A i \in Ids : WF_sessVars(subject = "sessions" /\ HandlerStep(i))
  /\ \A p \in LockCallers : WF_lockVars(subject = "locks" /\ LockStep(p))
  /\ \A a \in Actors : WF_smartVars(subject = "smart" /\ HandlingStep(a))
  /\ \A g \in Spawned : WF_smartVars(subject = "smart" /\ SpawnedStep(g))
  /\ \A l \in Loops : WF_reVars(subject = "reconnect" /\ LoopStep(l))

MCFairSpec == MCSpec /\ MCFairness
=============================================================================
