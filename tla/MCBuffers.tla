------------------------------ MODULE MCBuffers ------------------------------
(* The places where a stream's data waits: the frame queue with its disk lane, *)
(* the ring and sized buffers, and the pool of ring buffers.  They share no    *)
(* state, so a behaviour exercises one of them, its subject, while the others  *)
(* stay as they were created.                                                  *)
EXTENDS HybridQueue, RingBuffers, BufferPool

CONSTANT Subjects

VARIABLE subject

\* Messages alternate between one and two words of data.
MCSize == [m \in Msgs |-> 1 + ((m + 1) % 2)]

MCInit ==
  /\ subject \in Subjects
  /\ Init /\ RingInit /\ PoolInit
  /\ subject # "rings" => kind = "ring"

\* The buffers come to rest when nothing more is written; the queue never does,
\* so that TLC reports it as a deadlock if all its goroutines wait.
MayStop == subject # "queue" /\ UNCHANGED <<vars, ringVars, poolVars>>

MCNext ==
  /\ UNCHANGED subject
  /\ \/ subject = "queue" /\ Next /\ UNCHANGED <<ringVars, poolVars>>
     \/ subject = "rings" /\ RingNext /\ UNCHANGED <<vars, poolVars>>
     \/ subject = "pool" /\ PoolNext /\ UNCHANGED <<vars, ringVars>>
     \/ MayStop

MCSpec == MCInit /\ [][MCNext]_<<subject, vars, ringVars, poolVars>>

\* The fairness of each module, for its own subject.
MCFairness ==
  /\ \A p \in Producers : WF_vars(subject = "queue" /\ EnqueueReturns(p))
  /\ \A c \in Consumers :
       /\ WF_vars(subject = "queue" /\ Dequeue(c))
       /\ SF_vars(subject = "queue" /\ DequeueReceive(c))
  /\ WF_vars(subject = "queue" /\ Pump)
  /\ WF_vars(subject = "queue" /\ (CloseSignal \/ CloseHandles \/ CloseRemove))
  /\ WF_ringVars(subject = "rings" /\ ReadLocked)
  /\ WF_ringVars(subject = "rings" /\ CloseTell)

MCFairSpec == MCSpec /\ MCFairness
=============================================================================
