--------------------------- MODULE ParameterLocks ---------------------------
(***************************************************************************)
(* The locks of the parameter contexts: ctx.mu of each context             *)
(* (types/parameter_context.go), vm.mu of its version manager and mm.mu of *)
(* its migration manager.  A method is the sequence of what it does to     *)
(* locks; goroutines call methods of their choice.                         *)
(*                                                                         *)
(* sync.RWMutex (external): a Lock that waits holds up every later RLock,  *)
(* also one of a goroutine that already reads.                             *)
(***************************************************************************)
EXTENDS Integers, Sequences, FiniteSets

CONSTANTS
  LockCallers,   \* goroutines
  Contexts,  \* contexts, numbered by their address
  Methods,   \* methods they call
  MaxCalls   \* bound: calls of each

ASSUME LocksAssumption ==
  /\ IsFiniteSet(LockCallers) /\ Contexts \subseteq Nat /\ IsFiniteSet(Contexts)
  /\ Methods \subseteq {"AddSPS", "AddPPS", "CanDecodeFrame", "CopyParameterSetsFrom",
                        "GetStatistics", "CreateVersion", "Rollback", "StartMigration"}
  /\ MaxCalls \in Nat

VARIABLES
  lockTodo,     \* caller -> what is left of its method
  calls,    \* caller -> calls so far
  reading,  \* lock -> caller -> times it holds the lock for reading
  writing,  \* lock -> callers that hold it for writing
  queued    \* lock -> callers that wait in Lock

lockVars == <<lockTodo, calls, reading, writing, queued>>

Locks == {"ctx", "versions", "migrations"} \X Contexts

Do(what, lock)  == [what |-> what, lock |-> lock]
Reading(l, body) == <<Do("RLock", l)>> \o body \o <<Do("RUnlock", l)>>
Writing(l, body) == <<Do("Lock", l)>> \o body \o <<Do("Unlock", l)>>

-----------------------------------------------------------------------------
(* The methods                                                             *)

\* AddSPS: Unlock is deferred, so the version is made under ctx.mu
AddSPSLocks(c) == Writing(<<"ctx", c>>, Writing(<<"versions", c>>, <<>>))
AddPPSLocks(c) == Writing(<<"ctx", c>>, <<>>)

\* CanDecodeFrame, GenerateDecodableStream and GenerateBestEffortStream hold
\* ctx.mu; parseSliceHeader takes it again, twice
ParseSliceHeaderLocks(c) == Reading(<<"ctx", c>>, <<>>) \o Reading(<<"ctx", c>>, <<>>)
CanDecodeFrameLocks(c)   == Reading(<<"ctx", c>>, ParseSliceHeaderLocks(c))

\* Mutant of CopyParameterSetsFromLocks: the destination is locked first.
CopyDestinationFirst(c, d) == Writing(<<"ctx", c>>, Reading(<<"ctx", d>>, <<>>))

\* CopyParameterSetsFrom into c: the lower address first
CopyParameterSetsFromLocks(c, d) ==
  IF c < d THEN Writing(<<"ctx", c>>, Reading(<<"ctx", d>>, <<>>))
           ELSE Reading(<<"ctx", d>>, Writing(<<"ctx", c>>, <<>>))

\* GetStatistics lets ctx.mu go before it asks the managers
GetStatisticsLocks(c) ==
  Reading(<<"ctx", c>>, <<>>) \o Reading(<<"versions", c>>, <<>>)
                              \o Reading(<<"migrations", c>>, <<>>)

CreateVersionLocks(c) == Reading(<<"ctx", c>>, <<>>) \o Writing(<<"versions", c>>, <<>>)

\* Rollback: the backup reads the context, then it is written
RollbackLocks(c) == Writing(<<"versions", c>>, Reading(<<"ctx", c>>, <<>>) \o Writing(<<"ctx", c>>, <<>>))

\* StartMigration validates two versions under mm.mu
StartMigrationLocks(c) ==
  Writing(<<"migrations", c>>, Reading(<<"versions", c>>, <<>>) \o Reading(<<"versions", c>>, <<>>))

Program(m, c, d) ==
  CASE m = "AddSPS" -> AddSPSLocks(c)
    [] m = "AddPPS" -> AddPPSLocks(c)
    [] m = "CanDecodeFrame" -> CanDecodeFrameLocks(c)
    [] m = "CopyParameterSetsFrom" -> CopyParameterSetsFromLocks(c, d)
    [] m = "GetStatistics" -> GetStatisticsLocks(c)
    [] m = "CreateVersion" -> CreateVersionLocks(c)
    [] m = "Rollback" -> RollbackLocks(c)
    [] m = "StartMigration" -> StartMigrationLocks(c)

-----------------------------------------------------------------------------
LockInit ==
  /\ lockTodo = [p \in LockCallers |-> <<>>] /\ calls = [p \in LockCallers |-> 0]
  /\ reading = [l \in Locks |-> [p \in LockCallers |-> 0]]
  /\ writing = [l \in Locks |-> {}] /\ queued = [l \in Locks |-> {}]

Call(p, m, c, d) ==
  /\ lockTodo[p] = <<>> /\ calls[p] < MaxCalls
  /\ m = "CopyParameterSetsFrom" => c # d
  /\ lockTodo' = [lockTodo EXCEPT ![p] = Program(m, c, d)]
  /\ calls' = [calls EXCEPT ![p] = @ + 1]
  /\ UNCHANGED <<reading, writing, queued>>

Next1(p, what) == lockTodo[p] # <<>> /\ Head(lockTodo[p]).what = what
LockOf(p) == Head(lockTodo[p]).lock
Done(p)   == lockTodo' = [lockTodo EXCEPT ![p] = Tail(@)]

RLock(p) ==
  /\ Next1(p, "RLock")
  /\ writing[LockOf(p)] = {} /\ queued[LockOf(p)] = {}
  /\ reading' = [reading EXCEPT ![LockOf(p)][p] = @ + 1]
  /\ Done(p) /\ UNCHANGED <<calls, writing, queued>>

\* Lock announces itself and then waits for the readers to leave
Announce(p) ==
  /\ Next1(p, "Lock") /\ p \notin queued[LockOf(p)]
  /\ queued' = [queued EXCEPT ![LockOf(p)] = @ \cup {p}]
  /\ UNCHANGED <<lockTodo, calls, reading, writing>>

Lock(p) ==
  /\ Next1(p, "Lock") /\ p \in queued[LockOf(p)]
  /\ writing[LockOf(p)] = {} /\ \A q \in LockCallers : reading[LockOf(p)][q] = 0
  /\ queued' = [queued EXCEPT ![LockOf(p)] = @ \ {p}]
  /\ writing' = [writing EXCEPT ![LockOf(p)] = {p}]
  /\ Done(p) /\ UNCHANGED <<calls, reading>>

LockRelease(p) ==
  /\ lockTodo[p] # <<>> /\ Head(lockTodo[p]).what \in {"RUnlock", "Unlock"}
  /\ IF Head(lockTodo[p]).what = "RUnlock"
       THEN reading' = [reading EXCEPT ![LockOf(p)][p] = @ - 1] /\ UNCHANGED writing
       ELSE writing' = [writing EXCEPT ![LockOf(p)] = {}] /\ UNCHANGED reading
  /\ Done(p) /\ UNCHANGED <<calls, queued>>

LockStep(p) == RLock(p) \/ Announce(p) \/ Lock(p) \/ LockRelease(p)

LockNext ==
  \/ \E p \in LockCallers, m \in Methods, c, d \in Contexts : Call(p, m, c, d)
  \/ \E p \in LockCallers : LockStep(p)

\* goroutines are scheduled, and a mutex is handed over in the end
LockSpec == LockInit /\ [][LockNext]_lockVars /\ \A p \in LockCallers : WF_lockVars(LockStep(p))

-----------------------------------------------------------------------------
Waits(p, l) == lockTodo[p] # <<>> /\ Head(lockTodo[p]).what \in {"RLock", "Lock"} /\ LockOf(p) = l

\* AddSPS makes its version under ctx.mu (parameter_context.go:289) while
\* Rollback asks for ctx.mu under vm.mu (parameter_set_versioning.go:177, :203):
\* the two wait for each other, and nothing undoes that.
Inverted ==
  \E p, q \in LockCallers, c \in Contexts :
    /\ writing[<<"ctx", c>>] = {p} /\ Waits(p, <<"versions", c>>)
    /\ writing[<<"versions", c>>] = {q} /\ Waits(q, <<"ctx", c>>)

\* Every call returns, unless an AddSPS and a Rollback of one context have met
\* in the middle: there is no other pair of methods that wait for each other's
\* locks, and none that waits for its own (parameter_context.go:1522, :262;
\* h264_parser.go:498).
EveryCallReturns ==
  (\E p \in LockCallers : lockTodo[p] # <<>>)
    ~> ((\A p \in LockCallers : lockTodo[p] = <<>>) \/ Inverted)
=============================================================================
