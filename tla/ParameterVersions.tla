------------------------- MODULE ParameterVersions -------------------------
(***************************************************************************)
(* Versions of a stream's parameter sets and migrations between them:      *)
(* types/parameter_set_versioning.go, types/parameter_set_migration.go and *)
(* the part of VersionedAddSPS that makes a version (types/parameter_context.go).   *)
(*                                                                         *)
(* The content of a context is one value.  A stored version is never       *)
(* written again, so its checksum always matches and is left out.          *)
(* CreateVersion and Rollback are as many steps as they have sections of   *)
(* ctx.mu; AddSPS keeps ctx.mu while it waits for vm.mu, and Rollback keeps *)
(* vm.mu while it waits for ctx.mu, so that both may wait for ever (see    *)
(* ParameterLocks).  A migration is a goroutine: each of its updates takes *)
(* mm.mu on its own, and Start, Cancel and new versions come in between.   *)
(***************************************************************************)
EXTENDS Integers, Sequences, SequencesExt, FiniteSets

CONSTANTS
  Contents,       \* what a context may hold
  KeptVersions,   \* maxVersions
  MaxHistory,     \* maxHistorySize
  MaxVersion,     \* bound: versions made
  MaxMigrations   \* bound: migrations started

ASSUME VersionsAssumption ==
  /\ KeptVersions \in Nat \ {0} /\ MaxHistory \in Nat \ {0}
  /\ MaxVersion \in Nat /\ MaxMigrations \in Nat

VARIABLES
  holds,       \* content of the context
  current,     \* currentVersion
  versions,    \* version number -> version, for the versions stored
  adding,      \* what AddSPS, holding ctx.mu, is to make a version of
  snapshots,   \* what calls of CreateVersion have copied and not yet stored
  rolling,     \* the Rollback that holds vm.mu: its target and its backup, and
               \* (history) whether the context was written after the backup
  backups,     \* history: backups made since the last cleanup
  replaced,    \* history: what the last Rollback has overwritten, and its backup
  mig,         \* migrations by ID: state, versions, and how far they are
  active,      \* ID of activeMigration, 0 for nil
  succeeded, failed,  \* successfulMigrations, failedMigrations
  history,     \* migrationHistory
  recorded     \* history: all that was ever added to it

setVars == <<holds, current, versions, adding, snapshots, rolling, backups, replaced>>
migVars == <<mig, active, succeeded, failed, history, recorded>>
verVars == <<setVars, migVars>>

Numbers  == 1..MaxVersion
Strategies == {"immediate", "stepwise", "validated"}

-----------------------------------------------------------------------------
(* ParameterSetVersionManager                                              *)

\* the bound: versions that calls under way may still make count too
Room == current + Len(adding) + Len(snapshots) + Len(rolling) < MaxVersion

\* cleanupOldVersions: numbers are counted up from the oldest until the rest
\* fits; the newest stays
CleanupOldVersions(vs, now) ==
  LET from == Min({n \in Min(DOMAIN vs)..now :
                     n = now \/ Cardinality({v \in DOMAIN vs : v >= n}) <= KeptVersions})
  IN  [v \in {w \in DOMAIN vs : w >= from} |-> vs[v]]

WithVersion(v, c) == [w \in DOMAIN versions \cup {v} |->
                       IF w = v THEN [content |-> c, valid |-> TRUE] ELSE versions[w]]

\* the part of CreateVersion and CreateVersionFromSnapshot under vm.mu
Store(c) ==
  /\ rolling = <<>>
  /\ current' = current + 1
  /\ versions' = CleanupOldVersions(WithVersion(current + 1, c), current + 1)
  /\ backups' = 0

\* The context is written, under ctx.mu.
Write(c) ==
  /\ adding = <<>>
  /\ holds' = c
  /\ rolling' = [n \in DOMAIN rolling |-> [rolling[n] EXCEPT !.touched = (rolling[n].backup # 0)]]

\* AddPPS, and AddSPS with an SPS of the same profile, level and size
AddSet(c) ==
  /\ c # holds /\ Write(c)
  /\ UNCHANGED <<current, versions, adding, snapshots, backups, replaced, migVars>>

\* AddSPS with an SPS that changes the configuration: a snapshot is taken and
\* a version made of it, all under ctx.mu
VersionedAddSPS(c) ==
  /\ c # holds /\ Room /\ Write(c)
  /\ adding' = <<c>>
  /\ UNCHANGED <<current, versions, snapshots, backups, replaced, migVars>>

CreateVersionFromSnapshot ==
  /\ adding # <<>> /\ Store(adding[1])
  /\ adding' = <<>>
  /\ UNCHANGED <<holds, snapshots, rolling, replaced, migVars>>

\* CreateVersion, called by a user of the context, copies under ctx.mu
CopySets ==
  /\ adding = <<>> /\ Room
  /\ snapshots' = Append(snapshots, holds)
  /\ UNCHANGED <<holds, current, versions, adding, rolling, backups, replaced, migVars>>

\* and stores under vm.mu
CreateVersion(n) ==
  /\ Store(snapshots[n])
  /\ snapshots' = RemoveAt(snapshots, n)
  /\ UNCHANGED <<holds, adding, rolling, replaced, migVars>>

\* ValidateVersion
IsUsable(v) == v \in DOMAIN versions /\ versions[v].valid

\* Rollback finds its target
Rollback(v) ==
  /\ rolling = <<>> /\ IsUsable(v) /\ Room
  /\ rolling' = <<[to |-> v, backup |-> 0, touched |-> FALSE]>>
  /\ UNCHANGED <<holds, current, versions, adding, snapshots, backups, replaced, migVars>>

\* Mutant of CreateBackupVersion: the backup is a copy of the target.
BackupTarget ==
  /\ rolling # <<>> /\ rolling[1].backup = 0 /\ adding = <<>>
  /\ current' = current + 1
  /\ versions' = WithVersion(current + 1, versions[rolling[1].to].content)
  /\ rolling' = <<[rolling[1] EXCEPT !.backup = current + 1]>>
  /\ backups' = backups + 1
  /\ UNCHANGED <<holds, adding, snapshots, replaced, migVars>>

\* createBackupVersion: what the context holds is stored, without a cleanup
CreateBackupVersion ==
  /\ rolling # <<>> /\ rolling[1].backup = 0 /\ adding = <<>>
  /\ current' = current + 1
  /\ versions' = WithVersion(current + 1, holds)
  /\ rolling' = <<[rolling[1] EXCEPT !.backup = current + 1]>>
  /\ backups' = backups + 1
  /\ UNCHANGED <<holds, adding, snapshots, replaced, migVars>>

\* the rest of Rollback: the target's content is put back and the backup marked
\* invalid
Restore ==
  LET r == rolling[1] IN
  /\ rolling # <<>> /\ r.backup # 0 /\ adding = <<>>
  /\ holds' = versions[r.to].content
  /\ versions' = [versions EXCEPT ![r.backup].valid = FALSE]
  /\ replaced' = <<[backup |-> r.backup, content |-> holds, touched |-> r.touched]>>
  /\ rolling' = <<>>
  /\ UNCHANGED <<current, adding, snapshots, backups, migVars>>

-----------------------------------------------------------------------------
(* ParameterSetMigrationManager                                            *)

MigrationState(m) == mig[m].state

\* StartMigration: only a migration in progress is in the way
StartMigration(from, to, strategy) ==
  /\ Len(mig) < MaxMigrations /\ rolling = <<>>
  /\ active # 0 => MigrationState(active) # "inProgress"
  /\ IsUsable(from) /\ IsUsable(to)
  /\ mig' = Append(mig, [from |-> from, to |-> to, strategy |-> strategy,
                         state |-> "pending", at |-> "start", cancelled |-> FALSE])
  /\ active' = Len(mig) + 1
  /\ UNCHANGED <<setVars, succeeded, failed, history, recorded>>

GoTo(m, state, at) == mig' = [mig EXCEPT ![m].state = state, ![m].at = at]

\* the newest records, as many as are kept
Newest(q) == IF Len(q) > MaxHistory THEN SubSeq(q, Len(q) - MaxHistory + 1, Len(q)) ELSE q

AddToHistory(m) ==
  /\ history' = Newest(Append(history, m))
  /\ recorded' = Append(recorded, m)

\* completeMigration and failMigration: the counter, the history, and active if
\* it is this one
Finish(m, state) ==
  /\ GoTo(m, state, "done")
  /\ succeeded' = IF state = "completed" THEN succeeded + 1 ELSE succeeded
  /\ failed'    = IF state = "failed" THEN failed + 1 ELSE failed
  /\ AddToHistory(m)
  /\ active'    = IF active = m THEN 0 ELSE active

\* executeMigration, up to the first validation step
BeginValidation(m) ==
  /\ mig[m].at = "start"
  /\ GoTo(m, "validating", "validate")
  /\ UNCHANGED <<active, succeeded, failed, history, recorded>>

\* runValidationSteps: the target is newer, the validator has no complaint (it
\* is an input), both versions are still there (a look under vm.mu); then the
\* state is written over whatever it is now
RunValidationSteps(m) ==
  /\ mig[m].at = "validate"
  /\ \/ Finish(m, "failed") \* an older target, or the validator complains
     \/ /\ mig[m].to > mig[m].from /\ rolling = <<>>
        /\ IF IsUsable(mig[m].from) /\ IsUsable(mig[m].to)
           THEN /\ GoTo(m, "inProgress", "migrate")
                /\ UNCHANGED <<active, succeeded, failed, history, recorded>>
           ELSE Finish(m, "failed")

\* execute...Migration: progress in one step, in several, or with another look
\* at the validator
Execute(m) ==
  /\ mig[m].at \in {"migrate", "half"}
  /\ \/ /\ mig[m].strategy \in {"stepwise", "validated"} /\ mig[m].at = "migrate"
        /\ GoTo(m, MigrationState(m), "half")
        /\ UNCHANGED <<active, succeeded, failed, history, recorded>>
     \/ /\ mig[m].strategy = "immediate" \/ mig[m].at = "half"
        /\ Finish(m, "completed")
     \/ /\ mig[m].strategy = "validated" /\ mig[m].at = "half"
        /\ Finish(m, "failed")

MigrationStep(m) ==
  /\ BeginValidation(m) \/ RunValidationSteps(m) \/ Execute(m)
  /\ UNCHANGED setVars

\* CancelMigration marks the active migration failed; its goroutine runs on
CancelMigration ==
  /\ active # 0 /\ MigrationState(active) \in {"inProgress", "validating"}
  /\ mig' = [mig EXCEPT ![active].state = "failed", ![active].cancelled = TRUE]
  /\ failed' = failed + 1
  /\ AddToHistory(active)
  /\ active' = 0
  /\ UNCHANGED <<setVars, succeeded>>

-----------------------------------------------------------------------------
VerInit ==
  /\ holds \in Contents
  /\ current = 0 /\ versions = <<>> /\ adding = <<>> /\ snapshots = <<>>
  /\ rolling = <<>> /\ backups = 0 /\ replaced = <<>>
  /\ mig = <<>> /\ active = 0 /\ succeeded = 0 /\ failed = 0
  /\ history = <<>> /\ recorded = <<>>

VerNext ==
  \/ \E c \in Contents : AddSet(c) \/ VersionedAddSPS(c)
  \/ CreateVersionFromSnapshot
  \/ CopySets
  \/ \E n \in DOMAIN snapshots : CreateVersion(n)
  \/ \E v \in Numbers : Rollback(v)
  \/ CreateBackupVersion
  \/ Restore
  \/ \E v, w \in Numbers, s \in Strategies : StartMigration(v, w, s)
  \/ \E m \in DOMAIN mig : MigrationStep(m)
  \/ CancelMigration

\* a migration's goroutine waits for nothing but timers and vm.mu
VerSpec ==
  /\ VerInit /\ [][VerNext]_verVars
  /\ \A m \in 1..MaxMigrations : WF_verVars(m \in DOMAIN mig /\ MigrationStep(m))

-----------------------------------------------------------------------------
\* The versions stored are the newest ones without a gap, which a cleanup that
\* counts numbers up from the oldest relies on, and no more than maxVersions of
\* them but for the backups made since the last cleanup: rollbacks alone never
\* clean up (parameter_set_versioning.go:372-390, :392).
VersionsKept ==
  \E oldest \in 1..(current + 1) :
    /\ DOMAIN versions = oldest..current
    /\ current > 0 => oldest <= current
    /\ current + 1 - oldest <= KeptVersions + backups

\* What a rollback overwrites is what its backup version holds, as long as that
\* one is kept, unless a parameter set was added between the two sections of
\* ctx.mu: then nothing holds that set any more
\* (parameter_set_versioning.go:197-217).
BackupExact ==
  \A n \in DOMAIN replaced : LET r == replaced[n] IN
    ~r.touched /\ r.backup \in DOMAIN versions => versions[r.backup].content = r.content

Over(state) == {m \in DOMAIN mig : mig[m].at = "done" /\ MigrationState(m) = state}
Cancelled   == {m \in DOMAIN mig : mig[m].cancelled}

\* Every migration is counted as what it came to and recorded once, when it is
\* over, also when a second one is started while the first is still being
\* validated; a migration that was cancelled is counted as failed and recorded
\* then as well, since its goroutine runs on.  The history holds the newest of
\* these records (parameter_set_migration.go:95, :172, :369, :389, :413).
MigrationsCounted ==
  /\ succeeded = Cardinality(Over("completed"))
  /\ failed = Cardinality(Over("failed")) + Cardinality(Cancelled)
  /\ \A m \in DOMAIN mig : Cardinality({n \in DOMAIN recorded : recorded[n] = m}) =
       (IF mig[m].at = "done" THEN 1 ELSE 0) + (IF mig[m].cancelled THEN 1 ELSE 0)
  /\ history = Newest(recorded)

\* The history of a context can be trusted: versions, rollbacks and migrations.
VersionsExact == VersionsKept /\ BackupExact /\ MigrationsCounted
=============================================================================
