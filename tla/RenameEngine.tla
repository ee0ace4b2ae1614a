---------------------------- MODULE RenameEngine ----------------------------
(***************************************************************************)
(* The journaled rename engine of archivefs-core (dat/rename_apply): one   *)
(* approved batch of renames, applied entry by entry with a no-clobber     *)
(* rename, journaled durably before and after every mutation, reconciled   *)
(* against the filesystem after a crash, and rolled back in reverse order. *)
(*                                                                         *)
(* The engine is one thread of control: apply_transaction or               *)
(* rollback_transaction, run to its return.  A step is one journal write   *)
(* with the computation before it, or one rename syscall.  Who starts the  *)
(* engine, and what runs beside it, is left to the modules that extend     *)
(* this one (RenameRecovery, RenameGui).                                   *)
(***************************************************************************)
EXTENDS Naturals, FiniteSets

CONSTANTS
    N,            \* number of entries of the batch
    Paths,        \* file paths
    Src, Dst,     \* source_path and destination_path of each entry
    Objects,      \* filesystem objects: (kind, size, inode, device)
    Regular,      \* the objects that are regular files
    Obj,          \* the identity each entry recorded at review
    CaseTwins,    \* the paths that differ from a path only by case
    Permitted,    \* entries that pass the checks that read no mutable state
    None          \* no object at a path; no transaction

Entries == 1..N

ASSUME BatchAssumption ==
    /\ N \in Nat \ {0}
    /\ Src \in [Entries -> Paths]
    /\ Dst \in [Entries -> Paths]
    /\ Obj \in [Entries -> Objects]
    /\ CaseTwins \in [Paths -> SUBSET Paths]
    /\ \A i, j \in Entries : i # j => Src[i] # Src[j]
    /\ \A i, j \in Entries : Src[i] # Dst[j]

TransactionState == {"Planned", "Applying", "Applied", "ApplyFailed",
                     "RollingBack", "RolledBack", "RollbackFailed"}

EntryState == {"Planned", "Applying", "Applied", "ApplyFailed",
               "RollingBack", "RolledBack", "RollbackFailed", "Skipped"}

Transactions == [state : TransactionState, est : [Entries -> EntryState]]

ASSUME PathsAssumption == IsFiniteSet(Paths)

ASSUME NoneAssumption == None \notin Objects \cup Transactions

HardConflictMode == {"AbortAll", "SkipUnsafeSubset"}

ApplyPhases == {"preflight", "batch", "begin", "loop", "rename", "confirm", "fail", "finish"}
RollbackPhases == {"rbReconcile", "rbEnter", "rbLoop", "rbCheck", "rbRename",
                   "rbConfirm", "rbFail", "rbFinal"}
Phases == {"idle"} \cup ApplyPhases \cup RollbackPhases

Results == {"none", "outcome", "conflicts", "error", "rolledBack", "rollbackIncomplete"}

VARIABLES
    fs,       \* what is at each path
    disk,     \* the durable journal, or None before the first write
    mem,      \* the running engine's copy of the transaction, or None
    pc,       \* where the engine is
    idx,      \* the entry its loop is at
    bad,      \* entries that failed the batch preflight
    mode,     \* the hard-conflict mode of the apply
    result    \* what the last call returned

engineVars == <<fs, disk, mem, pc, idx, bad, mode, result>>

-----------------------------------------------------------------------------
(* Pure parts *)

\* The transaction build_transaction returns: everything Planned.
BuiltTransaction ==
    [state |-> "Planned", est |-> [i \in Entries |-> "Planned"]]

InFlight(tx) == {i \in Entries : tx.est[i] \in {"Applying", "RollingBack"}}

needs_recovery(tx) ==
    tx.state \in {"Planned", "Applying", "ApplyFailed", "RollingBack", "RollbackFailed"}

is_rollbackable(tx) ==
    \/ tx.state = "Applied" /\ \E i \in Entries : tx.est[i] = "Applied"
    \/ needs_recovery(tx)

\* Another entry of the batch has the same destination.
ConflictingBatchTarget(i) == \E j \in Entries \ {i} : Dst[j] = Dst[i]

\* run_preflight: the recorded regular file is still at the source, nothing is
\* at the destination or at a name that differs from it only by case.
run_preflight(i) ==
    /\ i \in Permitted
    /\ fs[Src[i]] = Obj[i]
    /\ Obj[i] \in Regular
    /\ fs[Dst[i]] = None
    /\ \A p \in CaseTwins[Dst[i]] \ {Src[i], Dst[i]} : fs[p] = None
    /\ ~ConflictingBatchTarget(i)

\* classify_entry: RenameDidNotHappen and RenameConfirmed.
OnlyAtSource(i) == fs[Src[i]] = Obj[i] /\ fs[Dst[i]] = None
OnlyAtDestination(i) == fs[Src[i]] = None /\ fs[Dst[i]] = Obj[i]

\* The state reconcile_recovery gives an entry.
ReconciledEntry(s, i) ==
    CASE s = "Applying" /\ OnlyAtSource(i) -> "Skipped"
      [] s = "RollingBack" /\ OnlyAtSource(i) -> "RolledBack"
      [] s \in {"Applying", "RollingBack"} /\ OnlyAtDestination(i) -> "Applied"
      [] OTHER -> s

\* reconcile_transaction_level_state
SettledClean(est) == \A i \in Entries : est[i] \in {"Applied", "Skipped"}

Reconciled(tx) ==
    LET est == [i \in Entries |-> ReconciledEntry(tx.est[i], i)]
    IN  [state |-> IF tx.state = "Applying" /\ SettledClean(est)
                   THEN "Applied" ELSE tx.state,
         est |-> est]

WithEntry(tx, i, s) == [tx EXCEPT !.est[i] = s]
WithState(tx, s) == [tx EXCEPT !.state = s]

-----------------------------------------------------------------------------
(* The two effects: a journal write and a rename. *)

\* Mutant: the call returns and its copy of the transaction stays.
IdleKeepsTransaction(res) ==
    /\ pc' = "idle"
    /\ idx' = 0
    /\ bad' = {}
    /\ result' = res
    /\ UNCHANGED mem

\* The call returns res.
Idle(res) ==
    /\ pc' = "idle"
    /\ mem' = None
    /\ idx' = 0
    /\ bad' = {}
    /\ result' = res

\* write_journal fails: the call returns the error, the journal is unchanged.
WriteFails ==
    /\ Idle("error")
    /\ UNCHANGED <<disk, fs, mode>>

\* write_journal(tx), after which the engine goes on at next, index i.
WriteThen(tx, next, i) ==
    \/ /\ disk' = tx
       /\ mem' = tx
       /\ pc' = next
       /\ idx' = i
       /\ UNCHANGED <<fs, bad, mode, result>>
    \/ WriteFails

\* write_journal(tx) as the last act of the call.
WriteAndReturn(tx, res) ==
    \/ /\ disk' = tx
       /\ Idle(res)
       /\ UNCHANGED <<fs, mode>>
    \/ WriteFails

\* Continue at next without writing.
Continue(tx, next, i) ==
    /\ mem' = tx
    /\ pc' = next
    /\ idx' = i
    /\ UNCHANGED <<fs, disk, bad, mode, result>>

\* Mutant: rename(2), which replaces the destination.
CanRenameOver(from, to) == fs[from] # None

\* renameat2(RENAME_NOREPLACE): refused when the destination exists.
CanRename(from, to) == fs[from] # None /\ fs[to] = None

rename_noreplace(from, to) ==
    /\ CanRename(from, to)
    /\ fs' = [fs EXCEPT ![to] = fs[from], ![from] = None]

-----------------------------------------------------------------------------
(* apply_transaction *)

BeginApply(m) ==
    /\ pc' = "preflight"
    /\ mem' = BuiltTransaction
    /\ idx' = 1
    /\ bad' = {}
    /\ mode' = m
    /\ result' = "none"
    /\ UNCHANGED <<fs, disk>>

\* Cancelled, or the plan is stale: refused before anything is looked at.
RefusedAtStart ==
    /\ pc = "preflight"
    /\ idx = 1
    /\ Idle("error")
    /\ UNCHANGED <<fs, disk, mode>>

BatchPreflight ==
    /\ pc = "preflight"
    /\ idx \in Entries
    /\ bad' = IF run_preflight(idx) THEN bad ELSE bad \cup {idx}
    /\ idx' = idx + 1
    /\ pc' = IF idx = N THEN "batch" ELSE "preflight"
    /\ UNCHANGED <<fs, disk, mem, mode, result>>

\* AbortAll refuses a batch with a conflict: no journal, no rename.
RefuseHardConflicts ==
    /\ pc = "batch"
    /\ mode = "AbortAll"
    /\ bad # {}
    /\ Idle("conflicts")
    /\ UNCHANGED <<fs, disk, mode>>

\* The first journal write, before any rename.
JournalBatch ==
    /\ pc = "batch"
    /\ mode = "SkipUnsafeSubset" \/ bad = {}
    /\ WriteThen([mem EXCEPT !.est = [i \in Entries |->
                                        IF i \in bad THEN "Skipped" ELSE mem.est[i]]],
                 "begin", idx)

EverythingSkipped ==
    /\ pc = "begin"
    /\ \A i \in Entries : mem.est[i] = "Skipped"
    /\ WriteAndReturn(WithState(mem, "ApplyFailed"), "outcome")

StartApplying ==
    /\ pc = "begin"
    /\ \E i \in Entries : mem.est[i] # "Skipped"
    /\ WriteThen(WithState(mem, "Applying"), "loop", 1)

ApplyCancelled ==
    /\ pc = "loop"
    /\ idx \in Entries
    /\ WriteAndReturn(WithState(mem, "ApplyFailed"), "outcome")

\* Mutant: the loop index is not advanced.
SkipEntryForever ==
    /\ pc = "loop"
    /\ idx \in Entries
    /\ mem.est[idx] = "Skipped"
    /\ Continue(mem, "loop", idx)

SkipEntry ==
    /\ pc = "loop"
    /\ idx \in Entries
    /\ mem.est[idx] = "Skipped"
    /\ Continue(mem, "loop", idx + 1)

\* Mutant: the failed entry is recorded and the loop goes on.
FailEntryAndGoOn ==
    Continue(WithState(WithEntry(mem, idx, "ApplyFailed"), "ApplyFailed"), "loop", idx + 1)

\* The entry failed: it and the transaction are marked, the batch will stop.
FailEntry ==
    Continue(WithState(WithEntry(mem, idx, "ApplyFailed"), "ApplyFailed"), "fail", idx)

PreflightRefuses ==
    /\ pc = "loop"
    /\ idx \in Entries
    /\ mem.est[idx] # "Skipped"
    /\ ~run_preflight(idx)
    /\ FailEntry

\* Mutant: the Applying state is kept in memory only.
CheckpointInMemory ==
    /\ pc = "loop"
    /\ idx \in Entries
    /\ mem.est[idx] # "Skipped"
    /\ run_preflight(idx)
    /\ Continue(WithEntry(mem, idx, "Applying"), "rename", idx)

\* The durable Applying checkpoint, before the rename.
CheckpointApplying ==
    /\ pc = "loop"
    /\ idx \in Entries
    /\ mem.est[idx] # "Skipped"
    /\ run_preflight(idx)
    /\ WriteThen(WithEntry(mem, idx, "Applying"), "rename", idx)

Rename ==
    /\ pc = "rename"
    /\ rename_noreplace(Src[idx], Dst[idx])
    /\ pc' = "confirm"
    /\ UNCHANGED <<disk, mem, idx, bad, mode, result>>

\* rename_noreplace returned an error: the source is gone, the destination
\* appeared, or the syscall failed for a reason of its own.
RenameFails ==
    /\ pc = "rename"
    /\ FailEntry

confirm_rename(i) == OnlyAtDestination(i)

ConfirmApplied ==
    /\ pc = "confirm"
    /\ confirm_rename(idx)
    /\ WriteThen(WithEntry(mem, idx, "Applied"), "loop", idx + 1)

ConfirmFails ==
    /\ pc = "confirm"
    /\ ~confirm_rename(idx)
    /\ FailEntry

\* The failure is journaled before the loop is left.
JournalFailure ==
    /\ pc = "fail"
    /\ WriteThen(mem, "finish", idx)

FinishApply ==
    /\ pc = "finish" \/ (pc = "loop" /\ idx = N + 1)
    /\ WriteAndReturn(IF mem.state = "Applying" THEN WithState(mem, "Applied") ELSE mem,
                      "outcome")

ApplyStep ==
    \/ BatchPreflight \/ RefuseHardConflicts \/ JournalBatch
    \/ EverythingSkipped \/ StartApplying
    \/ SkipEntry \/ PreflightRefuses \/ CheckpointApplying
    \/ Rename \/ RenameFails \/ ConfirmApplied \/ ConfirmFails
    \/ JournalFailure \/ FinishApply

-----------------------------------------------------------------------------
(* rollback_transaction *)

\* The caller hands over the transaction it has read; what it did to the
\* journal before the call is its own (disk').
BeginRollback(tx) ==
    /\ pc' = "rbReconcile"
    /\ mem' = tx
    /\ idx' = N
    /\ bad' = {}
    /\ result' = "none"
    /\ UNCHANGED <<fs, mode>>

RollbackAlreadyDone ==
    /\ pc = "rbReconcile"
    /\ mem.state = "RolledBack"
    /\ Idle("rolledBack")
    /\ UNCHANGED <<fs, disk, mode>>

RollbackReconciles ==
    /\ pc = "rbReconcile"
    /\ mem.state # "RolledBack"
    /\ IF Reconciled(mem) # mem
       THEN WriteThen(Reconciled(mem), "rbEnter", idx)
       ELSE Continue(mem, "rbEnter", idx)

RollbackUnresolved ==
    /\ pc = "rbEnter"
    /\ InFlight(mem) # {}
    /\ WriteAndReturn(WithState(mem, "RollbackFailed"), "rollbackIncomplete")

\* Mutant: an unresolved entry does not block the pass.
EnterRollbackAnyway ==
    /\ pc = "rbEnter"
    /\ WriteThen(WithState(mem, "RollingBack"), "rbLoop", N)

EnterRollback ==
    /\ pc = "rbEnter"
    /\ InFlight(mem) = {}
    /\ WriteThen(WithState(mem, "RollingBack"), "rbLoop", N)

RollbackCancelled ==
    /\ pc = "rbLoop"
    /\ idx \in Entries
    /\ Continue(mem, "rbFinal", idx)

RollbackSkipsEntry ==
    /\ pc = "rbLoop"
    /\ idx \in Entries
    /\ mem.est[idx] # "Applied"
    /\ Continue(mem, IF idx = 1 THEN "rbFinal" ELSE "rbLoop", idx - 1)

\* The durable RollingBack checkpoint, before the reverse rename.
CheckpointRollingBack ==
    /\ pc = "rbLoop"
    /\ idx \in Entries
    /\ mem.est[idx] = "Applied"
    /\ WriteThen(WithEntry(mem, idx, "RollingBack"), "rbCheck", idx)

RollbackEntryFails == Continue(WithEntry(mem, idx, "RollbackFailed"), "rbFail", idx)

\* The destination must still be the recorded object and the source free.
RollbackChecks ==
    /\ pc = "rbCheck"
    /\ IF OnlyAtDestination(idx)
       THEN Continue(mem, "rbRename", idx)
       ELSE RollbackEntryFails

ReverseRename ==
    /\ pc = "rbRename"
    /\ rename_noreplace(Dst[idx], Src[idx])
    /\ pc' = "rbConfirm"
    /\ UNCHANGED <<disk, mem, idx, bad, mode, result>>

ReverseRenameFails ==
    /\ pc = "rbRename"
    /\ RollbackEntryFails

ConfirmRolledBack ==
    /\ pc = "rbConfirm"
    /\ fs[Src[idx]] = Obj[idx]
    /\ WriteThen(WithEntry(mem, idx, "RolledBack"),
                 IF idx = 1 THEN "rbFinal" ELSE "rbLoop", idx - 1)

RestoredIdentityDiffers ==
    /\ pc = "rbConfirm"
    /\ fs[Src[idx]] # Obj[idx]
    /\ RollbackEntryFails

RollbackStopped ==
    /\ pc = "rbFail"
    /\ WriteAndReturn(WithState(mem, "RollbackFailed"), "rollbackIncomplete")

\* Mutant: entries a cancelled pass left Applied are not counted.
RemainingInFlight(tx) == {i \in Entries : tx.est[i] = "RollingBack"}

RemainingIncomplete(tx) == {i \in Entries : tx.est[i] \in {"Applied", "RollingBack"}}

FinishRollback ==
    /\ pc = "rbFinal"
    /\ IF RemainingIncomplete(mem) = {}
       THEN WriteAndReturn(WithState(mem, "RolledBack"), "rolledBack")
       ELSE WriteAndReturn(WithState(mem, "RollbackFailed"), "rollbackIncomplete")

RollbackStep ==
    \/ RollbackAlreadyDone \/ RollbackReconciles \/ RollbackUnresolved \/ EnterRollback
    \/ RollbackSkipsEntry \/ CheckpointRollingBack
    \/ RollbackChecks \/ ReverseRename \/ ReverseRenameFails
    \/ ConfirmRolledBack \/ RestoredIdentityDiffers \/ RollbackStopped \/ FinishRollback

\* The caller's cancel flag is seen at the start of an apply and at the head of
\* either loop.
CancelStep == RefusedAtStart \/ ApplyCancelled \/ RollbackCancelled

-----------------------------------------------------------------------------
\* The engine at rest with a built, never journaled transaction: every source
\* holds the object its entry recorded.
EngineInit ==
    /\ fs \in [Paths -> Objects \cup {None}]
    /\ \A i \in Entries : fs[Src[i]] = Obj[i]
    /\ disk = None
    /\ mem = None
    /\ pc = "idle"
    /\ idx = 0
    /\ bad = {}
    /\ mode = "AbortAll"
    /\ result = "none"

\* The process that runs the engine dies: what is only in memory is gone.
EngineCrash ==
    /\ pc # "idle"
    /\ Idle("none")
    /\ UNCHANGED <<fs, disk, mode>>

EngineTypeOK ==
    /\ fs \in [Paths -> Objects \cup {None}]
    /\ disk \in Transactions \cup {None}
    /\ mem \in Transactions \cup {None}
    /\ pc \in Phases
    /\ idx \in 0..(N + 1)
    /\ bad \in SUBSET Entries
    /\ mode \in HardConflictMode
    /\ result \in Results
    /\ (mem = None) <=> (pc = "idle")

\* What the state of entry i in tx says of the filesystem.
EntryTruth(tx, i) ==
    /\ tx.est[i] \in {"Planned", "Skipped", "ApplyFailed", "RolledBack"}
         => fs[Src[i]] = Obj[i]
    /\ tx.est[i] \in {"Applied", "RollbackFailed"} => OnlyAtDestination(i)
    /\ tx.est[i] \in {"Applying", "RollingBack"}
         => OnlyAtSource(i) \/ OnlyAtDestination(i)
=============================================================================
