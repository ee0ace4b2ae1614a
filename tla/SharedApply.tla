---------------------------- MODULE SharedApply -----------------------------
(***************************************************************************)
(* The shared safe apply and rollback of archivefs-core                    *)
(* (patch_manager/shared_transaction.rs): reviewed operations that install *)
(* or replace cheat files under one destination root, each under an        *)
(* advisory lock of that root, with a backup of what it replaces and a     *)
(* write-once journal that makes it undoable.                              *)
(*                                                                         *)
(* Every operation is run by a process of its own: its apply, and later    *)
(* its rollbacks, one call at a time.  A step is one change of the         *)
(* filesystem with the checks just before it.  The user (or an emulator)   *)
(* changes the same files whenever the lock is free.                       *)
(***************************************************************************)
EXTENDS Naturals, Sequences, FiniteSets

CONSTANTS
    Ops,            \* operations, each with an operation id of its own
    Files,          \* destination files
    Dirs,           \* their parents, one level below the destination root
    Dir,            \* the parent of each file
    Contents,       \* digests of file contents
    UserContents,   \* the contents the user writes
    FirstContents,  \* what each file may hold at first, copied there by hand
    New,            \* the approved source content of each operation
    Targets,        \* the files of each operation, in plan order
    IoErrors,       \* a system call may fail
    None            \* no file; no lock; nothing reviewed

ASSUME SharedAssumption ==
    /\ Dir \in [Files -> Dirs]
    /\ UserContents \subseteq Contents
    /\ FirstContents \in [Files -> SUBSET Contents]
    /\ New \in [Ops -> Contents \ UserContents]
    /\ Targets \in [Ops -> Seq(Files)]
    /\ \A o \in Ops : Targets[o] # <<>>
    /\ \A o \in Ops : \A i, j \in DOMAIN Targets[o] : Targets[o][i] = Targets[o][j] => i = j
    /\ IoErrors \in BOOLEAN
    /\ None \notin Contents \cup Ops

Outcomes == {"Pending", "InstalledNew", "ReplacedExisting", "AlreadyInstalled",
             "Failed", "BackupFailed"}

\* What the journal keeps of an operation: the reviewed state of each file, the
\* parents the review found missing, each entry's outcome and whether it created
\* its parent.
Records == [pre : [Files -> Contents \cup {None}], missing : SUBSET Dirs,
            out : [Files -> Outcomes], made : SUBSET Files]

ASSUME RecordAssumption == None \notin Records

ApplyPhases == {"lock", "check", "parent", "backup", "write", "verify", "restore",
                "unlock", "journal"}
RollbackPhases == {"rbLock", "rbEntry", "rbMarker"}
Phases == {"new", "review", "done"} \cup ApplyPhases \cup RollbackPhases

VARIABLES
    dest,       \* the content of each destination file
    dirs,       \* the parents that exist
    lock,       \* the operation whose process holds the root lock
    ph, at,     \* where each operation's process is, and at which entry
    rec,        \* the record each operation builds, or None
    journaled,  \* operations whose record is written to the history root
    backup,     \* the backups below the managed backup root
    backupDir,  \* operations whose backup directory exists
    marker,     \* operations with a rollback marker
    undone,     \* the entries the running rollback has dealt with
    user,       \* history variable: what the user last left at each file
    writer,     \* history variable: the apply that wrote what is there now
    stale       \* history variable: a rollback got the lock after its preview had expired

vars == <<dest, dirs, lock, ph, at, rec, journaled, backup, backupDir, marker, undone,
          user, writer, stale>>
managed == <<journaled, backup, backupDir, marker>>
history == <<user, writer, stale>>

-----------------------------------------------------------------------------
(* Pure parts *)

Entry(o) == Targets[o][at[o]]
InPlan(o) == {Targets[o][i] : i \in DOMAIN Targets[o]}

\* The action the preview proposes for a file it found with content c.
ProposedAction(o, c) ==
    CASE c = None -> "Install"
      [] c = New[o] -> "Skip"
      [] OTHER -> "Replace"

\* The entries the journal calls changed, all that a rollback acts on.  An entry that
\* was renamed into place and then failed its read-back is journaled as failed and
\* is not among them.
Changed(o) == {f \in InPlan(o) : rec[o].out[f] \in {"InstalledNew", "ReplacedExisting"}}

\* rollback_entry_preview: an entry of a journaled operation is still as the
\* apply left it and what it replaced is in its backup.
EntryAvailable(o, f) ==
    /\ dest[f] = New[o]
    /\ rec[o].out[f] = "ReplacedExisting" => backup[o][f] = rec[o].pre[f]

\* preview_shared_rollback: every changed entry can be undone, and there is one.
RollbackAvailable(o) ==
    /\ o \in journaled
    /\ o \notin marker
    /\ Changed(o) # {}
    /\ \A f \in Changed(o) : EntryAvailable(o, f)

Filled(d) == \E f \in Files : Dir[f] = d /\ dest[f] # None

\* Mutant: the parent is taken for empty.
NoSiblings(f) == FALSE

HasSiblings(f) == \E g \in Files \ {f} : Dir[g] = Dir[f] /\ dest[g] # None

Go(o, p) == ph' = [ph EXCEPT ![o] = p]

\* The call returns: its loop variables are gone.
Return(o) ==
    /\ ph' = [ph EXCEPT ![o] = "done"]
    /\ at' = [at EXCEPT ![o] = 1]
    /\ undone' = [undone EXCEPT ![o] = {}]

\* Mutant: the lock is kept until the process ends.
KeepLock(o) == UNCHANGED lock

ReleaseLock(o) == lock' = IF lock = o THEN None ELSE lock

-----------------------------------------------------------------------------
(* Preview, plan and confirmation *)

build_shared_transaction_plan(o) ==
    /\ ph[o] = "new"
    /\ Go(o, "review")
    /\ rec' = [rec EXCEPT ![o] =
                 [pre |-> [f \in Files |-> IF f \in InPlan(o) THEN dest[f] ELSE None],
                  missing |-> Dirs \ dirs,
                  out |-> [f \in Files |-> "Pending"], made |-> {}]]
    /\ UNCHANGED <<dest, dirs, lock, at, managed, undone, history>>

\* execute_shared_apply, up to the lock: the plan is confirmed.
ConfirmApply(o) ==
    /\ ph[o] = "review"
    /\ Go(o, "lock")
    /\ UNCHANGED <<dest, dirs, lock, at, rec, managed, undone, history>>

AcquireForApply(o) ==
    /\ ph[o] = "lock"
    /\ lock = None
    /\ lock' = o
    /\ Go(o, "check")
    /\ at' = [at EXCEPT ![o] = 1]
    /\ UNCHANGED <<dest, dirs, rec, managed, undone, history>>

\* The destination root is busy for five seconds, or cannot be opened: nothing is done.
ApplyLockTimeout(o) ==
    /\ ph[o] = "lock"
    /\ lock # None \/ IoErrors
    /\ Return(o)
    /\ rec' = [rec EXCEPT ![o] = None]
    /\ UNCHANGED <<dest, dirs, lock, managed, history>>

-----------------------------------------------------------------------------
(* apply_one *)

\* The entry's outcome is recorded; the loop goes on with the next entry.
Finish(o, outcome) ==
    /\ rec' = [rec EXCEPT ![o].out[Entry(o)] = outcome]
    /\ IF at[o] = Len(Targets[o])
       THEN Go(o, "unlock") /\ UNCHANGED at
       ELSE Go(o, "check") /\ at' = [at EXCEPT ![o] = @ + 1]

AfterParent(o) ==
    IF ProposedAction(o, rec[o].pre[Entry(o)]) = "Replace" THEN "backup" ELSE "write"

\* Mutant: the destination is not compared with the reviewed one.
AnyDestination(o) == TRUE

\* The destination's state and digest are the reviewed ones.
AsReviewed(o) == dest[Entry(o)] = rec[o].pre[Entry(o)]

CheckPasses(o) ==
    /\ ph[o] = "check"
    /\ AsReviewed(o)
    /\ ProposedAction(o, rec[o].pre[Entry(o)]) # "Skip"
    /\ Go(o, IF Dir[Entry(o)] \in dirs THEN AfterParent(o) ELSE "parent")
    /\ UNCHANGED <<dest, dirs, lock, at, rec, managed, undone, history>>

AlreadyInstalled(o) ==
    /\ ph[o] = "check"
    /\ AsReviewed(o)
    /\ ProposedAction(o, rec[o].pre[Entry(o)]) = "Skip"
    /\ Finish(o, "AlreadyInstalled")
    /\ UNCHANGED <<dest, dirs, lock, managed, undone, history>>

\* The destination changed since the review; or the source did, a limit is
\* reached, the destination is unsafe or its replacement is not approved.
EntryRefused(o) ==
    /\ ph[o] = "check"
    /\ Finish(o, "Failed")
    /\ UNCHANGED <<dest, dirs, lock, managed, undone, history>>

\* create_one_parent, when the preview announced it.
CreateParent(o) ==
    /\ ph[o] = "parent"
    /\ Dir[Entry(o)] \in rec[o].missing
    /\ dirs' = dirs \cup {Dir[Entry(o)]}
    /\ rec' = [rec EXCEPT ![o].made = @ \cup {Entry(o)}]
    /\ Go(o, AfterParent(o))
    /\ UNCHANGED <<dest, lock, at, managed, undone, history>>

\* The preview did not announce it; or it cannot be created, or not inspected
\* after its creation, and then no entry claims it.
ParentFails(o) ==
    /\ ph[o] = "parent"
    /\ \/ Dir[Entry(o)] \notin rec[o].missing /\ UNCHANGED dirs
       \/ IoErrors /\ dirs' \in {dirs, dirs \cup {Dir[Entry(o)]}}
    /\ Finish(o, "Failed")
    /\ UNCHANGED <<dest, lock, managed, undone, history>>

\* Mutant: the file is replaced without a backup.
skip_backup(o) ==
    /\ ph[o] = "backup"
    /\ Go(o, "write")
    /\ UNCHANGED <<dest, dirs, lock, at, rec, managed, undone, history>>

\* The operation's backup directory is created, then the backup in it.
create_backup(o) ==
    /\ ph[o] = "backup"
    /\ o \notin backupDir
    /\ backupDir' = backupDir \cup {o}
    /\ backup' = [backup EXCEPT ![o][Entry(o)] = dest[Entry(o)]]
    /\ Go(o, "write")
    /\ UNCHANGED <<dest, dirs, lock, at, rec, journaled, marker, undone, history>>

\* create_dir refuses a directory that exists; or a call fails: before the
\* directory is made, after it, or after the backup is written.
BackupFails(o) ==
    /\ ph[o] = "backup"
    /\ \/ (o \in backupDir \/ IoErrors) /\ UNCHANGED <<backup, backupDir>>
       \/ /\ IoErrors
          /\ o \notin backupDir
          /\ backupDir' = backupDir \cup {o}
          /\ backup' \in {backup, [backup EXCEPT ![o][Entry(o)] = dest[Entry(o)]]}
    /\ Finish(o, "BackupFailed")
    /\ UNCHANGED <<dest, dirs, lock, journaled, marker, undone, history>>

\* atomic_write: an install refuses to replace, a replacement does not look.
WriteDestination(o) ==
    /\ ph[o] = "write"
    /\ Dir[Entry(o)] \in dirs
    /\ ProposedAction(o, rec[o].pre[Entry(o)]) = "Install" => dest[Entry(o)] = None
    /\ dest' = [dest EXCEPT ![Entry(o)] = New[o]]
    /\ writer' = [writer EXCEPT ![Entry(o)] = o]
    /\ Go(o, "verify")
    /\ UNCHANGED <<dirs, lock, at, rec, managed, undone, user, stale>>

WriteFails(o) ==
    /\ ph[o] = "write"
    /\ IoErrors
    /\ Finish(o, "Failed")
    /\ UNCHANGED <<dest, dirs, lock, managed, undone, history>>

Verified(o) ==
    /\ ph[o] = "verify"
    /\ dest[Entry(o)] = New[o]
    /\ Finish(o, IF ProposedAction(o, rec[o].pre[Entry(o)]) = "Install"
                 THEN "InstalledNew" ELSE "ReplacedExisting")
    /\ UNCHANGED <<dest, dirs, lock, managed, undone, history>>

\* The renamed file cannot be read back: the entry fails and the file stays.
ReadBackFails(o) ==
    /\ ph[o] = "verify"
    /\ IoErrors
    /\ Finish(o, "Failed")
    /\ UNCHANGED <<dest, dirs, lock, managed, undone, history>>

\* verify_entry_content rejects what was written.
ContentRejected(o) ==
    /\ ph[o] = "verify"
    /\ Go(o, "restore")
    /\ UNCHANGED <<dest, dirs, lock, at, rec, managed, undone, history>>

\* An installed file is removed, a replaced one comes back from its backup.
restore_after_failed_verification(o) ==
    /\ ph[o] = "restore"
    /\ dest' = [dest EXCEPT ![Entry(o)] =
                  IF ProposedAction(o, rec[o].pre[Entry(o)]) = "Install"
                  THEN None ELSE backup[o][Entry(o)]]
    /\ writer' = [writer EXCEPT ![Entry(o)] = None]
    /\ Finish(o, "Failed")
    /\ UNCHANGED <<dirs, lock, managed, undone, user, stale>>

RestoreFails(o) ==
    /\ ph[o] = "restore"
    /\ IoErrors
    /\ Finish(o, "Failed")
    /\ UNCHANGED <<dest, dirs, lock, managed, undone, history>>

\* The lock is dropped before the journal is written.
DropLock(o) ==
    /\ ph[o] = "unlock"
    /\ ReleaseLock(o)
    /\ Go(o, "journal")
    /\ UNCHANGED <<dest, dirs, at, rec, managed, undone, history>>

write_journal_once(o) ==
    /\ ph[o] = "journal"
    /\ journaled' = journaled \cup {o}
    /\ Return(o)
    /\ UNCHANGED <<dest, dirs, lock, rec, backup, backupDir, marker, history>>

\* Reported as a partial failure; the record is gone with the result.
JournalFails(o) ==
    /\ ph[o] = "journal"
    /\ IoErrors
    /\ Return(o)
    /\ rec' = [rec EXCEPT ![o] = None]
    /\ UNCHANGED <<dest, dirs, lock, managed, history>>

ApplyStep(o) ==
    \/ AcquireForApply(o) \/ ApplyLockTimeout(o)
    \/ CheckPasses(o) \/ AlreadyInstalled(o) \/ EntryRefused(o)
    \/ CreateParent(o) \/ ParentFails(o)
    \/ create_backup(o) \/ BackupFails(o)
    \/ WriteDestination(o) \/ WriteFails(o)
    \/ Verified(o) \/ ReadBackFails(o) \/ ContentRejected(o)
    \/ restore_after_failed_verification(o) \/ RestoreFails(o)
    \/ DropLock(o) \/ write_journal_once(o) \/ JournalFails(o)

-----------------------------------------------------------------------------
(* execute_shared_rollback *)

\* The fresh preview equals the confirmed one and is available.
ConfirmRollback(o) ==
    /\ ph[o] = "done"
    /\ RollbackAvailable(o)
    /\ Go(o, "rbLock")
    /\ UNCHANGED <<dest, dirs, lock, at, rec, managed, undone, history>>

\* The preview is not repeated under the lock.
AcquireForRollback(o) ==
    /\ ph[o] = "rbLock"
    /\ lock = None
    /\ lock' = o
    /\ Go(o, "rbEntry")
    /\ at' = [at EXCEPT ![o] = 1]
    /\ stale' = (stale \/ ~RollbackAvailable(o))
    /\ UNCHANGED <<dest, dirs, rec, managed, undone, user, writer>>

RollbackLockTimeout(o) ==
    /\ ph[o] = "rbLock"
    /\ lock # None \/ IoErrors
    /\ Return(o)
    /\ UNCHANGED <<dest, dirs, lock, rec, managed, history>>

NextRollbackEntry(o) ==
    IF at[o] = Len(Targets[o])
    THEN Go(o, "rbMarker") /\ UNCHANGED at
    ELSE Go(o, "rbEntry") /\ at' = [at EXCEPT ![o] = @ + 1]

\* Mutant: an entry that could not be undone counts as dealt with.
MarkFailed(o) == undone' = [undone EXCEPT ![o] = @ \cup {Entry(o)}]

LeaveEntry(o) == UNCHANGED undone

NoChangeRequired(o) ==
    /\ ph[o] = "rbEntry"
    /\ Entry(o) \notin Changed(o)
    /\ undone' = [undone EXCEPT ![o] = @ \cup {Entry(o)}]
    /\ NextRollbackEntry(o)
    /\ UNCHANGED <<dest, dirs, lock, rec, managed, history>>

\* remove_and_verify_new_destination of an installed file; atomic_write of the
\* backup over whatever is there.
UndoEntry(o) ==
    /\ ph[o] = "rbEntry"
    /\ Entry(o) \in Changed(o)
    /\ IF rec[o].out[Entry(o)] = "InstalledNew"
       THEN /\ dest[Entry(o)] # None
            /\ dest' = [dest EXCEPT ![Entry(o)] = None]
       ELSE /\ Dir[Entry(o)] \in dirs
            /\ dest' = [dest EXCEPT ![Entry(o)] = backup[o][Entry(o)]]
    /\ writer' = [writer EXCEPT ![Entry(o)] = None]
    /\ NextRollbackEntry(o)
    /\ UNCHANGED <<lock, rec, managed, user, stale>>

\* An installed file is gone; cleanup_created_directories then removes the parent
\* this entry created if it is empty, and ignores a failure.
RemoveInstalled(o) ==
    /\ UndoEntry(o)
    /\ rec[o].out[Entry(o)] = "InstalledNew"
    /\ undone' = [undone EXCEPT ![o] = @ \cup {Entry(o)}]
    /\ \/ /\ Entry(o) \in rec[o].made
          /\ ~HasSiblings(Entry(o))
          /\ dirs' = dirs \ {Dir[Entry(o)]}
       \/ /\ Entry(o) \in rec[o].made /\ ~HasSiblings(Entry(o)) => IoErrors
          /\ UNCHANGED dirs

RestoreBackup(o) ==
    /\ UndoEntry(o)
    /\ rec[o].out[Entry(o)] = "ReplacedExisting"
    /\ undone' = [undone EXCEPT ![o] = @ \cup {Entry(o)}]
    /\ UNCHANGED dirs

\* The entry is undone, but reading the result back fails.
UndoUnverified(o) ==
    /\ IoErrors
    /\ UndoEntry(o)
    /\ LeaveEntry(o)
    /\ UNCHANGED dirs

\* The file or its parent is gone, or a call fails: the loop goes on with the other entries.
RollbackEntryFails(o) ==
    /\ ph[o] = "rbEntry"
    /\ \/ rec[o].out[Entry(o)] = "InstalledNew" /\ (dest[Entry(o)] = None \/ IoErrors)
       \/ rec[o].out[Entry(o)] = "ReplacedExisting" /\ (Dir[Entry(o)] \notin dirs \/ IoErrors)
    /\ LeaveEntry(o)
    /\ NextRollbackEntry(o)
    /\ UNCHANGED <<dest, dirs, lock, rec, managed, history>>

\* Every entry was undone: the marker is written, then the lock is dropped.
WriteMarker(o) ==
    /\ ph[o] = "rbMarker"
    /\ undone[o] = InPlan(o)
    /\ marker' = marker \cup {o}
    /\ ReleaseLock(o)
    /\ Return(o)
    /\ UNCHANGED <<dest, dirs, rec, journaled, backup, backupDir, history>>

\* Some entry was not undone, or the marker cannot be written.
NoMarker(o) ==
    /\ ph[o] = "rbMarker"
    /\ undone[o] # InPlan(o) \/ IoErrors
    /\ ReleaseLock(o)
    /\ Return(o)
    /\ UNCHANGED <<dest, dirs, rec, managed, history>>

RollbackStep(o) ==
    \/ AcquireForRollback(o) \/ RollbackLockTimeout(o)
    \/ NoChangeRequired(o) \/ RemoveInstalled(o) \/ RestoreBackup(o)
    \/ UndoUnverified(o) \/ RollbackEntryFails(o) \/ WriteMarker(o) \/ NoMarker(o)

-----------------------------------------------------------------------------
(* The rest of the world *)

\* The operation's process dies; the kernel drops its lock.
Crash(o) ==
    /\ ph[o] \in ApplyPhases \cup RollbackPhases
    /\ Return(o)
    /\ ReleaseLock(o)
    /\ rec' = IF o \in journaled THEN rec ELSE [rec EXCEPT ![o] = None]
    /\ UNCHANGED <<dest, dirs, managed, history>>

\* The user writes or deletes a file.
UserChanges(f, c) ==
    /\ lock = None
    /\ c # dest[f]
    /\ dest' = [dest EXCEPT ![f] = c]
    /\ dirs' = dirs \cup {Dir[f]}
    /\ user' = [user EXCEPT ![f] = c]
    /\ writer' = [writer EXCEPT ![f] = None]
    /\ UNCHANGED <<lock, ph, at, rec, managed, undone, stale>>

UserRemovesDir(d) ==
    /\ lock = None
    /\ d \in dirs
    /\ ~Filled(d)
    /\ dirs' = dirs \ {d}
    /\ UNCHANGED <<dest, lock, ph, at, rec, managed, undone, history>>

Init ==
    /\ dest \in [Files -> Contents \cup {None}]
    /\ \A f \in Files : dest[f] \in FirstContents[f] \cup {None}
    /\ dirs \in SUBSET Dirs
    /\ \A f \in Files : dest[f] # None => Dir[f] \in dirs
    /\ lock = None
    /\ ph = [o \in Ops |-> "new"]
    /\ at = [o \in Ops |-> 1]
    /\ rec = [o \in Ops |-> None]
    /\ journaled = {}
    /\ backup = [o \in Ops |-> [f \in Files |-> None]]
    /\ backupDir = {}
    /\ marker = {}
    /\ undone = [o \in Ops |-> {}]
    /\ user = dest
    /\ writer = [f \in Files |-> None]
    /\ stale = FALSE

Step(o) == ApplyStep(o) \/ RollbackStep(o)

Next ==
    \/ \E o \in Ops :
          \/ build_shared_transaction_plan(o) \/ ConfirmApply(o) \/ ConfirmRollback(o)
          \/ Step(o)
          \/ Crash(o)
    \/ \E f \in Files, c \in UserContents \cup {None} : UserChanges(f, c)
    \/ \E d \in Dirs : UserRemovesDir(d)

\* A process that is in a call goes on with it.
Fairness == \A o \in Ops : WF_vars(Step(o))

Spec == Init /\ [][Next]_vars /\ Fairness

-----------------------------------------------------------------------------
\* Every variable has its type, and the lock is held by a process inside a call.
TypeOK ==
    /\ dest \in [Files -> Contents \cup {None}]
    /\ dirs \in SUBSET Dirs
    /\ lock \in Ops \cup {None}
    /\ ph \in [Ops -> Phases]
    /\ at \in [Ops -> Nat]
    /\ \A o \in Ops : at[o] \in DOMAIN Targets[o]
    /\ rec \in [Ops -> Records \cup {None}]
    /\ journaled \in SUBSET Ops
    /\ backup \in [Ops -> [Files -> Contents \cup {None}]]
    /\ backupDir \in SUBSET Ops
    /\ marker \in SUBSET Ops
    /\ undone \in [Ops -> SUBSET Files]
    /\ user \in [Files -> Contents \cup {None}]
    /\ writer \in [Files -> Ops \cup {None}]
    /\ stale \in BOOLEAN
    /\ \A f \in Files : dest[f] # None => Dir[f] \in dirs

\* Nothing the user put at a destination is ever lost to an apply, a rollback, a
\* crash or a failed call: it is still there or in a backup (create_backup comes
\* before the replacing rename), as long as no rollback acted on an expired
\* preview.
UserContentKept ==
    ~stale =>
        \A f \in Files : user[f] # None =>
            dest[f] = user[f] \/ \E o \in Ops : backup[o][f] = user[f]

\* A journaled change stays undoable (rollback_entry_preview): while nobody else
\* has written the file, the preview finds the installed content and, for a
\* replacement, the backup of the reviewed original.
JournaledIsUndoable ==
    \A o \in journaled : \A f \in Changed(o) : writer[f] = o => EntryAvailable(o, f)

\* An apply acts only on what was reviewed (apply_one): under the lock, until it
\* writes an entry, the destination is the reviewed one.
WritesWhatWasReviewed ==
    \A o \in Ops :
        ph[o] \in {"parent", "backup", "write"} =>
            lock = o /\ dest[Entry(o)] = rec[o].pre[Entry(o)]

\* What a rollback marker, which makes an operation final, says of the files
\* (execute_shared_rollback): every file journaled as installed or replaced is back
\* as it was reviewed, and of all the operation ever wrote nothing is left but an
\* entry journaled as failed: atomic_write's read-back or the restoring of a
\* rejected file failed after the rename, and rollback leaves such a file in place.
MarkerMeansRestored ==
    [][\A o \in marker' \ marker : \A f \in InPlan(o) :
         /\ f \in Changed(o) => dest[f] = rec[o].pre[f]
         /\ writer[f] = o => rec[o].out[f] = "Failed"]_vars

\* The root lock is always released again: no path of a call, no crash and no
\* failure leaves the destination root busy for good.
LockReleased == (lock # None) ~> (lock = None)

-----------------------------------------------------------------------------
\* SHARED_SAFE_APPLY_ROLLBACK.md: "Confirmed install-new rollback removes only the
\* exact still-matching installed file", and a replacement is restored "without
\* overwriting modified content".
RollbackTouchesOnlyItsOwn ==
    [][\A o \in Ops, f \in Files :
         ph[o] = "rbEntry" /\ lock = o /\ dest'[f] # dest[f] => dest[f] = New[o]]_vars

\* SHARED_SAFE_APPLY_ROLLBACK.md: "Replacement first creates a verified,
\* never-overwritten backup under <operation ID>/<destination digest>.bak".
EveryReplacementGetsABackup ==
    \A o \in Ops : rec[o] # None => \A f \in InPlan(o) : rec[o].out[f] # "BackupFailed"
=============================================================================
