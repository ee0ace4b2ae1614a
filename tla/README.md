# A TLA+ model of EmuWiz / ArchiveFS

EmuWiz (the `archivefs` workspace) keeps a library of ROM archives: it scans and
mounts them, audits them against DAT files, renames, moves and quarantines files
on the user's approval, and installs cheat and patch files into emulators.
Whatever changes a user's file goes through a journaled, undoable transaction,
and that is the part of the program where an ordering mistake costs data.  These
modules model that part: what the code does between two system calls, what a
crash, a failed write or another program can do in between, and what the user is
told afterwards.

## 1. Inventory

| Component | State it keeps | Operations | What is hard about it |
|---|---|---|---|
| Rename engine, `dat/rename_apply` | one JSON journal per batch (transaction state, state of each entry); the files | `apply_transaction`, `rollback_transaction`, `reconcile_recovery` | crash inside a mutation window, failed journal write, other programs, retry over a half-finished undo |
| Repair execution, `repair/execute.rs`; CLI `repair apply / history / rollback` | none of its own | build a batch and hand it to the engine; reconcile and list; undo | `history` writes journals; nothing locks the journal directory |
| DAT Sources page and Repair History page (GUI) | the reviewed transaction, the running job, its cancel flag | confirm, cancel, abandon, poll, refresh, undo | a worker thread and a UI thread share the journal |
| ROM organisation, `dat/rom_organisation/transaction.rs` | the engine's journal plus the directories it created | create platform directories, apply, undo, remove empty directories | ownership of a directory across a crash |
| Duplicate quarantine, `repair/quarantine.rs` | as above | prove each duplicate against the survivor, move it away | the proof is stale when it is used |
| Repair planning, `repair/{plan,preflight,library,proposal}.rs`; `dat/rename_plan`, `dat/policy`, parsers, audit | none durable | build batches from audits | sequential, pure; string work |
| Shared safe apply, `patch_manager/shared_transaction.rs` | destination root lock, backups, operation journal, rollback marker | preview, apply, discover history, preview rollback, roll back | journal written after the changes and outside the lock; preview before the lock |
| Cheat cache, `patch_manager/cheat_cache_lock.rs`, `cheat_cache_maintenance.rs`, `cheat_sources.rs` | advisory lock of the cache root; per source: snapshots, manifests, metadata with the current snapshot, pins, staging | fetch, inspect, pin, plan and execute a prune | the lock is given up between plan and execution; three publications per retrieval; a root that does not exist yet |
| Mount lifecycle, `lib.rs` 6234-7180 | kernel mount table, mount directories | mount one / all, unmount, lazy unmount, clean up | check-then-act against a shared mount table |
| Index watcher, `lib.rs` 5490-5640 | event queue, debounce timer, index file | receive, debounce, rebuild | events during a rebuild; starvation |
| Catalogue database, library views, identity sources, diagnostics, artwork | SQLite rows, symlinks, downloads | queries, refreshes | mostly I/O; transactions are SQLite's |
| GUI and CLI shells | widgets, arguments | drawing, parsing, printing | nothing concurrent that is not listed above |

### How they interact

The CLI, the DAT Sources page, the Repair History page, ROM organisation and
quarantine all build a `RenameTransaction` and use the same engine and the same
journal directory.  They share no lock and no process: the journal file *is*
their communication.  In the GUI a call of the engine runs on a worker thread
that reports through a channel polled once per frame; the same frame reads,
reconciles and rewrites the journals.  The cheat installers share the destination
root lock and journal of the shared safe apply.

### What makes each component correct

* engine: the journal always tells where each file is; no file is overwritten or
  lost; a failure stops the batch; an undo runs backwards; every renamed file
  stays reachable by an undo; no status claims more than was done;
* GUI: entries left in flight are settled; every job's outcome reaches the page;
  the page never spoils the journal of a running job;
* organisation, quarantine: a directory is removed only if this transaction made
  it; the last copy of a file is never moved away;
* shared apply: what is installed is undoable, an undo touches only what the apply
  installed, a failed step restores the original;
* mounts: one mount per target, never over user data, clean-up removes only empty
  unmounted directories;
* cheat cache: the current and the pinned snapshots are whole whatever is pruned or
  crashes; a manifest never changes; what is handed out is current;
* watcher: a change of the library is followed by a rebuild that saw it.

## 2. Plan

Order of the modules, most important first.  All but the last group are done.

1. `RenameEngine`, `RenameRecovery`, `RenameGui`: the journaled rename engine, alone
   with crashes and other programs, and on the worker thread of a GUI page.
2. `SharedApply`: several operations with a root lock, backups, the late journal and
   the unlocked preview.
3. `OwnedMoves`: the organisation and the quarantine, which put created directories
   and a proof against a survivor around the engine's moves.
4. `Mounts`: several processes, one mount table; `Watcher`: events, debounce and
   rebuild, with liveness.
5. `RenameLedger`: the abstract specification of the engine, which `RenameRecovery` is
   shown to implement, by TLC and by proof.
6. `CheatCache`: retrieval, pins and pruning of cheat snapshots by several processes
   under the lock of the cache root, checked and proved.
7. Left: two processes over one journal (the CLI beside the GUI, where another program
   may change the files as well); the symlinks of the library views.
8. Proofs: every safety property that a passing run checks, and the refinement of the
   ledger, are proved for every value of the constants.

## 3. Modules and the code

### RenameEngine

One batch of `N` entries.  `Src`, `Dst` and `Obj` are the recorded source path,
destination path and identity (`ObjectIdentity`: kind, size, inode, device) of each
entry.  `fs` maps every path to the object at it; an object may be at several paths
(hard links) initially.  `disk` is the durable journal, `mem` the running call's
copy, `pc` and `idx` its place.  `Permitted` stands for the preflight checks that
read nothing that changes (trusted roots, safe basenames, approval, same
filesystem); `CaseTwins` gives the names that fold to the same name on a
case-insensitive reader.

A step is one journal write together with the computation and the reads before it,
or one `renameat2`.  This granularity loses nothing: journal writes are atomic
replacements (`atomic_write_text`: temporary file, fsync, rename, fsync of the
directory), local computation is invisible, and the reads a step makes belong to
one entry.  The whole-batch preflight is one step per entry, so files may change
between the checks of two entries and between the check and the rename.

The batch is assumed free of chains (no source is another entry's destination)
and of repeated sources; the planner refuses such batches, and duplicates of a
destination are allowed and caught by the engine's own preflight.

`write_journal` may fail in every step.  A failed write ends the call with an
error, as the `?` in the code does; the journal then stays one step behind.

### RenameRecovery

The engine, one call at a time, with `repair apply` (once: `execute_repair_plan`
builds a fresh transaction), `repair history` and `repair rollback`, a crash in any
step, and another program that creates, replaces or removes anything at any path
at any time.  `touched` is a history variable: what the other program has changed.
The properties about a file speak of files nobody else touched; the ones about
the journal and the no-overwrite property hold without that condition.

### RenameGui

The engine on the DAT Sources page's worker thread, the UI thread's frame
(`poll_apply`, then `refresh_recovery` in three steps: read, classify, write) and
the clicks.  `abandon_apply_work` forgets a running worker and sets its cancel flag.
The page looks only at its own job before it starts the next call, so a rollback may
begin while the abandoned worker still runs: `Beside` then moves that worker's call to
variables of its own (`omem`, `opc`, ...), where it goes on as `Orphan`, a second
instance of `RenameEngine` over the same files and the same journal.  A look at the
cancel flag and the step after it are one step, as in the engine.  After an
abandonment the review is gone too; a new review makes a new transaction with another
journal, which is outside this module, so in it only a rollback starts beside an orphan.
`raced` is a history variable that records the three ways the journal can be spoiled:
a frame that reconciles beside a worker, a second apply of one review, and a call that
begins beside an orphan.

### SharedApply

`patch_manager/shared_transaction.rs`: several reviewed operations `Ops` over one
destination root, each with the files `Targets[o]` in plan order and the approved
content `New[o]`.  Each operation has a process of its own (`ph`, `at`): the apply
and rollback threads of the GUI and the CLI are independent, and only the advisory
root lock (`lock`) orders them.  `rec[o]` is the record that becomes the journal:
the reviewed digest of each file, the parents the review found missing, the
outcome of each entry and whether it created its parent.  Contents are digests,
so "still as reviewed" is equality.

| Code | Actions |
|---|---|
| `build_shared_transaction_plan`, `execute_shared_apply` up to the lock | `build_shared_transaction_plan`, `ConfirmApply`, `AcquireForApply`, `ApplyLockTimeout` |
| `apply_one` | `CheckPasses`, `AlreadyInstalled`, `EntryRefused`, `CreateParent`, `ParentFails`, `create_backup`, `BackupFails`, `WriteDestination`, `WriteFails`, `Verified`, `ReadBackFails`, `ContentRejected`, `restore_after_failed_verification`, `RestoreFails` |
| the tail of `execute_shared_apply` | `DropLock`, `write_journal_once`, `JournalFails` |
| `execute_shared_rollback` | `ConfirmRollback` (fresh preview, before the lock), `AcquireForRollback`, `RollbackLockTimeout`, `NoChangeRequired`, `RemoveInstalled`, `RestoreBackup`, `UndoUnverified`, `RollbackEntryFails`, `WriteMarker`, `NoMarker` |
| the world | `Crash`, `UserChanges`, `UserRemovesDir` |

A step is one change of the filesystem with the checks before it; the removal of
an empty parent goes with the removal of the file in it and may fail, which is
also what a crash between the two leaves.  The limits on bytes, the source's own
digest, unsafe destinations and a missing permission to replace are all
`EntryRefused`, which may happen to any entry at any time: none of the properties
depends on why an entry is refused.  A file whose rename succeeded and whose read-back
failed (shared_transaction.rs:1636) stays in place with its entry journaled as failed;
`Changed` is what a rollback acts on, the entries journaled as installed or replaced, and
`MarkerMeansRestored` says what a marker means for both kinds.  With `IoErrors` every system call may fail
before it has an effect and every verification after it.  `user`, `writer` and
`stale` are history variables.

### RenameLedger

What the engine promises, without calls, crashes or a journal format: for every file
of the batch, where it is and where the ledger says it is.  A file moves only after
the ledger announced it, one at a time, and the ledger commits itself only to where
the file is.  `RenameRecovery` instantiates it with `WhereMap` (where the file is in
`fs`, or *foreign* once another program changed one of its paths) and `JournalMap`
(what the durable journal says: `Applying` and `RollingBack` mean *either*), and
`ImplementsLedger` is the ledger's specification under that mapping.  The memory of
the running call, its place and the transaction's own state have no counterpart: the
ledger is a statement about the disk alone.

### OwnedMoves

One transaction of either `kind`, from the intent to any number of rollbacks.  The
directories are the interesting part: `dir[d]` tells who made the directory that is
there, `journal.created_directories` who claims it: a list in the order of creation, which
clean-up and rollback go through backwards.

| Code | Actions |
|---|---|
| intent, first proof of the quarantine | `BeginApply`, `BatchProof` |
| the loop over planned directories | `MakeDir`, `ClaimDir` (two steps: a crash fits between), `DirExists`, `MakeDirFails`, `DirsDone` |
| preflight, and what the organisation cleans up | `PreflightPasses`, `PreflightConflict`, `CleanUpDir`, `DropClaims`, `ExecutorRefuses`, `ExecutorStarts` |
| the loop over entries (the engine's, or the quarantine's own) | `EntryCancelled`, `CheckEntry`, `Checkpoint`, `Move`, `MoveFails`, `Record`, `RecordFailure`, `FinishApply` |
| `rollback_transaction`, called from Repair History or by the transaction's owner | `RollbackFromHistory`, `RollbackOwn`, `RbReconcile` ... `RbFinal` |
| removal of owned directories | `RemoveOwnedDir`, `RollbackReturns` |
| the world | `Crash`, `Cancel`, `User` |

What another program does to the moved files themselves is the subject of
`RenameRecovery` and is left out here.  `held` is the copy the organisation page keeps
after an apply.  The survivor is one bit: it holds the duplicates' content or not.
`remade`, `losses` and `late` are history variables.

### Mounts

Several processes, each in one call at a time (`proc[p]`), the kernel's mount table as
a stack per mount path, the directories below the mount root, and the files a user
puts there.  A path is a base name with or without a fingerprint, as `plan_mounts`
chooses it from the library at the time of the scan.

| Code | Actions |
|---|---|
| `ArchiveMountSession::new`, `mount_plans`, the session of a batch | `Begin` |
| `mount_one_plan_outcome`, `remount_one_plan` | `ReadMountTable` |
| `mount_unmounted_plan` | `Prepare` (checks, `create_dir_all`, identity), `Revalidate`, `MountCommand`, `VerifyMounted` |
| `unmount_one_plan`, `lazy_unmount_one_archive_path` | `ReadTableForUnmount`, `UnmountCommand`, `VerifyUnmounted` |
| `cleanup_selected_mount_dir`, `cleanup_selected_mount_tree`, `clean_mount_root` | `BeginClean`, `CheckDir`, `RemoveDir` |
| `fs::remove_dir` | `Removable`, `Tree`: the kernel's refusal, and what goes with a directory |
| the world | `ChangeLibrary`, `PutFile`, `Killed` |

The mounting programs are external: each may take effect or not and report either
way, which is also what the 30 second timeout leaves.  `unmount_path` tries up to three
programs, one step each (`TryNext`).  A program is an ordinary child
(`run_command_os_with_timeout`), so `Killed` ends the call and leaves its program
running as one of `Orphans`: it may still mount or unmount, and reports to nobody.
Removing a directory loses everything in it; that no file is lost is what the checks and
the kernel's refusal have to bring about.

### Watcher

The watch command's single thread (`queue`, `last`, `scan["watch"]`), a second process
that rebuilds the same index (`scan["command"]`), and the library as directories that
hold archives.  A scan lists the directories and reads them one after the other, so the
library changes under it; publication is one rename.  The channel is bounded by
`MaxQueue` in the model only.  `blind` and `overtaken` are history variables: the last
change was announced by no event the watcher acts on, and a scan that is older than the
watcher's last was published after it.

| Code | Actions |
|---|---|
| `watch_archive_index` up to its loop | `Start` |
| the receive, `handle_watch_event` | `Receive` |
| `recv_timeout`, `should_fire`, `take_summary` | `Tick`, `Fire` |
| `scan_source`, `write_archive_index` | `ReadFolder`, `Publish`, `WriteFails` |
| `index-build` and the refresh after a mount | `CommandRebuild` |
| the world | `ChangeArchive`, `MoveFolder`, `OtherEvent`, `Interrupt` |

### CheatCache

The cache of one trusted source and the processes that share it (`pc[p]`, `op[p]`).
On disk: `dir[s]` (the directory of snapshot `s` is missing, whole, or torn by a
removal that stopped half-way), `man[s]` (the time in its manifest), `meta`
(`metadata.json`: the current snapshot and the time copied from its manifest), `pins`
and `staging` (whose operation directories are there).  A digest stands for its
content: a whole directory holds the files its digest implies.

| Code | Actions |
|---|---|
| `LockedCheatCache`, `CheatCacheLockGuard` | `Begin`, `SeeNothing` (no root, no guard), `Acquire`, `GiveUp`; the guard is dropped in `Return` |
| inspection, and the part of `fetch_retroarch_cheat_source` that reuses the cache | `SelectCurrent`, `VerifyCurrent`, `HandOut` |
| `fetch_and_publish` | `Stage`, `Download`, `PublishSnapshot`, `WriteManifest`, `Activate`, `DropWork`, `RecordFailure` |
| `set_retroarch_cheat_snapshot_pin` | `SetPin` |
| `plan_retroarch_cheat_cache_prune` | `PlanPrune`, which gives up the lock; `Confirm` |
| `execute_retroarch_cheat_cache_prune` | `RemoveSnapshot` (with the revalidation `StillCandidate`), `RemoveManifest`, `RemoveStaging` |
| the world | `Crash`, `Tick` |

An offline fetch is an inspection that may turn its snapshot down.  The count, age and
size rules of a prune policy are any choice of the oldest unprotected snapshots: which
of them a policy selects matters to no property.  Every durable change may fail before
it takes effect and, where a directory is synced after it, also afterwards.

## 4. Runs

| Run | Module / cfg | Shows |
|---|---|---|
| `rename_recovery` | `MCRenameRecovery` | passes: type invariant, `JournalTruth`, `NothingStranded`, `OneInFlight`, `BatchOrder`, `OnlyMovesBatchFiles`, `CallReturns`, `ImplementsLedger` |
| `rolled_back_means_restored` | `MCRenameRecovery`, `RolledBackMeansRestored.cfg` | violated (finding 1) |
| `rename_gui` | `MCRenameGui` | passes: type invariant, `TruthUnlessRaced`, `InFlightSettles`, `WorkerReported` |
| `gui_journal_truth` | `MCRenameGui`, `GuiJournalTruth.cfg` | violated (finding 2) |
| `shared_apply` | `MCSharedApply` | passes: type invariant, `UserContentKept`, `JournaledIsUndoable`, `WritesWhatWasReviewed`, `MarkerMeansRestored`, `LockReleased` |
| `rollback_touches_only_its_own` | `MCSharedApply`, `RollbackTouchesOnlyItsOwn.cfg` | violated (finding 3) |
| `every_replacement_gets_a_backup` | `MCSharedApply`, `EveryReplacementGetsABackup.cfg` | violated (finding 4) |
| `owned_moves` | `MCOwnedMoves` | passes: type invariant, `AtMostOneUnclaimed`, `OneDuplicatePerLoss`, `MovedIsUndoable`, `UserDirsKept`, `UndoneStaysUndone` |
| `mounts` | `MCMounts` | passes: type invariant, `NoPileUp`, `UserFilesKept`, `HidesOnlyLateFiles`, `ActsOnItsArchive` |
| `mount_reports_true` | `MCMounts`, `MountReportsTrue.cfg` | violated (finding 5) |
| `watcher` | `MCWatcher` | passes: type invariant, `NoChangeForgotten`, `EventuallyFresh` |
| `cheat_cache` | `MCCheatCache` | passes: type invariant, `CurrentUsable`, `PinnedKept`, `OneWorkDir`, `HandedOutIsCurrent`, `UnverifiedKept`, `ManifestsImmutable` |

`UserContentKept` is the promise that matters most for the cheat files: whatever
fails or crashes, what the user had is still in place or in a backup.  It is
conditional on `stale`, because finding 3 really loses content.

Several properties carry an exception that names a real weakness of the code rather
than a gap of the model: `AtMostOneUnclaimed` (a refused organisation gives up all its
claims), `UserDirsKept` (a directory the user made under a claimed name),
`UndoneStaysUndone` (the organisation page's stale copy), `ActsOnItsArchive` (a library
that changes, which finding 5 is about), `NoChangeForgotten` (what the watcher cannot
know).  Section 5 says more about them.

### Bounds

Two entries: one to be before the other is all that `BatchOrder`, the loops and
the partly finished undo need; a third adds no new pair.  Two objects in
`MCRenameRecovery`: each entry's object is the foreign object of the other.  The
first entry is a case-only rename, so that the exception for the entry's own
source in the case check is exercised.  `MCRenameGui` has a third object, which may be
at the second destination from the start, so that the batch preflight can refuse and the
safe subset be offered.  It allows one orphan in each run of the application (the guards
of `Beside` and `abandon_apply_work`); the proofs have the same bound.  Crashes, failed
writes, external changes, cancellations, calls and frames are not bounded at all; the
state space is finite because the journal and the files are.

`MCSharedApply`: two operations that both change the first file, and a second file
with the same parent for the first operation, so that a plan has a first and a last
entry, a created directory has a sibling in it, and one operation's undo finds the
other's content.  At first the files are absent, or the first one already holds what
the second operation would install (`AlreadyInstalled`).  Crashes, failures, edits by the user and rollback attempts are
not bounded.  The two violation runs switch `IoErrors` off, so that what they show
needs no failing system call.

`MCOwnedMoves`: two files and two directories, which are two platforms for an
organisation and the quarantine root with one bucket in it for a quarantine; two of
each give a directory with and one without a claim, and a first and a last move.  The
user acts three times (remove a directory, make it again, put a file there).  Crashes,
failed writes, cancellations and rollbacks are not bounded.  The system may stop once
the user has used up the bound and nothing is left to undo.

`MCMounts`: two processes, two archives with one base name, so that the planned paths
depend on the library; the second archive shows an empty directory when mounted, so
that a mount does not by itself make the target look occupied.  The library starts with
the first archive or with both (`MCInit`).  One change of the library, one file of the
user and one program that outlives its caller (`Orphans`); calls, kills between programs
and failures are not bounded, and the depth of the mount table is not bounded either:
`NoPileUp` is what keeps the run finite.  The processes are interchangeable (symmetry).  With an empty library there is
nothing to do, so deadlock is not checked.  `MountReportsTrue.cfg` needs one process
and two changes of the library.

`MCWatcher`: two directories, one archive, three changes (an archive comes, its
directory is renamed, it goes), two starts, a channel of two events and a debounce of
one tick; a longer debounce repeats `Tick`.

`MCCheatCache`: two processes and two digests, so that one snapshot is current while
the other is a candidate, and a plan of one process meets a retrieval of the other; two
ticks, with snapshots fresh only in the tick they were retrieved in, so that a digest
can be removed and retrieved again with another time.  Processes and digests are
interchangeable (symmetry).  Crashes, failures and calls are not bounded, and the proofs
cover any number of processes, digests and ticks.

### Fairness

`RenameRecovery`: weak fairness of the engine's own steps: a call that is not
cancelled or killed runs on.  `CallReturns` follows from that alone.

`RenameGui`: weak fairness of the worker, of the orphan and of the frames (the UI repaints while
a job runs), strong fairness of the two later steps of a frame: the application
does not die in the middle of every frame, and a journal write that is retried
on every frame succeeds in the end.  Without the last assumption
`InFlightSettles` cannot hold, since the write's error is ignored.

`SharedApply`: weak fairness of the steps of a call that has been started.  Starting
a call, confirming a rollback, crashing and editing files are never forced.

`Watcher`: weak fairness of receiving, of the clock and of the watcher's own scan: the
thread is scheduled.  Strong fairness of `Fire`: after every event the loop comes back
to a receive with a timeout that is over, and such a receive on an empty channel returns
at once.  `EventuallyFresh` assumes in its own statement that the channel runs empty
again and again, because a stream of ignored events that never pauses really does hold
the rebuild back.

`OwnedMoves`, `Mounts` and `CheatCache` state no liveness and no fairness.

## 5. Findings

1. A rollback that failed on a file and is requested again reports `RolledBack`,
   although the file is still renamed: `RollbackFailed` entries are not in
   `remaining_incomplete` (rollback.rs:146).  After that the transaction is no
   longer offered for rollback.
2. The page's frame reconciles journals also while its worker runs and writes back
   what it read (dat_sources_page.rs:1893); a record the worker wrote in between
   is lost, and after a crash the journal says a renamed file was not renamed.
3. A rollback of installed files checks them before it waits for the root lock and
   not again under it (shared_transaction.rs:1364); what another operation or the
   user put there in the meantime is removed or overwritten, where
   `SHARED_SAFE_APPLY_ROLLBACK.md` promises that only the still-matching file is.
4. The backup directory of an operation is created anew for every entry
   (shared_transaction.rs:1570), so a plan's second replacement always ends as
   `BackupFailed`; nothing is lost, but the plan cannot be applied as reviewed.
5. Whether an archive is mounted is decided by its planned path alone (lib.rs:6385),
   and that path depends on whether another archive with the same base name is in the
   library (lib.rs:4838).  After such an archive is added or removed, a call answers
   `AlreadyMounted` for an archive while the path shows the other one, and an unmount
   of the one takes the other away.

Noted on the way, where the statement of the repository is weaker or lies outside the
code:

* a crash in the window of the last entry and a reconciliation promote a transaction to
  `Applied` with a `Skipped` entry in it (reconcile.rs:153), where model.rs:35 says that
  every requested entry has been renamed;
* the organisation page rolls back the copy it kept since the apply
  (rom_organisation_page.rs:275).  If Repair History has rolled the same transaction
  back meanwhile, the page's rollback fails on a file that is already back and writes a
  journal that says `RollbackFailed` over one that said `RolledBack`.  rollback.rs:10
  promises that a repeated request is a no-op for entries already rolled back;
* an organisation refused by its preflight drops its claims even on directories it
  could not remove, and a rollback from Repair History removes no directory at all;
* one failed scan or index write ends the watch command, and what it had received is
  lost: a restart does not rebuild.  docs/watcher.md:171-178 wants permission errors
  tolerated and index writes retried.  A renamed directory changes the index of every
  archive in it and is not acted on; an `index-build` that scanned earlier may publish
  over the watcher's newer index.

* after a journal error the DAT Sources page keeps the reviewed transaction, all
  `Planned`; applying its safe subset overwrites the journal that records the renames
  done before the error (dat_sources_page.rs:1830, executor.rs:281).  The run
  `rename_gui` has this step; it is one of the three that set `raced`;
* a worker the page abandons runs on, and the page lets a rollback of the same
  transaction start beside it (dat_sources_page.rs:2406, 2460): two copies of one journal
  are then written in turn, which is the third way to set `raced`.  The comment at 2458
  speaks only of a worker that "simply stops delivering to this page";
* model.rs:217 and transaction.rs:9-10 say that created directories are recorded before
  they are created; the code, and the ownership contract at transaction.rs:232-240,
  record them after `create_dir` succeeded, which is why one directory may be unclaimed
  (`AtMostOneUnclaimed`);
* a retrieval that finds the content unchanged keeps the manifest of the first
  retrieval and copies its time into the metadata (cheat_sources.rs:1801), so a source
  that is stale stays stale, where docs/RETROARCH_CHEAT_SOURCES.md says that an explicit
  update refreshes stale data.

Also, without a statement of the repository to hold them against: a prune that stops
half-way leaves a torn snapshot that no later prune removes (`UnverifiedKept`) and at
which every later retrieval of that digest ends with `snapshot_hash_collision`
(cheat_sources.rs:1710), so only the user can repair it; the path an inspection returns
is used after the lock is released, when another process may have made another snapshot
current and pruned it; the journal of a cheat operation is written after all its changes, so a crash before
that leaves installed files without a record; a rollback that failed on one entry
can never be completed, because its next preview finds the undone entries
missing; two new files in a new directory leave the directory behind.

## 6. Proofs

Eight modules hold proofs, and every safety property of the passing runs, the refinement
included, is a theorem.  Each proof has the same shape: an inductive invariant, one lemma
per action (or one for a family of actions that change the same thing), and the property
as a consequence.  The invariants were checked with TLC on the run's instance before they were
proved.

### The rename engine

Everything here is proved for every `N`, `Paths`, `Objects` and batch that satisfies
`BatchAssumption` (no chains, no repeated sources), `PathsAssumption` (finitely many
paths, used only to count files) and `NoneAssumption`.

`RenameEngineProofs` holds what every caller of the engine may rely on, as lemmas about
`ApplyStep`, `RollbackStep` and `CancelStep`; it has no theorem of its own.

* `EngineTypeInv`: `EngineTypeOK` is not inductive: the confirmation steps use the loop
  index, so `IndexInv` adds that it names an entry inside a mutation window; `Silent` adds
  that a running call has returned nothing.
* `EngineTruth(t)`: what the journal says of the files whose paths are not in `t`, the set
  of paths other programs have changed.  The journal alone is not inductive.  `Records`
  says the same of the call's copy once it has been journaled, `Progress` what the loop has
  not begun in each phase, and `Windows` that inside a mutation window the journal holds
  the checkpoint and the file is at exactly the name the phase implies.  Each action
  preserves it by one of a few lemmas:
  a sound record stays sound when an entry gets a state that is true of it
  (`SoundUpdate`), when the transaction's own state changes (`SoundState`), under
  reconciliation (`SoundReconciled`), under the rename of the one entry in flight
  (`SoundRename`, which uses that the batch has no chains) and under a change by
  another program (`SoundExternal`, which adds the path to `t`).  The one thing the engine
  cannot guarantee itself is a hypothesis of `TruthApplyStep`: the first write of an apply
  replaces no journal, or does not change it.

`RenameProofs` proves about `RenameRecovery`:

* `TypeCorrect`: `Spec => []TypeOK`, and `JournalIsTrue`: `Spec => []JournalTruth`, from
  `EngineTypeInv` and `EngineTruth(touched)`.  `AppliedOnce` discharges the hypothesis
  above: a reviewed transaction is used once, so no journal exists before its first write.
* `FilesAreOnlyMoved`: `Spec => OnlyMovesBatchFiles`, an action property.  Only the
  two no-clobber renames change the filesystem, and each takes one path from the
  set of paths of an object and adds one that was free.
* `OneWindow`: `Spec => []OneInFlight`, and `WorkIsOrdered`: `Spec => []BatchOrder`,
  from one inductive invariant `OrderInv`.
  Neither is inductive: a reconciliation may turn an entry in flight into an applied
  or an undone one, so `Ordered` treats an open window as both, for the journal and
  for the call's copy; and the loops' positions are needed (`Position`: what lies
  before the index is dealt with, what lies after it is not begun, or undone).
* `NoFileStranded`: `Spec => []NothingStranded`.  `JournalTruth` already says that a
  moved file is recorded as moved; what is left is that a record with such an entry
  never carries a state `is_rollbackable` refuses.  The inductive invariant `UndoInv`
  adds to `OrderInv` that a record that says it is done has nothing left to settle or
  to undo (`Closed`, of the journal and of the call's copy) and the state the copy has
  in each phase of a call (`Stage`).
* `EngineImplementsLedger`: `Spec => ImplementsLedger`, the refinement.  The initial
  states map to the ledger's; each action maps to one of its steps or to a stutter:
  the two checkpoints to `Announce`, the two no-clobber renames to `Move`, the writes
  that record an outcome and the reconciliations to `Settle`, a change by another
  program to `Interfere`, everything else to a stutter.  That an announcement finds no
  other file in flight is `OneInFlight`; that a settlement names the place the file
  really is at is `JournalTruth`; and that a write settles only the one entry it is
  about needs `Synced`, that the call's copy and the journal agree on every other
  entry.  The invariant is the conjunction of the three.

`RenameGuiProofs` proves about `RenameGui`:

* `TypeCorrect`: `Spec => []TypeOK`.  That a running worker is awaited or told to stop
  needs `Silent`: the page takes a result for the end of the job, and there is none while
  the worker runs.  The orphan is a second instance of the engine, so what
  `RenameEngineProofs` proves of the engine's steps is taken for it from a second instance
  of that module (`Twin`); each worker has to bear the other's changes of the files and of
  the journal (`EngineRests`, `OrphanRests`).
* `TrueUnlessRaced`: `Spec => []TruthUnlessRaced`.  The invariant is `EngineTruth({})` (no
  other program is modelled here) and `FrameAlone`, both unless `raced`: a frame that is
  past its first step is alone with the journal, what it read is what is there, and what it
  is about to write is the reconciliation of that.  The page does apply a review twice,
  after a failed call; the two disjuncts of the hypothesis of `TruthApplyStep` are exactly
  what the second of the three races leaves.  That an orphan beside a later call implies
  `raced` is part of `TypeOK`, so nothing is claimed of the journal from then on.

### Shared apply

`SharedApplyProofs`, for any set of operations, files, directories and contents
(`SharedAssumption`: an operation has at least one target and no target twice, and what
it installs is not a content the user writes; `RecordAssumption`: `None` is no record):

* `TypeCorrect`, `UserContentAlwaysKept`, `JournaledAlwaysUndoable`,
  `AppliesOnlyWhatWasReviewed` and the action property `MarkersMeanRestored`.  The
  invariant `SharedInv` has three layers.  `LockInv`: an operation in a locked phase holds
  the lock.  `Facts(o)`, what one operation knows: its record agrees with its backups and
  with its place in the protocol (`RecordInv`), the entry it works on is as reviewed until
  it is written and shows the new content after (`EntryInv`), what a rollback has behind it
  is restored and what it has ahead is as its preview found it unless the preview expired
  (`UndoInv`).  And what relates files to all operations: a file shows what its last writer
  installed (`WriterInv`), and a file some operation changed has its user content in a
  backup unless the user wrote it since (`SavedInv`).  `SavedInv` is the part that
  `UserContentKept` lacks: an undo removes or overwrites a file, which is harmless only
  because the content it covers was saved before the apply, possibly by *another*
  operation than the one that is undone.  `MarkersMeanRestored` needs one more invariant,
  `WroteInv`: what an operation has written is recorded as installed or replaced, or
  as failed, or is the entry it is at.  `OnlyOf` turns the lock into "a step of one
  operation disturbs no fact of another".

### Owned moves

`OwnedMovesProofs`, for any set of files and directories, any list of entries without
repetition, any non-empty list of planned directories and any number of user steps
(`OwnedMovesAssumption`, `NoneAssumption`):

* `TypeCorrect`, `MovedAlwaysUndoable`, `OneUnclaimedAtMost`, `LossCostsOneDuplicate` and
  the action properties `UserDirsAlwaysKept` and `UndoneAlwaysStays`.  There are up to
  three copies of a transaction (the journal, the one a call works on, the one the
  organisation page keeps), and any of them may be written next, so `RecordsInv` says of
  *every* copy that it knows of every file that is away, and calls itself undone only when
  nothing is left to undo (`Knows`).  `CallInv` says what the call's copy, its place and
  the rest of its loop have to do with the journal (`ApplyOK`, `RollbackOK`): the entries
  ahead of an apply are still at their sources, a move is announced in the journal before
  it is made, an apply and the page's old copy never coexist.  `UserInv` and `OursInv` are
  the two directions of ownership: a user's directory under a claimed name was remade
  after the claim, and all directories of ours but one are claimed, unless the organisation
  dropped its claims (`Abandoned`, which has to say that no copy can bring them back).
  `LateInv` counts: an entry that has passed its proof while the survivor is gone is paid
  for by a loss that no duplicate has used up yet.

### Mounts

`MountsProofs`, for any finite set of processes, any finite set of programs that outlive
a killed caller, any set of archives with any base names, and any number of changes and
files (`MountsAssumption`):

* `TypeCorrect`, `MountsDoNotPileUp` and the action properties `UserFilesAlwaysKept`,
  `MountsHideOnlyLateFiles` and `CallsActOnTheirArchive`.  `NoPileUp` is not inductive:
  nothing in a state with as many mounts as processes and orphans forbids one more.
  `PileInv` counts the calls and orphaned programs that may still cover a target along with
  its mounts; a mount turns one into the other, a call enters that set only while the target
  is bare, and a kill raises the bound by the one orphan it makes (`KilledKeeps`).
  `UserFilesKept` rests on `RemoveDirLosesNothing`: what `Removable` lets go holds no
  file, whatever was seen when the directory was checked.  `LateInv` says that a
  target the last check found bare holds no file unless the call is marked late, and
  `PlanInv` that, while the library does not change, the calls and the mount table agree on
  which archive a path belongs to.

### Watcher

`WatcherProofs`, for any directories and archives, any queue length and any debounce time
(`WatcherAssumption`):

* `TypeCorrect` and `NoChangeIsEverForgotten`.  The index is published from a scan that
  began long before, so the invariant is about scans: what a scan has read of the
  directories it is done with is what they hold now, unless an announced change is still in
  the channel (`WatchInv`, for the watcher's own scan) or the watcher owes a rebuild or has
  published since (`CommandInv`, for the scan of another command).

### Cheat cache

In `CheatCacheProofs`, for any set of processes and of digests, any `FreshFor` and any
number of ticks (`CacheAssumption`, which otherwise only says that `None` is neither a
process nor a digest):

* `TypeCorrect`, `CurrentAlwaysUsable`, `PinsAlwaysKept`, `StagingAlwaysOne`,
  `HandedOutAlwaysCurrent` (invariants) and `UnverifiedAlwaysKept`,
  `ManifestsAlwaysImmutable` (action properties).  None of the invariants but the type is
  inductive alone: `CacheInv` joins them with
  the type invariant, with `Exclusive` (a process in a locked step holds the lock) and
  with `Facts(p)`, what a process in the middle of its work knows of the disk: which of
  the three publications have happened, that the snapshot it inspects or hands out is
  the current one, that the directory of a manifest it removes is gone.
  `Alone` turns `Exclusive` into what the proofs use, that at most one process is in a
  locked step, so that the facts of the others are not disturbed by its writes
  (`OthersWait`, `LockedStep`).  That a plan made under an earlier lock does no harm
  needs no fact about the plan's snapshots at all: `StillCandidate` reads everything
  again, which is why the candidates may be arbitrary in the proof.

## 7. Only model-checked

* Liveness: `CallReturns`, `InFlightSettles`, `WorkerReported`, `LockReleased` and
  `EventuallyFresh`.  They rest on fairness, which is out of the prover's reach.
* The runs that expect a violation show what the code does on a small instance; there is
  nothing to prove.

## 8. Not modelled

* Power loss.  The journal is fsynced, the rename of the user's file is not; after a
  power cut the file may be back at its old name with the entry `Applied`.
* The two reads of `confirm_rename` and of `classify_entry` are one step; another
  program could change one path between them.
* Two engines at once in two processes, more than one abandoned worker at a time, a new
  review beside an orphan (it has another journal and the same files), and two processes
  that draw the same transaction id in the same second.
* `RenameEngine`: the entry state `PreflightPassed`, which no code sets, and transient
  failures of the reads in `confirm_rename`.  `RenameRecovery` lets `repair apply` choose
  either conflict mode, where execute.rs:339 always takes `AbortAll`: a superset.
* After a rollback that failed on one entry, that entry is still at its destination
  although it lies behind entries that were undone; `BatchOrder` does not count it.
* `SharedApply`: a program that ignores the advisory lock and writes while an
  operation holds it (between a check and the rename that follows); two rollbacks
  of the same operation at once; dry runs, the confirmation digests and the listing
  of the history, which change no state; leftover temporary files.
* `OwnedMoves`: other programs that change the moved files, which `RenameRecovery` has;
  two transactions over the same directories.
* `Mounts`: mounts of other programs nested below a mount path, and the symlink and
  parent checks: they only refuse.  Lazily unmounted file systems that are still in use.
  The last resort of `plan_mounts` for names that are taken even with a fingerprint
  (lib.rs:4845-4855), which no two archives of the model need.
* `Watcher`: the limits on entries and depth of a scan, which fail it as `ReadFolder` can;
  the statistics; overflow and rescan notices of the kernel's event queue.
* Symlink sources and directory moves (`DirectoryPolicy`, `allow_symlink_source`).
* `CheatCache`: several sources (they share the lock and nothing else), path, symlink and
  size checks, which only refuse; the record of the last failure in the metadata; files
  another program changes inside a snapshot; the inspection of a snapshot a caller names
  (cheat_sources.rs:1087), which reads under the lock and promises nothing about the
  current one; what a caller does with a path after the
  lock is released; leftover temporary files.
* The library views, which the plan lists.
* By far the largest part of the source, which keeps no state that a model could
  say something about: the GUI's 75,000 lines of drawing and navigation, the CLI's
  parsing and printing, DAT, cheat and emulator configuration parsers, matching of
  names, SQLite schemas and queries (their atomicity is SQLite's), downloads and image
  decoding, and diagnostics, which read and report.  The modules cover the code that
  changes files, mounts and journals; a model of the rest would restate it.
