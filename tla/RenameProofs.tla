---------------------------- MODULE RenameProofs ----------------------------
(***************************************************************************)
(* Proofs about RenameRecovery for every batch: type correctness, the      *)
(* truth of the journal, that files are only moved, the order of the work, *)
(* that no moved file is out of reach of an undo, and the refinement of    *)
(* the write-ahead ledger.                                                 *)
(***************************************************************************)
EXTENDS RenameRecovery, RenameEngineProofs, FiniteSetTheorems

-----------------------------------------------------------------------------
(* Type correctness *)

TypeInv == TypeOK /\ IndexInv /\ Silent

LEMMA EngineTypes == TypeInv <=> EngineTypeInv /\ review \in BOOLEAN /\ touched \in SUBSET Paths
BY DEF TypeInv, TypeOK, EngineTypeInv

LEMMA TypeInit == Init => TypeInv
BY EngineTypeInit DEF Init, EngineTypeInv, TypeInv, TypeOK

LEMMA TypeNext == TypeInv /\ [Next]_vars => TypeInv'
<1> SUFFICES ASSUME TypeInv, [Next]_vars
             PROVE  EngineTypeInv' /\ review' \in BOOLEAN /\ touched' \in SUBSET Paths
  BY DEF TypeInv, TypeOK, EngineTypeInv
<1>0. EngineTypeInv /\ review \in BOOLEAN /\ touched \in SUBSET Paths
  BY EngineTypes
<1>1. ASSUME NEW m \in HardConflictMode, Apply(m)
      PROVE  EngineTypeInv' /\ review' \in BOOLEAN /\ touched' \in SUBSET Paths
  BY <1>0, <1>1, TypeBeginApply DEF Apply
<1>2. CASE run_history
  <2>1. Reconciled(disk) \in Transactions
    BY <1>0, <1>2, ReconciledType DEF run_history, EngineTypeInv, EngineTypeOK
  <2> QED
    BY <1>0, <1>2, <2>1 DEF run_history, EngineTypeInv, EngineTypeOK, IndexInv, Silent
<1>3. CASE run_rollback
  <2>1. Reconciled(disk) \in Transactions /\ disk' \in Transactions
    BY <1>0, <1>3, ReconciledType DEF run_rollback, EngineTypeInv, EngineTypeOK
  <2>2. CASE is_rollbackable(Reconciled(disk))
    BY <1>0, <1>3, <2>1, <2>2, TypeBeginRollback DEF run_rollback
  <2>3. CASE ~is_rollbackable(Reconciled(disk))
    BY <1>0, <1>3, <2>1, <2>3 DEF run_rollback, EngineTypeInv, EngineTypeOK, IndexInv, Silent
  <2> QED
    BY <2>2, <2>3
<1>4. CASE Step
  BY <1>0, <1>4, TypeApplyStep, TypeRollbackStep DEF Step
<1>5. CASE Cancel
  BY <1>0, <1>5, TypeCancelStep DEF Cancel
<1>6. CASE Crash
  BY <1>0, <1>6, TypeIdle DEF Crash, EngineCrash, Results
<1>7. CASE External
  BY <1>0, <1>7 DEF External, EngineTypeInv, EngineTypeOK, IndexInv, Silent
<1>8. CASE UNCHANGED vars
  BY <1>0, <1>8 DEF vars, EngineTypeInv, EngineTypeOK, IndexInv, Silent
<1> QED
  BY <1>1, <1>2, <1>3, <1>4, <1>5, <1>6, <1>7, <1>8 DEF Next

\* Type correctness, for every batch: the variables of the rename engine and of
\* its callers keep their types, and the engine holds a transaction exactly
\* while a call is running.
THEOREM TypeCorrect == Spec => []TypeOK
<1>1. TypeInv => TypeOK
  BY DEF TypeInv
<1> QED
  BY TypeInit, TypeNext, <1>1, PTL DEF Spec

-----------------------------------------------------------------------------
(* The truth of the journal *)

\* The reviewed transaction is applied once: the first journal write of an apply
\* replaces no journal.
AppliedOnce ==
    /\ review => pc = "idle" /\ disk = None
    /\ pc \in {"preflight", "batch"} => disk = None

\* The inductive invariant behind JournalTruth.
TruthInv == TypeInv /\ EngineTruth(touched) /\ AppliedOnce

LEMMA TruthInit == Init => TruthInv
<1> SUFFICES ASSUME Init PROVE TruthInv
  OBVIOUS
<1>1. \A i \in Entries : EntrySound(fs, touched, "Planned", i)
  BY DEF Init, EngineInit, EntrySound, Moved
<1> QED
  BY <1>1, TypeInit
     DEF Init, EngineInit, TruthInv, EngineTruth, AppliedOnce, Records, SoundJournal, Progress,
         Windows

LEMMA TruthNext == TruthInv /\ [Next]_vars => TruthInv'
<1> SUFFICES ASSUME TruthInv, [Next]_vars PROVE EngineTruth(touched)' /\ AppliedOnce'
  BY TypeNext DEF TruthInv
<1> USE BatchAssumption, NoneAssumption
<1>0. EngineTypeInv /\ EngineTruth(touched) /\ AppliedOnce
  BY EngineTypes DEF TruthInv
<1>1. Records(touched) /\ Progress /\ Windows(touched)
  BY <1>0 DEF EngineTruth
<1>2. ASSUME NEW m \in HardConflictMode, Apply(m) PROVE EngineTruth(touched)' /\ AppliedOnce'
  <2>1. /\ pc' = "preflight" /\ mem' = BuiltTransaction /\ ~review' /\ disk = None
        /\ UNCHANGED <<fs, disk, touched>>
    BY <1>0, <1>2 DEF Apply, BeginApply, AppliedOnce
  <2>2. NotBegun(BuiltTransaction, 1)
    BY DEF NotBegun, BuiltTransaction
  <2> QED
    BY <1>1, <2>1, <2>2 DEF EngineTruth, Records, Progress, Windows, AppliedOnce
<1>3. ASSUME pc = "idle", disk # None
      PROVE  /\ disk \in Transactions /\ Sound(fs, touched, disk) /\ ~review
             /\ Reconciled(disk) \in Transactions /\ Reconciled(disk) # None
             /\ Sound(fs, touched, Reconciled(disk))
  <2>1. disk \in Transactions /\ Sound(fs, touched, disk) /\ ~review
    BY <1>0, <1>1, <1>3 DEF EngineTypeInv, EngineTypeOK, Records, SoundJournal, AppliedOnce
  <2> QED
    BY <2>1, ReconciledType, SoundReconciled
<1>4. CASE run_history
  <2>1. pc = "idle" /\ disk # None /\ disk' = Reconciled(disk)
        /\ UNCHANGED <<fs, touched, review, pc>>
    BY <1>4 DEF run_history
  <2> QED
    BY <1>3, <2>1 DEF EngineTruth, Records, SoundJournal, Progress, Windows, AppliedOnce
<1>5. CASE run_rollback
  <2>1. pc = "idle" /\ disk # None /\ disk' \in {disk, Reconciled(disk)}
        /\ UNCHANGED <<fs, touched, review>>
        /\ (pc' = "idle" \/ (pc' = "rbReconcile" /\ mem' = Reconciled(disk)))
    <3>1. CASE is_rollbackable(Reconciled(disk))
      BY <1>5, <3>1 DEF run_rollback, BeginRollback
    <3>2. CASE ~is_rollbackable(Reconciled(disk))
      BY <1>5, <3>2 DEF run_rollback
    <3> QED
      BY <3>1, <3>2
  <2> QED
    BY <1>3, <2>1 DEF EngineTruth, Records, SoundJournal, Progress, Windows, AppliedOnce
<1>6. CASE Step \/ Cancel
  <2>1. (ApplyStep \/ RollbackStep \/ CancelStep) /\ UNCHANGED <<review, touched>>
    BY <1>6 DEF Step, Cancel
  <2>2. pc = "batch" => disk = None \/ disk' = disk
    BY <1>0 DEF AppliedOnce
  <2>3. PICK t : t = touched /\ t = touched'
    BY <2>1
  <2>4. EngineTruth(t)'
    BY <1>0, <2>1, <2>2, <2>3, TruthApplyStep, TruthRollbackStep, TruthCancelStep
  <2>5. EngineTruth(touched)'
    BY <2>3, <2>4 DEF EngineTruth, Records, Windows
  <2>6. AppliedOnce'
    BY <1>0, <2>1, EngineSteps DEF AppliedOnce
  <2> QED
    BY <2>5, <2>6
<1>7. CASE Crash
  BY <1>0, <1>1, <1>7
     DEF Crash, EngineCrash, Idle, EngineTruth, Records, Progress, Windows, AppliedOnce
<1>8. CASE External
  <2>1. PICK p \in Paths, o \in Objects \cup {None} :
          /\ fs' = [fs EXCEPT ![p] = o]
          /\ touched' = touched \cup {p}
          /\ UNCHANGED <<disk, mem, pc, idx, bad, mode, result, review>>
    BY <1>8 DEF External
  <2>2. fs \in [Paths -> Objects \cup {None}]
    BY <1>0 DEF EngineTypeInv, EngineTypeOK
  <2>3. ASSUME NEW s, NEW i \in Entries, EntrySound(fs, touched, s, i)
        PROVE  EntrySound(fs', touched', s, i)
    BY <2>1, <2>2, <2>3, SoundExternal
  <2>4. Records(touched)'
    BY <1>1, <2>1, <2>3 DEF Records, SoundJournal, Sound
  <2>5. Progress' /\ AppliedOnce'
    BY <1>0, <1>1, <2>1 DEF Progress, NotBegun, AppliedOnce
  <2>6. ASSUME NEW i \in Entries, Apart(touched', i)
        PROVE  Apart(touched, i) /\ fs'[Src[i]] = fs[Src[i]] /\ fs'[Dst[i]] = fs[Dst[i]]
    BY <2>1, <2>2, <2>6 DEF Apart
  <2>7. Windows(touched)'
    BY <1>0, <1>1, <2>1, <2>6 DEF Windows, OnlyAtSource, OnlyAtDestination, EngineTypeInv, IndexInv
  <2> QED
    BY <2>4, <2>5, <2>7 DEF EngineTruth
<1>9. CASE UNCHANGED vars
  BY <1>0, <1>1, <1>9
     DEF vars, EngineTruth, Records, Progress, Windows, NotBegun, OnlyAtSource, OnlyAtDestination,
         AppliedOnce
<1> QED
  BY <1>2, <1>4, <1>5, <1>6, <1>7, <1>8, <1>9 DEF Next

\* The truth of the journal, for every batch and every number of crashes,
\* failed writes, external changes and calls: each entry whose paths nobody
\* else changed is where the durable journal says (journal.rs: a crash never
\* loses the record of what was renamed).
THEOREM JournalIsTrue == Spec => []JournalTruth
<1>1. TruthInv => JournalTruth
  BY DEF TruthInv, EngineTruth, Records, SoundJournal, Sound, EntrySound, JournalTruth, EntryTruth,
         Untouched, Apart, OnlyAtSource, OnlyAtDestination, Moved
<1> QED
  BY TruthInit, TruthNext, <1>1, PTL DEF Spec

-----------------------------------------------------------------------------
(* The files: a step of the program only moves files, and only between the *)
(* paths of the batch.                                                     *)

\* The paths at which an object is (hard links included).
At(f, o) == {p \in Paths : f[p] = o}

\* The number of paths of every object, and every path outside the batch, are as before.
OnlyMoves ==
    /\ \A o \in Objects : Cardinality(At(fs', o)) = Cardinality(At(fs, o))
    /\ \A p \in Paths : fs'[p] # fs[p] => \E i \in Entries : p \in {Src[i], Dst[i]}

LEMMA StandsStill ==
    ASSUME UNCHANGED fs
    PROVE  OnlyMoves
BY DEF OnlyMoves

\* A no-clobber rename moves one object from one path to another.
LEMMA RenameMoves ==
    ASSUME TypeInv, NEW from \in Paths, NEW to \in Paths, rename_noreplace(from, to), NEW o \in Objects
    PROVE  Cardinality(At(fs', o)) = Cardinality(At(fs, o))
<1>1. /\ fs \in [Paths -> Objects \cup {None}] /\ fs[from] # None /\ fs[to] = None
      /\ fs' = [fs EXCEPT ![to] = fs[from], ![from] = None]
  BY DEF TypeInv, TypeOK, EngineTypeOK, rename_noreplace, CanRename
<1>2. from # to /\ o # None
  BY <1>1, NoneAssumption
<1>3. IsFiniteSet(At(fs, o))
  BY PathsAssumption, FS_Subset DEF At
<1>4. CASE fs[from] = o
  <2>1. At(fs', o) = (At(fs, o) \ {from}) \cup {to}
    BY <1>1, <1>2, <1>4 DEF At
  <2>2. from \in At(fs, o) /\ to \notin At(fs, o) \ {from}
    BY <1>1, <1>2, <1>4 DEF At
  <2>3. IsFiniteSet(At(fs, o) \ {from}) /\ Cardinality(At(fs, o) \ {from}) = Cardinality(At(fs, o)) - 1
    BY <1>3, <2>2, FS_RemoveElement
  <2>4. Cardinality((At(fs, o) \ {from}) \cup {to}) = Cardinality(At(fs, o) \ {from}) + 1
    BY <2>2, <2>3, FS_AddElement
  <2>5. Cardinality(At(fs, o)) \in Nat
    BY <1>3, FS_CardinalityType
  <2> QED
    BY <2>1, <2>3, <2>4, <2>5
<1>5. CASE fs[from] # o
  <2>1. At(fs', o) = At(fs, o)
    BY <1>1, <1>2, <1>5 DEF At
  <2> QED
    BY <2>1
<1> QED
  BY <1>4, <1>5

LEMMA RenameStaysInBatch ==
    ASSUME TypeInv, NEW i \in Entries,
           rename_noreplace(Src[i], Dst[i]) \/ rename_noreplace(Dst[i], Src[i])
    PROVE  OnlyMoves
<1>1. Src[i] \in Paths /\ Dst[i] \in Paths
  BY BatchAssumption
<1>2. \A o \in Objects : Cardinality(At(fs', o)) = Cardinality(At(fs, o))
  BY <1>1, RenameMoves
<1>3. \A p \in Paths : fs'[p] # fs[p] => p \in {Src[i], Dst[i]}
  BY <1>1 DEF TypeInv, TypeOK, EngineTypeOK, rename_noreplace
<1> QED
  BY <1>2, <1>3 DEF OnlyMoves

\* Apart from the two renames no step of the program changes the filesystem.
LEMMA StepOnlyMoves ==
    ASSUME TypeInv, [Next]_vars, ~External
    PROVE  OnlyMoves
<1>1. CASE Rename
  BY <1>1, RenameStaysInBatch DEF Rename, TypeInv, IndexInv
<1>2. CASE ReverseRename
  BY <1>2, RenameStaysInBatch DEF ReverseRename, TypeInv, IndexInv
<1>3. ASSUME ApplyStep, ~Rename PROVE UNCHANGED fs
  BY <1>3 DEF ApplyStep, BatchPreflight, RefuseHardConflicts, JournalBatch, EverythingSkipped,
              StartApplying, SkipEntry, PreflightRefuses, CheckpointApplying, RenameFails,
              ConfirmApplied, ConfirmFails, JournalFailure, FinishApply, FailEntry, Idle,
              WriteThen, WriteAndReturn, WriteFails, Continue
<1>4. ASSUME RollbackStep, ~ReverseRename PROVE UNCHANGED fs
  BY <1>4 DEF RollbackStep, RollbackAlreadyDone, RollbackReconciles, RollbackUnresolved,
              EnterRollback, RollbackSkipsEntry, CheckpointRollingBack, RollbackChecks,
              ReverseRenameFails, ConfirmRolledBack, RestoredIdentityDiffers, RollbackStopped,
              FinishRollback, RollbackEntryFails, Idle, WriteThen, WriteAndReturn, WriteFails,
              Continue
<1>5. ASSUME NEW m \in HardConflictMode, Apply(m) PROVE UNCHANGED fs
  BY <1>5 DEF Apply, BeginApply
<1>6. CASE run_history \/ run_rollback \/ Cancel \/ Crash \/ UNCHANGED vars
  <2>1. UNCHANGED fs
    BY <1>6 DEF run_history, run_rollback, BeginRollback, Cancel, CancelStep, RefusedAtStart,
                ApplyCancelled, RollbackCancelled, Crash, EngineCrash, vars, WriteAndReturn,
                WriteFails, Continue
  <2> QED
    BY <2>1, StandsStill
<1> QED
  BY <1>1, <1>2, <1>3, <1>4, <1>5, <1>6, StandsStill DEF Next, Step

\* No step of the program destroys, duplicates or overwrites a file, for every batch
\* and every finite filesystem: each object is at as many paths after the step as
\* before it, and a path outside the batch is left alone (rename_noreplace).
THEOREM FilesAreOnlyMoved == Spec => OnlyMovesBatchFiles
<1>1. Spec => []TypeInv
  BY TypeInit, TypeNext, PTL DEF Spec
<1>2. TypeInv /\ [Next]_vars =>
        [~External =>
           /\ \A o \in Objects :
                Cardinality({p \in Paths : fs'[p] = o}) = Cardinality({p \in Paths : fs[p] = o})
           /\ \A p \in Paths :
                fs'[p] # fs[p] => \E i \in Entries : p \in {Src[i], Dst[i]}]_vars
  BY StepOnlyMoves DEF OnlyMoves, At
<1> QED
  BY <1>1, <1>2, PTL DEF Spec, OnlyMovesBatchFiles
-----------------------------------------------------------------------------
(* The order of the work *)

\* A mutation window of the entry is open.
Flight == {"Applying", "RollingBack"}

\* What every record of the batch satisfies: one window at most, nothing begun
\* after a failed entry, and nothing applied, or possibly applied, after an entry
\* that is undone or being undone.
Ordered(tx) ==
    /\ \A i, j \in Entries : tx.est[i] \in Flight /\ tx.est[j] \in Flight => i = j
    /\ \A i, j \in Entries : i < j =>
         /\ tx.est[i] = "ApplyFailed" => tx.est[j] \in {"Planned", "Skipped"}
         /\ tx.est[i] \in {"RolledBack", "RollingBack"} => tx.est[j] \notin {"Applied"} \cup Flight

NoFlight(tx) == \A i \in Entries : tx.est[i] \notin Flight

\* The apply loop has dealt with every entry before k, the undo with every one after.
DoneBefore(tx, k) == \A i \in Entries : i < k => tx.est[i] \in {"Applied", "Skipped"}
UndoneAfter(tx, k) == \A i \in Entries : i > k => tx.est[i] \notin {"Applied"} \cup Flight

\* What phase p at index k says of the call's copy.
Position(tx, p, k) ==
    /\ p \in {"preflight", "batch", "begin"} => NotBegun(tx, 1)
    /\ p = "loop" => DoneBefore(tx, k) /\ NotBegun(tx, k)
    /\ p \in {"rename", "confirm"} =>
         DoneBefore(tx, k) /\ tx.est[k] = "Applying" /\ NotBegun(tx, k + 1)
    /\ p = "rbLoop" => NoFlight(tx) /\ UndoneAfter(tx, k)
    /\ p \in {"rbCheck", "rbRename", "rbConfirm"} =>
         tx.est[k] = "RollingBack" /\ UndoneAfter(tx, k)

\* The inductive invariant behind OneInFlight and BatchOrder.
OrderInv ==
    /\ TypeInv
    /\ disk # None => Ordered(disk)
    /\ pc # "idle" => Ordered(mem) /\ Position(mem, pc, idx)

-----------------------------------------------------------------------------
\* Updates of a record.

LEMMA EntryOf ==
    ASSUME NEW tx \in Transactions, NEW k \in Entries, NEW s, NEW i \in Entries
    PROVE  WithEntry(tx, k, s).est[i] = IF i = k THEN s ELSE tx.est[i]
BY DEF WithEntry, Transactions

LEMMA StateKeepsEntries ==
    ASSUME NEW tx \in Transactions, NEW st
    PROVE  WithState(tx, st).est = tx.est
BY DEF WithState, Transactions

\* The order is about the entries only.
LEMMA SameEntries ==
    ASSUME NEW tx, NEW ty, ty.est = tx.est, Ordered(tx)
    PROVE  Ordered(ty)
BY DEF Ordered

\* A batch before, and up to, its first failure is ordered.
LEMMA OrderedApply ==
    ASSUME NEW tx, NEW k \in Entries, DoneBefore(tx, k), NotBegun(tx, k + 1),
           tx.est[k] \in EntryState \ {"RollingBack", "RolledBack"}
    PROVE  Ordered(tx)
BY DEF Ordered, DoneBefore, NotBegun, Flight, EntryState, Entries

LEMMA OrderedNotBegun ==
    ASSUME NEW tx, NotBegun(tx, 1)
    PROVE  Ordered(tx)
BY DEF Ordered, NotBegun, Flight, Entries

\* Reconciliation only closes windows.
LEMMA OrderedReconciled ==
    ASSUME NEW tx \in Transactions, Ordered(tx)
    PROVE  Ordered(Reconciled(tx))
<1>1. ASSUME NEW i \in Entries
      PROVE  LET s == tx.est[i]
                 t == Reconciled(tx).est[i]
             IN  /\ s \notin Flight => t = s
                 /\ t \in Flight => s \in Flight
                 /\ s = "Applying" => t \in {"Applying", "Skipped", "Applied"}
                 /\ s = "RollingBack" => t \in {"RollingBack", "RolledBack", "Applied"}
  BY DEF Reconciled, ReconciledEntry, Flight
<1> QED
  BY <1>1 DEF Ordered, Flight

\* Opening the window of an applied entry, and closing it, in an undo.
LEMMA OrderedRollingBack ==
    ASSUME NEW tx \in Transactions, NEW k \in Entries, Ordered(tx), NoFlight(tx),
           UndoneAfter(tx, k), tx.est[k] = "Applied"
    PROVE  LET ty == WithEntry(tx, k, "RollingBack")
           IN  Ordered(ty) /\ UndoneAfter(ty, k) /\ ty.est[k] = "RollingBack"
<1> DEFINE ty == WithEntry(tx, k, "RollingBack")
<1>1. \A i \in Entries : ty.est[i] = IF i = k THEN "RollingBack" ELSE tx.est[i]
  BY EntryOf
<1> HIDE DEF ty
<1>2. Ordered(ty) /\ UndoneAfter(ty, k) /\ ty.est[k] = "RollingBack"
  BY <1>1 DEF Ordered, NoFlight, UndoneAfter, Flight, Entries
<1> QED
  BY <1>2 DEF ty

LEMMA OrderedClosed ==
    ASSUME NEW tx \in Transactions, NEW k \in Entries, Ordered(tx), UndoneAfter(tx, k),
           tx.est[k] = "RollingBack", NEW s \in {"RolledBack", "RollbackFailed"}
    PROVE  LET ty == WithEntry(tx, k, s)
           IN  Ordered(ty) /\ UndoneAfter(ty, k - 1) /\ NoFlight(ty)
<1> DEFINE ty == WithEntry(tx, k, s)
<1>1. \A i \in Entries : ty.est[i] = IF i = k THEN s ELSE tx.est[i]
  BY EntryOf
<1> HIDE DEF ty
<1>2. Ordered(ty) /\ UndoneAfter(ty, k - 1) /\ NoFlight(ty)
  BY <1>1 DEF Ordered, NoFlight, UndoneAfter, Flight, Entries
<1> QED
  BY <1>2 DEF ty

-----------------------------------------------------------------------------
\* The effects every engine step is built from.

LEMMA OrderWriteThen ==
    ASSUME OrderInv, TypeInv', NEW tx \in Transactions, Ordered(tx), NEW next, NEW i,
           Position(tx, next, i), WriteThen(tx, next, i) \/ Continue(tx, next, i)
    PROVE  OrderInv'
<1>1. disk' \in {disk, tx} /\ (pc' = "idle" \/ (mem' = tx /\ pc' = next /\ idx' = i))
  BY DEF WriteThen, WriteFails, Continue, Idle
<1> QED
  BY <1>1 DEF OrderInv

LEMMA OrderReturn ==
    ASSUME OrderInv, TypeInv', NEW tx \in Transactions, Ordered(tx), NEW res,
           WriteAndReturn(tx, res)
    PROVE  OrderInv'
<1>1. disk' \in {disk, tx} /\ pc' = "idle"
  BY DEF WriteAndReturn, WriteFails, Idle
<1> QED
  BY <1>1 DEF OrderInv

LEMMA OrderApplyStep ==
    ASSUME OrderInv, TypeInv', ApplyStep
    PROVE  OrderInv'
<1> USE BatchAssumption
<1>0. pc # "idle" /\ mem \in Transactions /\ Ordered(mem) /\ Position(mem, pc, idx)
  BY DEF OrderInv, TypeInv, TypeOK, EngineTypeOK, ApplyStep, BatchPreflight,
         RefuseHardConflicts, JournalBatch, EverythingSkipped, StartApplying, SkipEntry,
         PreflightRefuses, CheckpointApplying, Rename, RenameFails, ConfirmApplied,
         ConfirmFails, JournalFailure, FinishApply
<1>1. CASE BatchPreflight
  BY <1>0, <1>1 DEF BatchPreflight, OrderInv, Position
<1>2. CASE RefuseHardConflicts
  BY <1>2 DEF RefuseHardConflicts, Idle, OrderInv
<1>3. CASE JournalBatch
  <2> DEFINE tx == [mem EXCEPT !.est = [i \in Entries |->
                       IF i \in bad THEN "Skipped" ELSE mem.est[i]]]
  <2>1. tx \in Transactions
    BY <1>0, BatchType
  <2>2. NotBegun(tx, 1)
    BY <1>0, <1>3 DEF JournalBatch, Position, NotBegun, Transactions
  <2>3. WriteThen(tx, "begin", idx)
    BY <1>3 DEF JournalBatch
  <2> HIDE DEF tx
  <2> QED
    BY <2>1, <2>2, <2>3, OrderedNotBegun, OrderWriteThen DEF Position
<1>4. CASE EverythingSkipped
  BY <1>0, <1>4, TransactionUpdates, StateKeepsEntries, SameEntries, OrderReturn
     DEF EverythingSkipped, TransactionState, EntryState
<1>5. CASE StartApplying
  <2> DEFINE tx == WithState(mem, "Applying")
  <2>1. tx \in Transactions /\ tx.est = mem.est /\ WriteThen(tx, "loop", 1)
    BY <1>0, <1>5, TransactionUpdates, StateKeepsEntries
       DEF StartApplying, TransactionState, EntryState
  <2> HIDE DEF tx
  <2>2. Ordered(tx) /\ DoneBefore(tx, 1) /\ NotBegun(tx, 1)
    BY <1>0, <1>5, <2>1, SameEntries DEF StartApplying, Position, DoneBefore, NotBegun, Entries
  <2> QED
    BY <2>1, <2>2, OrderWriteThen DEF Position
<1>6. CASE SkipEntry
  <2>1. DoneBefore(mem, idx + 1) /\ NotBegun(mem, idx + 1) /\ Continue(mem, "loop", idx + 1)
    BY <1>0, <1>6 DEF SkipEntry, Position, DoneBefore, NotBegun, Entries
  <2> QED
    BY <1>0, <2>1, OrderWriteThen DEF Position
\* The entry the loop is at has dealt-with entries before it and unbegun ones after it.
<1>a. ASSUME pc \in {"loop", "rename", "confirm"}, idx \in Entries
      PROVE  DoneBefore(mem, idx) /\ NotBegun(mem, idx + 1)
  <2>1. DoneBefore(mem, idx) /\ (NotBegun(mem, idx) \/ NotBegun(mem, idx + 1))
    BY <1>0, <1>a DEF Position
  <2>2. \A i \in Entries : i >= idx + 1 => i >= idx
    BY <1>a DEF Entries
  <2> QED
    BY <2>1, <2>2 DEF NotBegun
<1>7. ASSUME pc \in {"loop", "rename", "confirm"}, idx \in Entries, FailEntry PROVE OrderInv'
  <2> DEFINE tx == WithState(WithEntry(mem, idx, "ApplyFailed"), "ApplyFailed")
  <2>1. tx \in Transactions /\ Continue(tx, "fail", idx)
    BY <1>0, <1>7, TransactionUpdates DEF FailEntry, TransactionState, EntryState
  <2>2. \A i \in Entries : tx.est[i] = IF i = idx THEN "ApplyFailed" ELSE mem.est[i]
    BY <1>0, <1>7, EntryOf, StateKeepsEntries, TransactionUpdates
       DEF TransactionState, EntryState
  <2> HIDE DEF tx
  <2>3. DoneBefore(tx, idx) /\ NotBegun(tx, idx + 1)
    <3>1. \A i \in Entries : (i < idx \/ i >= idx + 1) => i # idx
      BY <1>7 DEF Entries
    <3> QED
      BY <1>a, <1>7, <2>2, <3>1 DEF DoneBefore, NotBegun
  <2> QED
    BY <1>7, <2>1, <2>2, <2>3, OrderedApply, OrderWriteThen DEF Position, EntryState
<1>8. CASE PreflightRefuses
  BY <1>8, <1>7 DEF PreflightRefuses
<1>9. CASE CheckpointApplying
  <2> DEFINE tx == WithEntry(mem, idx, "Applying")
  <2>1. tx \in Transactions /\ idx \in Entries /\ WriteThen(tx, "rename", idx)
    BY <1>0, <1>9, TransactionUpdates DEF CheckpointApplying, TransactionState, EntryState
  <2>2. \A i \in Entries : tx.est[i] = IF i = idx THEN "Applying" ELSE mem.est[i]
    BY <1>0, <2>1, EntryOf
  <2> HIDE DEF tx
  <2>3. DoneBefore(tx, idx) /\ NotBegun(tx, idx + 1) /\ tx.est[idx] = "Applying"
    <3>1. \A i \in Entries : (i < idx \/ i >= idx + 1) => i # idx
      BY <2>1 DEF Entries
    <3> QED
      BY <1>a, <1>9, <2>1, <2>2, <3>1 DEF CheckpointApplying, DoneBefore, NotBegun
  <2> QED
    BY <2>1, <2>3, OrderedApply, OrderWriteThen DEF Position, EntryState
<1>10. CASE Rename
  BY <1>0, <1>10 DEF Rename, OrderInv, Position
<1>11. CASE RenameFails
  BY <1>11, <1>7 DEF RenameFails, OrderInv, TypeInv, IndexInv
<1>12. CASE ConfirmApplied
  <2> DEFINE tx == WithEntry(mem, idx, "Applied")
  <2>1. idx \in Entries
    BY <1>12 DEF ConfirmApplied, OrderInv, TypeInv, IndexInv
  <2>2. tx \in Transactions /\ WriteThen(tx, "loop", idx + 1)
    BY <1>0, <1>12, TransactionUpdates DEF ConfirmApplied, TransactionState, EntryState
  <2>3. \A i \in Entries : tx.est[i] = IF i = idx THEN "Applied" ELSE mem.est[i]
    BY <1>0, <2>1, EntryOf
  <2> HIDE DEF tx
  <2>4. DoneBefore(tx, idx) /\ DoneBefore(tx, idx + 1) /\ NotBegun(tx, idx + 1)
    <3>1. DoneBefore(mem, idx) /\ NotBegun(mem, idx + 1)
      BY <1>0, <1>12 DEF ConfirmApplied, Position
    <3>2. \A i \in Entries : i < idx \/ i >= idx + 1 => i # idx
      BY <2>1 DEF Entries
    <3>3. \A i \in Entries : i < idx => mem.est[i] \in {"Applied", "Skipped"}
      BY <3>1 DEF DoneBefore
    <3>4. \A i \in Entries : i < idx + 1 => tx.est[i] \in {"Applied", "Skipped"}
      <4> SUFFICES ASSUME NEW i \in Entries, i < idx + 1
                   PROVE  tx.est[i] \in {"Applied", "Skipped"}
        OBVIOUS
      <4>1. CASE i = idx
        BY <2>3, <4>1
      <4>2. CASE i # idx
        <5>1. i < idx
          BY <2>1, <4>2 DEF Entries
        <5>2. mem.est[i] \in {"Applied", "Skipped"}
          BY <3>3, <5>1
        <5>3. tx.est[i] = mem.est[i]
          BY <2>3, <4>2
        <5> QED
          BY <5>2, <5>3
      <4> QED
        BY <4>1, <4>2
    <3>5. \A i \in Entries : i < idx => tx.est[i] \in {"Applied", "Skipped"}
      BY <2>3, <3>2, <3>3, Zenon
    <3>6. \A i \in Entries : i >= idx + 1 => tx.est[i] = mem.est[i]
      BY <2>3, <3>2, Zenon
    <3>7. NotBegun(tx, idx + 1)
      BY <3>1, <3>6 DEF NotBegun
    <3> QED
      BY <3>4, <3>5, <3>7 DEF DoneBefore
  <2> QED
    BY <2>1, <2>2, <2>3, <2>4, OrderedApply, OrderWriteThen DEF Position, EntryState
<1>13. CASE ConfirmFails
  BY <1>13, <1>7 DEF ConfirmFails, OrderInv, TypeInv, IndexInv
<1>14. CASE JournalFailure
  BY <1>0, <1>14, OrderWriteThen DEF JournalFailure, Position
<1>15. CASE FinishApply
  BY <1>0, <1>15, TransactionUpdates, StateKeepsEntries, SameEntries, OrderReturn
     DEF FinishApply, TransactionState, EntryState
<1> QED
  BY <1>1, <1>2, <1>3, <1>4, <1>5, <1>6, <1>8, <1>9, <1>10, <1>11, <1>12, <1>13, <1>14, <1>15
     DEF ApplyStep

LEMMA OrderRollbackStep ==
    ASSUME OrderInv, TypeInv', RollbackStep
    PROVE  OrderInv'
<1> USE BatchAssumption
<1>0. pc # "idle" /\ mem \in Transactions /\ Ordered(mem) /\ Position(mem, pc, idx)
  BY DEF OrderInv, TypeInv, TypeOK, EngineTypeOK, RollbackStep, RollbackAlreadyDone,
         RollbackReconciles, RollbackUnresolved, EnterRollback, RollbackSkipsEntry,
         CheckpointRollingBack, RollbackChecks, ReverseRename, ReverseRenameFails,
         ConfirmRolledBack, RestoredIdentityDiffers, RollbackStopped, FinishRollback
<1>1. CASE RollbackAlreadyDone
  BY <1>1 DEF RollbackAlreadyDone, Idle, OrderInv
<1>2. CASE RollbackReconciles
  <2>1. Position(mem, "rbEnter", idx) /\ Position(Reconciled(mem), "rbEnter", idx)
    BY DEF Position
  <2>2. CASE Reconciled(mem) # mem
    BY <1>0, <1>2, <2>1, <2>2, ReconciledType, OrderedReconciled, OrderWriteThen
       DEF RollbackReconciles
  <2>3. CASE Reconciled(mem) = mem
    BY <1>0, <1>2, <2>1, <2>3, OrderWriteThen DEF RollbackReconciles
  <2> QED
    BY <2>2, <2>3
<1>3. ASSUME NEW st \in TransactionState
      PROVE  WithState(mem, st) \in Transactions /\ Ordered(WithState(mem, st))
  BY <1>0, TransactionUpdates, StateKeepsEntries, SameEntries DEF EntryState
<1>4. CASE RollbackUnresolved
  BY <1>3, <1>4, OrderReturn DEF RollbackUnresolved, TransactionState
<1>5. CASE EnterRollback
  <2> DEFINE tx == WithState(mem, "RollingBack")
  <2>1. tx \in Transactions /\ Ordered(tx) /\ tx.est = mem.est /\ WriteThen(tx, "rbLoop", N)
    BY <1>0, <1>3, <1>5, StateKeepsEntries DEF EnterRollback, TransactionState
  <2> HIDE DEF tx
  <2>2. NoFlight(tx)
    BY <1>5, <2>1 DEF EnterRollback, InFlight, NoFlight, Flight
  <2>3. UndoneAfter(tx, N)
    BY DEF UndoneAfter, Entries
  <2> QED
    BY <2>1, <2>2, <2>3, OrderWriteThen DEF Position
<1>6. CASE RollbackSkipsEntry
  <2>1. NoFlight(mem) /\ UndoneAfter(mem, idx) /\ idx \in Entries /\ mem.est[idx] # "Applied"
        /\ Continue(mem, IF idx = 1 THEN "rbFinal" ELSE "rbLoop", idx - 1)
    BY <1>0, <1>6 DEF RollbackSkipsEntry, Position
  <2>2. \A i \in Entries : i > idx - 1 => i = idx \/ i > idx
    BY <2>1 DEF Entries
  <2>3. UndoneAfter(mem, idx - 1)
    BY <2>1, <2>2 DEF NoFlight, UndoneAfter
  <2> QED
    BY <1>0, <2>1, <2>3, OrderWriteThen DEF Position
<1>7. CASE CheckpointRollingBack
  <2> DEFINE tx == WithEntry(mem, idx, "RollingBack")
  <2>1. tx \in Transactions /\ idx \in Entries /\ WriteThen(tx, "rbCheck", idx)
    BY <1>0, <1>7, TransactionUpdates DEF CheckpointRollingBack, TransactionState, EntryState
  <2>2. Ordered(tx) /\ UndoneAfter(tx, idx) /\ tx.est[idx] = "RollingBack"
    BY <1>0, <1>7, <2>1, OrderedRollingBack DEF CheckpointRollingBack, Position
  <2> HIDE DEF tx
  <2> QED
    BY <2>1, <2>2, OrderWriteThen DEF Position
\* The window of the entry is closed, one way or the other.
<1>8. ASSUME pc \in {"rbCheck", "rbRename", "rbConfirm"}, NEW s \in {"RolledBack", "RollbackFailed"}
      PROVE  /\ idx \in Entries
             /\ WithEntry(mem, idx, s) \in Transactions
             /\ Ordered(WithEntry(mem, idx, s))
             /\ UndoneAfter(WithEntry(mem, idx, s), idx - 1)
             /\ NoFlight(WithEntry(mem, idx, s))
  <2>1. idx \in Entries /\ UndoneAfter(mem, idx) /\ mem.est[idx] = "RollingBack"
    BY <1>0, <1>8 DEF OrderInv, TypeInv, IndexInv, Position
  <2>2. WithEntry(mem, idx, s) \in Transactions
    BY <1>0, TransactionUpdates DEF TransactionState, EntryState
  <2> QED
    BY <1>0, <2>1, <2>2, OrderedClosed
<1>9. ASSUME pc \in {"rbCheck", "rbRename", "rbConfirm"}, RollbackEntryFails PROVE OrderInv'
  BY <1>8, <1>9, OrderWriteThen DEF RollbackEntryFails, Position
<1>10. CASE RollbackChecks
  <2>1. CASE OnlyAtDestination(idx)
    <3>1. Continue(mem, "rbRename", idx) /\ Position(mem, "rbRename", idx)
      BY <1>0, <1>10, <2>1 DEF RollbackChecks, Position
    <3> QED
      BY <1>0, <3>1, OrderWriteThen
  <2>2. CASE ~OnlyAtDestination(idx)
    BY <1>9, <1>10, <2>2 DEF RollbackChecks
  <2> QED
    BY <2>1, <2>2
<1>11. CASE ReverseRename
  BY <1>0, <1>11 DEF ReverseRename, OrderInv, Position
<1>12. CASE ReverseRenameFails
  BY <1>9, <1>12 DEF ReverseRenameFails
<1>13. CASE ConfirmRolledBack
  <2> DEFINE tx == WithEntry(mem, idx, "RolledBack")
  <2>1. WriteThen(tx, IF idx = 1 THEN "rbFinal" ELSE "rbLoop", idx - 1)
    BY <1>13 DEF ConfirmRolledBack
  <2>2. tx \in Transactions /\ Ordered(tx) /\ UndoneAfter(tx, idx - 1) /\ NoFlight(tx)
    BY <1>8, <1>13 DEF ConfirmRolledBack
  <2> HIDE DEF tx
  <2> QED
    BY <2>1, <2>2, OrderWriteThen DEF Position
<1>14. CASE RestoredIdentityDiffers
  BY <1>9, <1>14 DEF RestoredIdentityDiffers
<1>15. CASE RollbackStopped
  BY <1>3, <1>15, OrderReturn DEF RollbackStopped, TransactionState
<1>16. CASE FinishRollback
  BY <1>3, <1>16, OrderReturn DEF FinishRollback, TransactionState
<1> QED
  BY <1>1, <1>2, <1>4, <1>5, <1>6, <1>7, <1>10, <1>11, <1>12, <1>13, <1>14, <1>15, <1>16
     DEF RollbackStep

-----------------------------------------------------------------------------
LEMMA OrderNext == OrderInv /\ [Next]_vars => OrderInv'
<1> SUFFICES ASSUME OrderInv, [Next]_vars PROVE OrderInv'
  OBVIOUS
<1>0. TypeInv'
  BY TypeNext DEF OrderInv
<1>1. ASSUME NEW m \in HardConflictMode, Apply(m) PROVE OrderInv'
  <2>1. pc' = "preflight" /\ mem' = BuiltTransaction /\ disk' = disk
    BY <1>1 DEF Apply, BeginApply
  <2>2. NotBegun(BuiltTransaction, 1)
    BY DEF NotBegun, BuiltTransaction
  <2>3. Ordered(BuiltTransaction) /\ Position(BuiltTransaction, "preflight", idx')
    BY <2>2, OrderedNotBegun DEF Position
  <2> QED
    BY <1>0, <2>1, <2>3 DEF OrderInv
<1>2. ASSUME disk # None PROVE Ordered(disk) /\ Ordered(Reconciled(disk))
  BY <1>2, OrderedReconciled DEF OrderInv, TypeInv, TypeOK, EngineTypeOK
<1>3. CASE run_history
  BY <1>0, <1>2, <1>3 DEF run_history, OrderInv
<1>4. CASE run_rollback
  <2>1. pc = "idle" /\ disk # None /\ disk' \in {disk, Reconciled(disk)}
        /\ (pc' = "idle" \/ (pc' = "rbReconcile" /\ mem' = Reconciled(disk)))
    <3>1. CASE is_rollbackable(Reconciled(disk))
      BY <1>4, <3>1 DEF run_rollback, BeginRollback
    <3>2. CASE ~is_rollbackable(Reconciled(disk))
      BY <1>4, <3>2 DEF run_rollback
    <3> QED
      BY <3>1, <3>2
  <2>2. Position(Reconciled(disk), "rbReconcile", idx')
    BY DEF Position
  <2> QED
    BY <1>0, <1>2, <2>1, <2>2 DEF OrderInv
<1>5. CASE Step
  BY <1>0, <1>5, OrderApplyStep, OrderRollbackStep DEF Step
<1>6. CASE Cancel
  <2>1. pc # "idle" /\ mem \in Transactions /\ Ordered(mem)
    BY <1>6 DEF Cancel, CancelStep, RefusedAtStart, ApplyCancelled, RollbackCancelled,
                OrderInv, TypeInv, TypeOK, EngineTypeOK
  <2>2. CASE RefusedAtStart
    BY <1>0, <2>2 DEF RefusedAtStart, Idle, OrderInv
  <2>3. CASE ApplyCancelled
    BY <1>0, <2>1, <2>3, TransactionUpdates, StateKeepsEntries, SameEntries, OrderReturn
       DEF ApplyCancelled, TransactionState, EntryState
  <2>4. CASE RollbackCancelled
    BY <1>0, <2>1, <2>4, OrderWriteThen DEF RollbackCancelled, Position
  <2> QED
    BY <1>6, <2>2, <2>3, <2>4 DEF Cancel, CancelStep
<1>7. CASE Crash
  BY <1>0, <1>7 DEF Crash, EngineCrash, Idle, OrderInv
<1>8. CASE External
  BY <1>0, <1>8 DEF External, OrderInv, Ordered, Position, NotBegun, DoneBefore, UndoneAfter, NoFlight
<1>9. CASE UNCHANGED vars
  BY <1>0, <1>9 DEF vars, OrderInv, Ordered, Position, NotBegun, DoneBefore, UndoneAfter, NoFlight
<1> QED
  BY <1>1, <1>3, <1>4, <1>5, <1>6, <1>7, <1>8, <1>9 DEF Next

LEMMA OrderAlways == Spec => []OrderInv
<1>1. Init => OrderInv
  BY TypeInit DEF Init, EngineInit, OrderInv
<1> QED
  BY <1>1, OrderNext, PTL DEF Spec

\* One mutation window at a time, for every batch: whatever crashes, failed writes,
\* cancellations, reconciliations and undos came before, at most one entry of the
\* durable journal is in flight (executor.rs and rollback.rs checkpoint one entry
\* at a time, and rollback refuses to pass an unresolved one).
THEOREM OneWindow == Spec => []OneInFlight
<1>1. OrderInv => OneInFlight
  BY DEF OrderInv, Ordered, OneInFlight, InFlight, Flight
<1> QED
  BY OrderAlways, <1>1, PTL

\* A failure stops the batch and an undo runs backwards, for every batch: in the
\* durable journal nothing after a failed entry was begun and nothing after an
\* undone entry is still applied (executor.rs, rollback.rs).
THEOREM WorkIsOrdered == Spec => []BatchOrder
<1>1. OrderInv => BatchOrder
  BY DEF OrderInv, Ordered, BatchOrder, Flight
<1> QED
  BY OrderAlways, <1>1, PTL

-----------------------------------------------------------------------------
(* No renamed file is ever out of reach of a rollback.  The truth of the   *)
(* journal says that a moved file is recorded as moved; what is left is    *)
(* that a record with such an entry never carries a state that             *)
(* is_rollbackable refuses.                                                *)

\* A record that says it is done has nothing left to settle or to undo.
Closed(tx) ==
    /\ tx.state = "Applied" => SettledClean(tx.est)
    /\ tx.state = "RolledBack" =>
         \A i \in Entries : tx.est[i] \notin {"Applied"} \cup Flight

\* The state a running call's copy has in phase p.
Stage(tx, p) ==
    /\ p \in {"preflight", "batch", "begin"} => tx.state = "Planned"
    /\ p \in {"loop", "rename", "confirm"} => tx.state = "Applying"
    /\ p \in {"fail", "finish"} => tx.state = "ApplyFailed"
    /\ p = "rbEnter" => tx.state # "RolledBack"
    /\ p \in {"rbLoop", "rbCheck", "rbRename", "rbConfirm", "rbFail", "rbFinal"}
         => tx.state = "RollingBack"
    /\ p = "rbFinal" => NoFlight(tx)

\* The inductive invariant behind NothingStranded.
UndoInv ==
    /\ OrderInv
    /\ disk # None => Closed(disk)
    /\ pc # "idle" => Closed(mem) /\ Stage(mem, pc)

-----------------------------------------------------------------------------
\* Only a record in state Applied or RolledBack can fail to be closed.
LEMMA OpenIsClosed ==
    ASSUME NEW tx, tx.state \notin {"Applied", "RolledBack"}
    PROVE  Closed(tx)
BY DEF Closed

LEMMA StateOf ==
    ASSUME NEW tx \in Transactions, NEW st, NEW i, NEW s
    PROVE  /\ WithState(tx, st).state = st /\ WithState(tx, st).est = tx.est
           /\ WithEntry(tx, i, s).state = tx.state
           /\ WithState(WithEntry(tx, i, s), st).state = st
BY DEF WithState, WithEntry, Transactions

\* Reconciliation closes what it completes and never completes a rollback.
LEMMA ClosedReconciled ==
    ASSUME NEW tx \in Transactions, Closed(tx)
    PROVE  Closed(Reconciled(tx)) /\ (tx.state # "RolledBack" => Reconciled(tx).state # "RolledBack")
<1> DEFINE est == [i \in Entries |-> ReconciledEntry(tx.est[i], i)]
<1>1. Reconciled(tx).est = est
      /\ Reconciled(tx).state = IF tx.state = "Applying" /\ SettledClean(est)
                                THEN "Applied" ELSE tx.state
  BY DEF Reconciled
<1>2. \A i \in Entries : tx.est[i] \notin {"Applying", "RollingBack"} => est[i] = tx.est[i]
  BY DEF ReconciledEntry
<1>3. ASSUME tx.state = "Applied" PROVE SettledClean(est)
  BY <1>2, <1>3 DEF Closed, SettledClean
<1>4. ASSUME tx.state = "RolledBack"
      PROVE  \A i \in Entries : est[i] \notin {"Applied"} \cup Flight
  BY <1>2, <1>4 DEF Closed, Flight
<1> HIDE DEF est
<1> QED
  BY <1>1, <1>3, <1>4 DEF Closed

-----------------------------------------------------------------------------
\* The effects every engine step is built from.

LEMMA UndoWriteThen ==
    ASSUME UndoInv, OrderInv', NEW tx \in Transactions, Closed(tx), NEW next, NEW i,
           Stage(tx, next), WriteThen(tx, next, i) \/ Continue(tx, next, i)
    PROVE  UndoInv'
<1>1. disk' \in {disk, tx} /\ (pc' = "idle" \/ (mem' = tx /\ pc' = next))
  BY DEF WriteThen, WriteFails, Continue, Idle
<1> QED
  BY <1>1 DEF UndoInv

LEMMA UndoReturn ==
    ASSUME UndoInv, OrderInv', NEW tx \in Transactions, Closed(tx), NEW res,
           WriteAndReturn(tx, res)
    PROVE  UndoInv'
<1>1. disk' \in {disk, tx} /\ pc' = "idle"
  BY DEF WriteAndReturn, WriteFails, Idle
<1> QED
  BY <1>1 DEF UndoInv

LEMMA UndoApplyStep ==
    ASSUME UndoInv, OrderInv', ApplyStep
    PROVE  UndoInv'
<1> USE BatchAssumption
<1>0. pc # "idle" /\ mem \in Transactions /\ Closed(mem) /\ Stage(mem, pc) /\ Position(mem, pc, idx)
  BY DEF UndoInv, OrderInv, TypeInv, TypeOK, EngineTypeOK, ApplyStep, BatchPreflight,
         RefuseHardConflicts, JournalBatch, EverythingSkipped, StartApplying, SkipEntry,
         PreflightRefuses, CheckpointApplying, Rename, RenameFails, ConfirmApplied,
         ConfirmFails, JournalFailure, FinishApply
<1>1. CASE BatchPreflight
  BY <1>0, <1>1 DEF BatchPreflight, UndoInv, Stage
<1>2. CASE RefuseHardConflicts
  BY <1>2 DEF RefuseHardConflicts, Idle, UndoInv
<1>3. CASE JournalBatch
  <2> DEFINE tx == [mem EXCEPT !.est = [i \in Entries |->
                       IF i \in bad THEN "Skipped" ELSE mem.est[i]]]
  <2>1. tx \in Transactions
    BY <1>0, BatchType
  <2>2. tx.state = "Planned"
    BY <1>0, <1>3 DEF JournalBatch, Stage, Transactions
  <2>3. WriteThen(tx, "begin", idx)
    BY <1>3 DEF JournalBatch
  <2> HIDE DEF tx
  <2> QED
    BY <2>1, <2>2, <2>3, OpenIsClosed, UndoWriteThen DEF Stage
<1>4. ASSUME NEW st \in {"ApplyFailed", "Applying"}
      PROVE  WithState(mem, st) \in Transactions /\ WithState(mem, st).state = st
             /\ Closed(WithState(mem, st))
  BY <1>0, TransactionUpdates, StateOf, OpenIsClosed DEF TransactionState, EntryState
<1>5. CASE EverythingSkipped
  BY <1>4, <1>5, UndoReturn DEF EverythingSkipped
<1>6. CASE StartApplying
  BY <1>4, <1>6, UndoWriteThen DEF StartApplying, Stage
<1>7. CASE SkipEntry
  BY <1>0, <1>7, UndoWriteThen DEF SkipEntry, Stage
<1>8. ASSUME FailEntry PROVE UndoInv'
  <2> DEFINE tx == WithState(WithEntry(mem, idx, "ApplyFailed"), "ApplyFailed")
  <2>1. tx \in Transactions /\ tx.state = "ApplyFailed" /\ Continue(tx, "fail", idx)
    BY <1>0, <1>8, TransactionUpdates, StateOf DEF FailEntry, TransactionState, EntryState
  <2> HIDE DEF tx
  <2> QED
    BY <2>1, OpenIsClosed, UndoWriteThen DEF Stage
<1>9. CASE PreflightRefuses
  BY <1>8, <1>9 DEF PreflightRefuses
<1>10. ASSUME NEW s \in {"Applying", "Applied"}, pc \in {"loop", "confirm"}
       PROVE  WithEntry(mem, idx, s) \in Transactions /\ WithEntry(mem, idx, s).state = "Applying"
              /\ Closed(WithEntry(mem, idx, s))
  BY <1>0, <1>10, TransactionUpdates, StateOf, OpenIsClosed DEF Stage, TransactionState, EntryState
<1>11. CASE CheckpointApplying
  BY <1>10, <1>11, UndoWriteThen DEF CheckpointApplying, Stage
<1>12. CASE Rename
  BY <1>0, <1>12 DEF Rename, UndoInv, Stage
<1>13. CASE RenameFails
  BY <1>8, <1>13 DEF RenameFails
<1>14. CASE ConfirmApplied
  BY <1>10, <1>14, UndoWriteThen DEF ConfirmApplied, Stage
<1>15. CASE ConfirmFails
  BY <1>8, <1>15 DEF ConfirmFails
<1>16. CASE JournalFailure
  BY <1>0, <1>16, UndoWriteThen DEF JournalFailure, Stage
<1>17. CASE FinishApply
  <2>1. CASE pc = "finish"
    BY <1>0, <1>17, <2>1, UndoReturn DEF FinishApply, Stage
  <2>2. CASE pc = "loop" /\ idx = N + 1
    <3> DEFINE tx == WithState(mem, "Applied")
    <3>1. tx \in Transactions /\ tx.state = "Applied" /\ tx.est = mem.est
          /\ WriteAndReturn(tx, "outcome")
      BY <1>0, <1>17, <2>2, TransactionUpdates, StateOf
         DEF FinishApply, Stage, TransactionState, EntryState
    <3>2. SettledClean(mem.est)
      BY <1>0, <2>2 DEF Position, DoneBefore, SettledClean, Entries
    <3> HIDE DEF tx
    <3> QED
      BY <3>1, <3>2, UndoReturn DEF Closed
  <2> QED
    BY <1>17, <2>1, <2>2 DEF FinishApply
<1> QED
  BY <1>1, <1>2, <1>3, <1>5, <1>6, <1>7, <1>9, <1>11, <1>12, <1>13, <1>14, <1>15, <1>16, <1>17
     DEF ApplyStep

LEMMA UndoRollbackStep ==
    ASSUME UndoInv, OrderInv', RollbackStep
    PROVE  UndoInv'
<1>0. pc # "idle" /\ mem \in Transactions /\ Closed(mem) /\ Stage(mem, pc) /\ Position(mem, pc, idx)
  BY DEF UndoInv, OrderInv, TypeInv, TypeOK, EngineTypeOK, RollbackStep, RollbackAlreadyDone,
         RollbackReconciles, RollbackUnresolved, EnterRollback, RollbackSkipsEntry,
         CheckpointRollingBack, RollbackChecks, ReverseRename, ReverseRenameFails,
         ConfirmRolledBack, RestoredIdentityDiffers, RollbackStopped, FinishRollback
<1>1. CASE RollbackAlreadyDone
  BY <1>1 DEF RollbackAlreadyDone, Idle, UndoInv
<1>2. CASE RollbackReconciles
  <2>1. Reconciled(mem) \in Transactions /\ Closed(Reconciled(mem))
        /\ Reconciled(mem).state # "RolledBack" /\ mem.state # "RolledBack"
    BY <1>0, <1>2, ReconciledType, ClosedReconciled DEF RollbackReconciles
  <2>2. CASE Reconciled(mem) # mem
    BY <1>2, <2>1, <2>2, UndoWriteThen DEF RollbackReconciles, Stage
  <2>3. CASE Reconciled(mem) = mem
    BY <1>0, <1>2, <2>1, <2>3, UndoWriteThen DEF RollbackReconciles, Stage
  <2> QED
    BY <2>2, <2>3
<1>3. ASSUME NEW st \in {"RollbackFailed", "RollingBack"}
      PROVE  WithState(mem, st) \in Transactions /\ WithState(mem, st).state = st
             /\ Closed(WithState(mem, st))
  BY <1>0, TransactionUpdates, StateOf, OpenIsClosed DEF TransactionState, EntryState
<1>4. CASE RollbackUnresolved
  BY <1>3, <1>4, UndoReturn DEF RollbackUnresolved
<1>5. CASE EnterRollback
  BY <1>3, <1>5, UndoWriteThen DEF EnterRollback, Stage
<1>6. CASE RollbackSkipsEntry
  <2>1. mem.state = "RollingBack" /\ NoFlight(mem)
    BY <1>0, <1>6 DEF RollbackSkipsEntry, Stage, Position
  <2>2. Stage(mem, "rbFinal") /\ Stage(mem, "rbLoop")
    BY <2>1 DEF Stage
  <2> QED
    BY <1>0, <1>6, <2>2, UndoWriteThen DEF RollbackSkipsEntry
<1>7. ASSUME NEW s \in {"RollingBack", "RolledBack", "RollbackFailed"},
             pc \in {"rbLoop", "rbCheck", "rbRename", "rbConfirm"}
      PROVE  WithEntry(mem, idx, s) \in Transactions /\ WithEntry(mem, idx, s).state = "RollingBack"
             /\ Closed(WithEntry(mem, idx, s))
  BY <1>0, <1>7, TransactionUpdates, StateOf, OpenIsClosed DEF Stage, TransactionState, EntryState
<1>8. CASE CheckpointRollingBack
  BY <1>7, <1>8, UndoWriteThen DEF CheckpointRollingBack, Stage
<1>9. ASSUME RollbackEntryFails, pc \in {"rbCheck", "rbRename", "rbConfirm"} PROVE UndoInv'
  BY <1>7, <1>9, UndoWriteThen DEF RollbackEntryFails, Stage
<1>10. CASE RollbackChecks
  <2>1. CASE OnlyAtDestination(idx)
    BY <1>0, <1>10, <2>1, UndoWriteThen DEF RollbackChecks, Stage
  <2>2. CASE ~OnlyAtDestination(idx)
    BY <1>9, <1>10, <2>2 DEF RollbackChecks
  <2> QED
    BY <2>1, <2>2
<1>11. CASE ReverseRename
  BY <1>0, <1>11 DEF ReverseRename, UndoInv, Stage
<1>12. CASE ReverseRenameFails
  BY <1>9, <1>12 DEF ReverseRenameFails
<1>13. CASE ConfirmRolledBack
  <2> DEFINE tx == WithEntry(mem, idx, "RolledBack")
  <2>1. tx \in Transactions /\ tx.state = "RollingBack" /\ Closed(tx)
    BY <1>7, <1>13 DEF ConfirmRolledBack
  <2>2. NoFlight(tx)
    BY <1>0, <1>13, OrderedClosed DEF ConfirmRolledBack, Position, UndoInv, OrderInv, TypeInv, IndexInv
  <2>3. WriteThen(tx, IF idx = 1 THEN "rbFinal" ELSE "rbLoop", idx - 1)
    BY <1>13 DEF ConfirmRolledBack
  <2> HIDE DEF tx
  <2>4. Stage(tx, "rbFinal") /\ Stage(tx, "rbLoop")
    BY <2>1, <2>2 DEF Stage
  <2> QED
    BY <2>1, <2>3, <2>4, UndoWriteThen
<1>14. CASE RestoredIdentityDiffers
  BY <1>9, <1>14 DEF RestoredIdentityDiffers
<1>15. CASE RollbackStopped
  BY <1>3, <1>15, UndoReturn DEF RollbackStopped
<1>16. CASE FinishRollback
  <2>1. CASE RemainingIncomplete(mem) # {}
    BY <1>3, <1>16, <2>1, UndoReturn DEF FinishRollback
  <2>2. CASE RemainingIncomplete(mem) = {}
    <3> DEFINE tx == WithState(mem, "RolledBack")
    <3>1. tx \in Transactions /\ tx.state = "RolledBack" /\ tx.est = mem.est
          /\ WriteAndReturn(tx, "rolledBack")
      BY <1>0, <1>16, <2>2, TransactionUpdates, StateOf
         DEF FinishRollback, TransactionState, EntryState
    <3>2. \A i \in Entries : mem.est[i] \notin {"Applied"} \cup Flight
      BY <1>0, <1>16, <2>2 DEF FinishRollback, Stage, NoFlight, RemainingIncomplete
    <3> HIDE DEF tx
    <3> QED
      BY <3>1, <3>2, UndoReturn DEF Closed
  <2> QED
    BY <2>1, <2>2
<1> QED
  BY <1>1, <1>2, <1>4, <1>5, <1>6, <1>8, <1>10, <1>11, <1>12, <1>13, <1>14, <1>15, <1>16
     DEF RollbackStep

-----------------------------------------------------------------------------
LEMMA UndoNext == UndoInv /\ [Next]_vars => UndoInv'
<1> SUFFICES ASSUME UndoInv, [Next]_vars PROVE UndoInv'
  OBVIOUS
<1>0. OrderInv'
  BY OrderNext DEF UndoInv
<1>1. ASSUME NEW m \in HardConflictMode, Apply(m) PROVE UndoInv'
  <2>1. BuiltTransaction.state = "Planned"
    BY DEF BuiltTransaction
  <2> QED
    BY <1>0, <1>1, <2>1, OpenIsClosed DEF Apply, BeginApply, UndoInv, Stage
<1>2. ASSUME disk # None PROVE Closed(disk) /\ Closed(Reconciled(disk))
  BY <1>2, ClosedReconciled DEF UndoInv, OrderInv, TypeInv, TypeOK, EngineTypeOK
<1>3. CASE run_history
  BY <1>0, <1>2, <1>3 DEF run_history, UndoInv
<1>4. CASE run_rollback
  <2>1. pc = "idle" /\ disk # None /\ disk' \in {disk, Reconciled(disk)}
        /\ (pc' = "idle" \/ (pc' = "rbReconcile" /\ mem' = Reconciled(disk)))
    <3>1. CASE is_rollbackable(Reconciled(disk))
      BY <1>4, <3>1 DEF run_rollback, BeginRollback
    <3>2. CASE ~is_rollbackable(Reconciled(disk))
      BY <1>4, <3>2 DEF run_rollback
    <3> QED
      BY <3>1, <3>2
  <2> QED
    BY <1>0, <1>2, <2>1 DEF UndoInv, Stage
<1>5. CASE Step
  BY <1>0, <1>5, UndoApplyStep, UndoRollbackStep DEF Step
<1>6. CASE Cancel
  <2>1. pc # "idle" /\ mem \in Transactions /\ Closed(mem) /\ Stage(mem, pc) /\ Position(mem, pc, idx)
    BY <1>6 DEF Cancel, CancelStep, RefusedAtStart, ApplyCancelled, RollbackCancelled,
                UndoInv, OrderInv, TypeInv, TypeOK, EngineTypeOK
  <2>2. CASE RefusedAtStart
    BY <1>0, <2>2 DEF RefusedAtStart, Idle, UndoInv
  <2>3. CASE ApplyCancelled
    BY <1>0, <2>1, <2>3, TransactionUpdates, StateOf, OpenIsClosed, UndoReturn
       DEF ApplyCancelled, TransactionState, EntryState
  <2>4. CASE RollbackCancelled
    <3>1. Stage(mem, "rbFinal")
      BY <2>1, <2>4 DEF RollbackCancelled, Stage, Position
    <3> QED
      BY <1>0, <2>1, <2>4, <3>1, UndoWriteThen DEF RollbackCancelled
  <2> QED
    BY <1>6, <2>2, <2>3, <2>4 DEF Cancel, CancelStep
<1>7. CASE Crash
  BY <1>0, <1>7 DEF Crash, EngineCrash, Idle, UndoInv
<1>8. CASE External
  BY <1>0, <1>8 DEF External, UndoInv, Closed, Stage, SettledClean, NoFlight
<1>9. CASE UNCHANGED vars
  BY <1>0, <1>9 DEF vars, UndoInv, Closed, Stage, SettledClean, NoFlight
<1> QED
  BY <1>1, <1>3, <1>4, <1>5, <1>6, <1>7, <1>8, <1>9 DEF Next

\* No renamed file is stranded, for every batch: between calls, a file that is not
\* back at its source is recorded as moved or in flight and its transaction is
\* offered for rollback, unless undoing that very entry was tried and failed
\* (model.rs, is_rollbackable; reconcile.rs; rollback.rs).
THEOREM NoFileStranded == Spec => []NothingStranded
<1>1. Init => UndoInv
  BY TypeInit DEF Init, EngineInit, OrderInv, UndoInv
<1>2. UndoInv /\ TruthInv => NothingStranded
  <2> SUFFICES ASSUME UndoInv, TruthInv, NEW i \in Entries, Untouched(i), fs[Src[i]] # Obj[i]
               PROVE  /\ disk # None
                      /\ \/ disk.est[i] = "RollbackFailed"
                         \/ /\ disk.est[i] \in {"Applied", "Applying", "RollingBack"}
                            /\ is_rollbackable(disk)
    BY DEF NothingStranded
  <2>1. disk # None
    BY DEF TruthInv, EngineTruth, Records, SoundJournal, EntrySound, Apart, Untouched
  <2>2. disk \in Transactions /\ disk.est[i] \in EntryState /\ disk.state \in TransactionState
    BY <2>1 DEF TruthInv, TypeInv, TypeOK, EngineTypeOK, Transactions
  <2>3. disk.est[i] \in {"RollbackFailed", "Applied", "Applying", "RollingBack"}
    BY <2>1, <2>2
       DEF TruthInv, EngineTruth, Records, SoundJournal, Sound, EntrySound, Apart, Untouched,
           EntryState
  <2>4. CASE disk.est[i] \in {"Applied", "Applying", "RollingBack"}
    <3>1. Closed(disk)
      BY <2>1 DEF UndoInv
    <3>2. disk.state # "RolledBack"
      BY <2>4, <3>1 DEF Closed, Flight
    <3>3. disk.state = "Applied" => disk.est[i] = "Applied"
      BY <2>4, <3>1 DEF Closed, SettledClean
    <3> QED
      BY <2>1, <2>2, <2>4, <3>2, <3>3 DEF is_rollbackable, needs_recovery, TransactionState
  <2> QED
    BY <2>1, <2>3, <2>4
<1> QED
  BY <1>1, <1>2, UndoNext, TruthInit, TruthNext, PTL DEF Spec
-----------------------------------------------------------------------------
(* The ledger *)

\* The truth of the journal says that its record of a file is either "in flight" or
\* where the file is; what is left to show is which records a step may put in flight
\* or take out of it.

\* The entries the durable journal has in flight.
Airborne(d) == IF d = None THEN {} ELSE InFlight(d)

\* What a call has in flight, the journal has too; at the head of either loop
\* the call's copy and the journal are the same.
Synced ==
    /\ pc # "idle" => InFlight(mem) \subseteq Airborne(disk)
    /\ pc \in {"loop", "rbLoop"} => disk = mem

\* The inductive invariant behind the refinement.
LedgerInv == TruthInv /\ OrderInv /\ Synced

\* A step that moves nothing: the journal takes entries out of flight, or puts
\* one in when none was.
JournalStep ==
    /\ UNCHANGED <<fs, touched>>
    /\ Airborne(disk') \subseteq Airborne(disk) \/ Airborne(disk) = {}

-----------------------------------------------------------------------------
\* Updates of a record.

LEMMA FlightUpdates ==
    ASSUME NEW tx \in Transactions, NEW st, NEW i \in Entries, NEW s, s \notin Flight
    PROVE  /\ InFlight(WithState(tx, st)) = InFlight(tx)
           /\ InFlight(WithEntry(tx, i, s)) \subseteq InFlight(tx)
           /\ InFlight(WithState(WithEntry(tx, i, s), st)) \subseteq InFlight(tx)
<1>1. WithState(tx, st).est = tx.est /\ WithState(WithEntry(tx, i, s), st).est = WithEntry(tx, i, s).est
  BY DEF WithState, WithEntry, Transactions
<1>2. \A k \in Entries : WithEntry(tx, i, s).est[k] = IF k = i THEN s ELSE tx.est[k]
  BY EntryOf
<1> QED
  BY <1>1, <1>2 DEF InFlight, Flight

LEMMA FlightReconciled ==
    ASSUME NEW tx \in Transactions
    PROVE  InFlight(Reconciled(tx)) \subseteq InFlight(tx)
BY DEF InFlight, Reconciled, ReconciledEntry

LEMMA NothingAirborne ==
    ASSUME NEW tx \in Transactions, NoFlight(tx)
    PROVE  InFlight(tx) = {} /\ Airborne(tx) = {}
BY NoneAssumption DEF InFlight, Airborne, NoFlight, Flight

-----------------------------------------------------------------------------
\* The effects every engine step is built from.

LEMMA SyncWriteThen ==
    ASSUME NEW tx \in Transactions, NEW next, NEW i, UNCHANGED touched,
           InFlight(tx) \subseteq Airborne(disk) \/ Airborne(disk) = {},
           WriteThen(tx, next, i)
    PROVE  Synced' /\ JournalStep
BY NoneAssumption DEF WriteThen, WriteFails, Idle, Synced, JournalStep, Airborne

LEMMA SyncContinue ==
    ASSUME NEW tx \in Transactions, NEW next, NEW i, UNCHANGED touched,
           InFlight(tx) \subseteq Airborne(disk),
           next \in {"loop", "rbLoop"} => disk = tx,
           Continue(tx, next, i)
    PROVE  Synced' /\ JournalStep
BY DEF Continue, Synced, JournalStep

LEMMA SyncReturn ==
    ASSUME NEW tx \in Transactions, NEW res, UNCHANGED touched,
           InFlight(tx) \subseteq Airborne(disk),
           WriteAndReturn(tx, res)
    PROVE  Synced' /\ JournalStep
BY NoneAssumption DEF WriteAndReturn, WriteFails, Idle, Synced, JournalStep, Airborne

\* A rename leaves the journal alone.
LEMMA SyncRename ==
    ASSUME Synced, UNCHANGED <<disk, mem>>, pc # "idle", pc' \notin {"idle", "loop", "rbLoop"}
    PROVE  Synced'
BY DEF Synced, Airborne

-----------------------------------------------------------------------------
LEMMA SyncApplyStep ==
    ASSUME LedgerInv, ApplyStep, UNCHANGED touched
    PROVE  Synced' /\ (Rename \/ JournalStep)
<1> USE NoneAssumption
<1>0. /\ pc # "idle" /\ mem \in Transactions /\ InFlight(mem) \subseteq Airborne(disk)
      /\ pc \in {"loop", "rbLoop"} => disk = mem
      /\ Position(mem, pc, idx)
  BY DEF LedgerInv, Synced, TruthInv, OrderInv, TypeInv, TypeOK, EngineTypeOK, ApplyStep,
         BatchPreflight, RefuseHardConflicts, JournalBatch, EverythingSkipped, StartApplying,
         SkipEntry, PreflightRefuses, CheckpointApplying, Rename, RenameFails, ConfirmApplied,
         ConfirmFails, JournalFailure, FinishApply
<1>i. pc \in {"rename", "confirm"} => idx \in Entries
  BY DEF LedgerInv, TruthInv, TypeInv, IndexInv
<1>1. CASE BatchPreflight
  BY <1>0, <1>1 DEF BatchPreflight, Synced, JournalStep
<1>2. CASE RefuseHardConflicts
  BY <1>2 DEF RefuseHardConflicts, Idle, Synced, JournalStep
<1>3. CASE JournalBatch
  <2> DEFINE tx == [mem EXCEPT !.est = [i \in Entries |->
                       IF i \in bad THEN "Skipped" ELSE mem.est[i]]]
  <2>1. tx \in Transactions
    BY <1>0, BatchType
  <2>2. InFlight(tx) \subseteq InFlight(mem)
    BY <1>0 DEF InFlight, Transactions
  <2>3. WriteThen(tx, "begin", idx)
    BY <1>3 DEF JournalBatch
  <2> HIDE DEF tx
  <2> QED
    BY <1>0, <2>1, <2>2, <2>3, SyncWriteThen
<1>4. ASSUME NEW st \in TransactionState
      PROVE  /\ WithState(mem, st) \in Transactions
             /\ InFlight(WithState(mem, st)) \subseteq Airborne(disk)
  <2>1. InFlight(WithState(mem, st)) = InFlight(mem)
    BY <1>0, StateKeepsEntries DEF InFlight
  <2> QED
    BY <1>0, <2>1, TransactionUpdates DEF EntryState
<1>5. CASE EverythingSkipped
  BY <1>4, <1>5, SyncReturn DEF EverythingSkipped, TransactionState
<1>6. CASE StartApplying
  BY <1>4, <1>6, SyncWriteThen DEF StartApplying, TransactionState
<1>7. CASE SkipEntry
  BY <1>0, <1>7, SyncContinue DEF SkipEntry
<1>8. ASSUME idx \in Entries, FailEntry PROVE Synced' /\ JournalStep
  <2> DEFINE tx == WithState(WithEntry(mem, idx, "ApplyFailed"), "ApplyFailed")
  <2>1. tx \in Transactions /\ InFlight(tx) \subseteq InFlight(mem) /\ Continue(tx, "fail", idx)
    BY <1>0, <1>8, TransactionUpdates, FlightUpdates
       DEF FailEntry, TransactionState, EntryState, Flight
  <2> HIDE DEF tx
  <2> QED
    BY <1>0, <2>1, SyncContinue
<1>9. CASE PreflightRefuses
  BY <1>8, <1>9 DEF PreflightRefuses
<1>10. CASE CheckpointApplying
  <2> DEFINE tx == WithEntry(mem, idx, "Applying")
  <2>1. tx \in Transactions /\ WriteThen(tx, "rename", idx)
    BY <1>0, <1>10, TransactionUpdates DEF CheckpointApplying, TransactionState, EntryState
  <2>2. NoFlight(mem) /\ disk = mem
    BY <1>0, <1>10 DEF CheckpointApplying, Position, DoneBefore, NotBegun, NoFlight, Flight, Entries
  <2> HIDE DEF tx
  <2> QED
    BY <1>0, <2>1, <2>2, NothingAirborne, SyncWriteThen
<1>11. CASE Rename
  BY <1>0, <1>11, SyncRename DEF Rename, LedgerInv
<1>12. CASE RenameFails
  BY <1>i, <1>8, <1>12 DEF RenameFails
<1>13. CASE ConfirmApplied
  <2> DEFINE tx == WithEntry(mem, idx, "Applied")
  <2>1. idx \in Entries /\ WriteThen(tx, "loop", idx + 1)
    BY <1>i, <1>13 DEF ConfirmApplied
  <2>2. tx \in Transactions /\ InFlight(tx) \subseteq InFlight(mem)
    BY <1>0, <2>1, TransactionUpdates, FlightUpdates DEF TransactionState, EntryState, Flight
  <2> HIDE DEF tx
  <2> QED
    BY <1>0, <2>1, <2>2, SyncWriteThen
<1>14. CASE ConfirmFails
  BY <1>i, <1>8, <1>14 DEF ConfirmFails
<1>15. CASE JournalFailure
  BY <1>0, <1>15, SyncWriteThen DEF JournalFailure
<1>16. CASE FinishApply
  BY <1>0, <1>4, <1>16, SyncReturn DEF FinishApply, TransactionState
<1> QED
  BY <1>1, <1>2, <1>3, <1>5, <1>6, <1>7, <1>9, <1>10, <1>11, <1>12, <1>13, <1>14, <1>15, <1>16
     DEF ApplyStep

LEMMA SyncRollbackStep ==
    ASSUME LedgerInv, RollbackStep, UNCHANGED touched
    PROVE  Synced' /\ (ReverseRename \/ JournalStep)
<1> USE NoneAssumption
<1>0. /\ pc # "idle" /\ mem \in Transactions /\ InFlight(mem) \subseteq Airborne(disk)
      /\ pc \in {"loop", "rbLoop"} => disk = mem
      /\ Position(mem, pc, idx)
  BY DEF LedgerInv, Synced, TruthInv, OrderInv, TypeInv, TypeOK, EngineTypeOK, RollbackStep,
         RollbackAlreadyDone, RollbackReconciles, RollbackUnresolved, EnterRollback,
         RollbackSkipsEntry, CheckpointRollingBack, RollbackChecks, ReverseRename,
         ReverseRenameFails, ConfirmRolledBack, RestoredIdentityDiffers, RollbackStopped,
         FinishRollback
<1>i. pc \in {"rbCheck", "rbRename", "rbConfirm"} => idx \in Entries
  BY DEF LedgerInv, TruthInv, TypeInv, IndexInv
<1>1. CASE RollbackAlreadyDone
  BY <1>1 DEF RollbackAlreadyDone, Idle, Synced, JournalStep
<1>2. CASE RollbackReconciles
  <2>1. Reconciled(mem) \in Transactions /\ InFlight(Reconciled(mem)) \subseteq InFlight(mem)
    BY <1>0, ReconciledType, FlightReconciled
  <2>2. CASE Reconciled(mem) # mem
    BY <1>0, <1>2, <2>1, <2>2, SyncWriteThen DEF RollbackReconciles
  <2>3. CASE Reconciled(mem) = mem
    BY <1>0, <1>2, <2>3, SyncContinue DEF RollbackReconciles
  <2> QED
    BY <2>2, <2>3
<1>3. ASSUME NEW st \in TransactionState
      PROVE  /\ WithState(mem, st) \in Transactions
             /\ InFlight(WithState(mem, st)) \subseteq Airborne(disk)
  <2>1. InFlight(WithState(mem, st)) = InFlight(mem)
    BY <1>0, StateKeepsEntries DEF InFlight
  <2> QED
    BY <1>0, <2>1, TransactionUpdates DEF EntryState
<1>4. CASE RollbackUnresolved
  BY <1>3, <1>4, SyncReturn DEF RollbackUnresolved, TransactionState
<1>5. CASE EnterRollback
  BY <1>3, <1>5, SyncWriteThen DEF EnterRollback, TransactionState
<1>6. CASE RollbackSkipsEntry
  BY <1>0, <1>6, SyncContinue DEF RollbackSkipsEntry
<1>7. CASE CheckpointRollingBack
  <2> DEFINE tx == WithEntry(mem, idx, "RollingBack")
  <2>1. tx \in Transactions /\ WriteThen(tx, "rbCheck", idx)
    BY <1>0, <1>7, TransactionUpdates DEF CheckpointRollingBack, TransactionState, EntryState
  <2>2. NoFlight(mem) /\ disk = mem
    BY <1>0, <1>7 DEF CheckpointRollingBack, Position
  <2> HIDE DEF tx
  <2> QED
    BY <1>0, <2>1, <2>2, NothingAirborne, SyncWriteThen
<1>8. ASSUME idx \in Entries, NEW s \in {"RolledBack", "RollbackFailed"}
      PROVE  /\ WithEntry(mem, idx, s) \in Transactions
             /\ InFlight(WithEntry(mem, idx, s)) \subseteq Airborne(disk)
  <2>1. s \in EntryState /\ s \notin Flight
    BY DEF EntryState, Flight
  <2> QED
    BY <1>0, <1>8, <2>1, TransactionUpdates, FlightUpdates DEF TransactionState
<1>9. ASSUME idx \in Entries, RollbackEntryFails PROVE Synced' /\ JournalStep
  BY <1>8, <1>9, SyncContinue DEF RollbackEntryFails
<1>10. CASE RollbackChecks
  <2>1. CASE OnlyAtDestination(idx)
    BY <1>0, <1>10, <2>1, SyncContinue DEF RollbackChecks
  <2>2. CASE ~OnlyAtDestination(idx)
    BY <1>i, <1>9, <1>10, <2>2 DEF RollbackChecks
  <2> QED
    BY <2>1, <2>2
<1>11. CASE ReverseRename
  BY <1>0, <1>11, SyncRename DEF ReverseRename, LedgerInv
<1>12. CASE ReverseRenameFails
  BY <1>i, <1>9, <1>12 DEF ReverseRenameFails
<1>13. CASE ConfirmRolledBack
  BY <1>i, <1>8, <1>13, SyncWriteThen DEF ConfirmRolledBack
<1>14. CASE RestoredIdentityDiffers
  BY <1>i, <1>9, <1>14 DEF RestoredIdentityDiffers
<1>15. CASE RollbackStopped
  BY <1>3, <1>15, SyncReturn DEF RollbackStopped, TransactionState
<1>16. CASE FinishRollback
  BY <1>3, <1>16, SyncReturn DEF FinishRollback, TransactionState
<1> QED
  BY <1>1, <1>2, <1>4, <1>5, <1>6, <1>7, <1>10, <1>11, <1>12, <1>13, <1>14, <1>15, <1>16
     DEF RollbackStep

-----------------------------------------------------------------------------
\* Every step is a rename, a step of another program, or one that moves nothing.
LEMMA SyncNext ==
    ASSUME LedgerInv, [Next]_vars
    PROVE  /\ Synced'
           /\ \/ (Rename \/ ReverseRename) /\ UNCHANGED touched
              \/ External
              \/ JournalStep
<1> USE NoneAssumption
<1>1. ASSUME NEW m \in HardConflictMode, Apply(m) PROVE Synced' /\ JournalStep
  <2>1. InFlight(BuiltTransaction) = {}
    BY DEF InFlight, BuiltTransaction
  <2> QED
    BY <1>1, <2>1 DEF Apply, BeginApply, Synced, JournalStep
<1>2. ASSUME disk # None
      PROVE  disk \in Transactions /\ InFlight(Reconciled(disk)) \subseteq InFlight(disk)
             /\ Reconciled(disk) \in Transactions
  BY <1>2, FlightReconciled, ReconciledType DEF LedgerInv, TruthInv, TypeInv, TypeOK, EngineTypeOK
<1>3. CASE run_history
  BY <1>2, <1>3 DEF run_history, Synced, JournalStep, Airborne
<1>4. CASE run_rollback
  <2>1. pc = "idle" /\ disk # None /\ disk' \in {disk, Reconciled(disk)}
        /\ UNCHANGED <<fs, touched>>
        /\ (pc' = "idle" \/ (pc' = "rbReconcile" /\ mem' = Reconciled(disk)))
    <3>1. CASE is_rollbackable(Reconciled(disk))
      BY <1>4, <3>1 DEF run_rollback, BeginRollback
    <3>2. CASE ~is_rollbackable(Reconciled(disk))
      BY <1>4, <3>2 DEF run_rollback
    <3> QED
      BY <3>1, <3>2
  <2> QED
    BY <1>2, <2>1 DEF Synced, JournalStep, Airborne
<1>5. CASE Step
  BY <1>5, SyncApplyStep, SyncRollbackStep DEF Step
<1>6. CASE Cancel
  <2>1. pc # "idle" /\ mem \in Transactions /\ InFlight(mem) \subseteq Airborne(disk)
        /\ UNCHANGED touched
    BY <1>6 DEF Cancel, CancelStep, RefusedAtStart, ApplyCancelled, RollbackCancelled,
                LedgerInv, Synced, TruthInv, TypeInv, TypeOK, EngineTypeOK
  <2>2. CASE RefusedAtStart
    BY <2>1, <2>2 DEF RefusedAtStart, Idle, Synced, JournalStep
  <2>3. CASE ApplyCancelled
    <3>1. WithState(mem, "ApplyFailed") \in Transactions
      BY <2>1, TransactionUpdates DEF TransactionState, EntryState
    <3>2. InFlight(WithState(mem, "ApplyFailed")) = InFlight(mem)
      BY <2>1, StateKeepsEntries DEF InFlight
    <3> QED
      BY <2>1, <2>3, <3>1, <3>2, SyncReturn DEF ApplyCancelled
  <2>4. CASE RollbackCancelled
    BY <2>1, <2>4, SyncContinue DEF RollbackCancelled
  <2> QED
    BY <1>6, <2>2, <2>3, <2>4 DEF Cancel, CancelStep
<1>7. CASE Crash
  BY <1>7 DEF Crash, EngineCrash, Idle, Synced, JournalStep
<1>8. CASE External
  BY <1>8 DEF External, LedgerInv, Synced, InFlight, Airborne
<1>9. CASE UNCHANGED vars
  BY <1>9 DEF vars, LedgerInv, Synced, JournalStep, InFlight, Airborne
<1> QED
  BY <1>1, <1>3, <1>4, <1>5, <1>6, <1>7, <1>8, <1>9 DEF Next

LEMMA LedgerInit == Init => LedgerInv
<1>1. Init => OrderInv
  BY TypeInit DEF Init, EngineInit, OrderInv
<1> QED
  BY <1>1, TruthInit DEF LedgerInv, Synced, Init, EngineInit

LEMMA LedgerNext == LedgerInv /\ [Next]_vars => LedgerInv'
BY TruthNext, OrderNext, SyncNext DEF LedgerInv

-----------------------------------------------------------------------------
(* The mapping *)

\* The journal's record of a file nobody else touched is "either" while the
\* entry is in flight, and otherwise where the file is.
LEMMA RecordIsPlace ==
    ASSUME LedgerInv, NEW i \in Entries
    PROVE  JournalSays(i) = IF Untouched(i) /\ i \in Airborne(disk) THEN "either" ELSE Where(i)
<1> USE NoneAssumption, BatchAssumption
<1>1. CASE ~Untouched(i)
  BY <1>1 DEF JournalSays, Where
<1>2. CASE Untouched(i) /\ disk = None
  <2>1. EntrySound(fs, touched, "Planned", i)
    BY <1>2 DEF LedgerInv, TruthInv, EngineTruth, Records, SoundJournal
  <2> QED
    BY <1>2, <2>1 DEF EntrySound, Apart, Untouched, JournalSays, Where, Airborne
<1>3. CASE Untouched(i) /\ disk # None
  <2>1. EntrySound(fs, touched, disk.est[i], i) /\ disk.est[i] \in EntryState
    BY <1>3
       DEF LedgerInv, TruthInv, EngineTruth, Records, SoundJournal, Sound, TypeInv, TypeOK,
           EngineTypeOK, Transactions
  <2>2. Obj[i] # None
    OBVIOUS
  <2> QED
    BY <1>3, <2>1, <2>2
       DEF EntrySound, Apart, Untouched, JournalSays, Where, Airborne, InFlight, EntryState
<1> QED
  BY <1>1, <1>2, <1>3

RecordsArePlaces ==
    \A i \in Entries :
        JournalSays(i) = IF Untouched(i) /\ i \in Airborne(disk) THEN "either" ELSE Where(i)

LEMMA AllRecordsArePlaces == LedgerInv => RecordsArePlaces
BY RecordIsPlace DEF RecordsArePlaces

\* At most one entry is in flight.
OneInTheAir == \A i, j \in Airborne(disk) : i = j

LEMMA OneAirborne == LedgerInv => OneInTheAir
BY DEF OneInTheAir, LedgerInv, OrderInv, Ordered, Airborne, InFlight, Flight

\* A step that moves nothing announces a file, settles one, or leaves the
\* ledger as it is.
LEMMA JournalStepMaps ==
    ASSUME LedgerInv, LedgerInv', JournalStep
    PROVE  [Ledger!Next]_<<WhereMap, JournalMap>>
<1>1. \A i \in Entries : Where(i)' = Where(i) /\ Untouched(i)' = Untouched(i)
  BY DEF JournalStep, Where, Untouched
<1>2. WhereMap' = WhereMap
  BY <1>1 DEF WhereMap
<1>3. \A i \in Entries :
        JournalMap[i] = IF Untouched(i) /\ i \in Airborne(disk) THEN "either" ELSE Where(i)
  BY AllRecordsArePlaces DEF JournalMap, RecordsArePlaces
<1>p. RecordsArePlaces' /\ OneInTheAir'
  BY AllRecordsArePlaces, OneAirborne, PTL
<1>4. \A i \in Entries :
        JournalMap'[i] = IF Untouched(i) /\ i \in Airborne(disk') THEN "either" ELSE Where(i)
  BY <1>1, <1>p DEF JournalMap, RecordsArePlaces
<1>5. /\ JournalMap = [i \in Entries |-> JournalMap[i]]
      /\ JournalMap' = [i \in Entries |-> JournalMap'[i]]
      /\ Airborne(disk) \subseteq Entries /\ Airborne(disk') \subseteq Entries
  BY DEF JournalMap, Airborne, InFlight
<1>6. \A i \in Entries : Where(i) \in {"source", "destination", "foreign"}
        /\ (Where(i) = "foreign" <=> ~Untouched(i)) /\ WhereMap[i] = Where(i)
  BY DEF Where, WhereMap
<1>7. \A i, j \in Airborne(disk) : i = j
  BY OneAirborne DEF OneInTheAir
<1>8. \A i, j \in Airborne(disk') : i = j
  BY <1>p DEF OneInTheAir
<1>9. CASE Airborne(disk') = Airborne(disk)
  BY <1>2, <1>3, <1>4, <1>5, <1>9
<1>10. CASE Airborne(disk) = {} /\ Airborne(disk') # {}
  <2>1. PICK k \in Entries : Airborne(disk') = {k}
    BY <1>5, <1>8, <1>10
  <2>2. CASE ~Untouched(k)
    BY <1>2, <1>3, <1>4, <1>5, <1>10, <2>1, <2>2
  <2>3. CASE Untouched(k)
    <3>1. JournalMap' = [JournalMap EXCEPT ![k] = "either"]
      BY <1>3, <1>4, <1>5, <1>10, <2>1, <2>3
    <3>2. \A j \in Entries : JournalMap[j] # "either"
      BY <1>3, <1>6, <1>10
    <3> QED
      BY <1>2, <1>3, <1>6, <1>10, <2>3, <3>1, <3>2 DEF Ledger!Next, Ledger!Announce
  <2> QED
    BY <2>2, <2>3
<1>11. CASE Airborne(disk) # {} /\ Airborne(disk') = {}
  <2>1. PICK k \in Entries : Airborne(disk) = {k}
    BY <1>5, <1>7, <1>11
  <2>2. CASE ~Untouched(k)
    BY <1>2, <1>3, <1>4, <1>5, <1>11, <2>1, <2>2
  <2>3. CASE Untouched(k)
    <3>1. JournalMap' = [JournalMap EXCEPT ![k] = WhereMap[k]]
      BY <1>3, <1>4, <1>5, <1>6, <1>11, <2>1, <2>3
    <3> QED
      BY <1>2, <1>3, <2>1, <2>3, <3>1 DEF Ledger!Next, Ledger!Settle
  <2> QED
    BY <2>2, <2>3
<1> QED
  BY <1>7, <1>8, <1>9, <1>10, <1>11 DEF JournalStep

\* A rename moves a file the ledger has announced.
LEMMA RenameMaps ==
    ASSUME LedgerInv, LedgerInv', Rename \/ ReverseRename, UNCHANGED touched
    PROVE  [Ledger!Next]_<<WhereMap, JournalMap>>
<1> USE BatchAssumption, NoneAssumption
<1>k. PICK k \in Entries : k = idx
  BY DEF LedgerInv, TruthInv, TypeInv, IndexInv, Rename, ReverseRename
<1>1. /\ disk = mem /\ disk' = disk /\ disk \in Transactions
      /\ disk.est[k] \in {"Applying", "RollingBack"}
      /\ EntrySound(fs, touched, disk.est[k], k)
      /\ Untouched(k) => IF Rename THEN OnlyAtSource(k) ELSE OnlyAtDestination(k)
  BY <1>k DEF LedgerInv, TruthInv, EngineTruth, Windows, Records, SoundJournal, Sound, Apart,
         Untouched, TypeInv, IndexInv, TypeOK, EngineTypeOK, Rename, ReverseRename
<1>2. /\ fs \in [Paths -> Objects \cup {None}] /\ Src[k] \in Paths /\ Dst[k] \in Paths
      /\ Src[k] # Dst[k]
      /\ \/ Rename /\ fs' = [fs EXCEPT ![Dst[k]] = fs[Src[k]], ![Src[k]] = None]
         \/ ReverseRename /\ fs' = [fs EXCEPT ![Src[k]] = fs[Dst[k]], ![Dst[k]] = None]
  BY <1>k DEF Rename, ReverseRename, rename_noreplace, LedgerInv, TruthInv, TypeInv, TypeOK,
              EngineTypeOK
<1>3. ~(Rename /\ ReverseRename)
  BY DEF Rename, ReverseRename
<1>4. \A i \in Entries \ {k} : fs'[Src[i]] = fs[Src[i]]
  BY <1>1, <1>2
<1>5. /\ \A i \in Entries : Untouched(i)' = Untouched(i)
      /\ \A i \in Entries \ {k} : Where(i)' = Where(i)
  BY <1>4 DEF Untouched, Where
<1>6. JournalMap' = JournalMap
  BY <1>1, <1>5 DEF JournalMap, JournalSays
<1>7. CASE ~Untouched(k)
  <2>1. Where(k)' = Where(k)
    BY <1>1, <1>5, <1>7 DEF Where
  <2> QED
    BY <1>5, <1>6, <2>1 DEF WhereMap
<1>8. CASE Untouched(k)
  <2>1. JournalMap[k] = "either"
    BY <1>1, <1>8 DEF JournalMap, JournalSays
  <2>2. CASE Rename
    <3>1. fs[Src[k]] = Obj[k] /\ fs'[Src[k]] = None /\ Obj[k] # None
      BY <1>1, <1>2, <1>3, <1>8, <2>2 DEF OnlyAtSource
    <3>2. Where(k) = "source" /\ Where(k)' = "destination"
      BY <1>1, <1>5, <1>8, <3>1 DEF Where
    <3>3. WhereMap' = [WhereMap EXCEPT ![k] = IF @ = "source" THEN "destination" ELSE "source"]
      BY <1>1, <1>5, <3>2 DEF WhereMap
    <3> QED
      BY <1>1, <1>6, <2>1, <3>3 DEF Ledger!Next, Ledger!Move
  <2>3. CASE ReverseRename
    <3>1. fs[Src[k]] = None /\ fs'[Src[k]] = Obj[k] /\ Obj[k] # None
      BY <1>1, <1>2, <1>3, <1>8, <2>3 DEF OnlyAtDestination
    <3>2. Where(k) = "destination" /\ Where(k)' = "source"
      BY <1>1, <1>5, <1>8, <3>1 DEF Where
    <3>3. WhereMap' = [WhereMap EXCEPT ![k] = IF @ = "source" THEN "destination" ELSE "source"]
      BY <1>1, <1>5, <3>2 DEF WhereMap
    <3> QED
      BY <1>1, <1>6, <2>1, <3>3 DEF Ledger!Next, Ledger!Move
  <2> QED
    BY <2>2, <2>3
<1> QED
  BY <1>7, <1>8

\* Another program's change makes the files at that path foreign.
LEMMA ExternalMaps ==
    ASSUME LedgerInv, External
    PROVE  [Ledger!Next]_<<WhereMap, JournalMap>>
<1> USE BatchAssumption
<1> DEFINE S == {i \in Entries : ~Untouched(i)'}
<1>1. PICK p \in Paths, o \in Objects \cup {None} :
        fs' = [fs EXCEPT ![p] = o] /\ touched' = touched \cup {p} /\ disk' = disk
  BY DEF External
<1>2. fs \in [Paths -> Objects \cup {None}]
  BY DEF LedgerInv, TruthInv, TypeInv, TypeOK, EngineTypeOK
<1>3. ASSUME NEW i \in Entries, i \notin S
      PROVE  Untouched(i)' /\ Untouched(i) /\ fs'[Src[i]] = fs[Src[i]]
  BY <1>1, <1>2, <1>3 DEF Untouched
<1>4. WhereMap' = [i \in Entries |-> IF i \in S THEN "foreign" ELSE WhereMap[i]]
  BY <1>3 DEF WhereMap, Where
<1>5. JournalMap' = [i \in Entries |-> IF i \in S THEN "foreign" ELSE JournalMap[i]]
  BY <1>1, <1>3 DEF JournalMap, JournalSays
<1>6. S \in SUBSET Entries
  OBVIOUS
<1> HIDE DEF S
<1> QED
  BY <1>4, <1>5, <1>6 DEF Ledger!Next, Ledger!Interfere

\* The engine, with every crash, failed write, cancellation, recovery, repeated
\* rollback and change by another program, implements the write-ahead ledger, for
\* every batch: a file moves only while the durable journal has it in flight, one at
\* a time, and the journal commits itself only to where the file is (executor.rs,
\* rollback.rs, reconcile.rs).
THEOREM EngineImplementsLedger == Spec => ImplementsLedger
<1>1. Init => Ledger!Init
  <2> SUFFICES ASSUME Init PROVE Ledger!Init
    OBVIOUS
  <2>1. \A i \in Entries : Where(i) = "source" /\ JournalSays(i) = "source"
    BY DEF Init, EngineInit, Where, JournalSays, Untouched
  <2> QED
    BY <2>1 DEF Ledger!Init, WhereMap, JournalMap
<1>2. LedgerInv /\ LedgerInv' /\ [Next]_vars => [Ledger!Next]_<<WhereMap, JournalMap>>
  BY SyncNext, JournalStepMaps, RenameMaps, ExternalMaps
<1> QED
  BY LedgerInit, LedgerNext, <1>1, <1>2, PTL DEF Spec, ImplementsLedger, Ledger!Spec
=============================================================================
