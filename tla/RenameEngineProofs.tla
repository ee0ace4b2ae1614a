------------------------- MODULE RenameEngineProofs -------------------------
(***************************************************************************)
(* What every caller of the rename engine may rely on, for every batch:    *)
(* its steps keep the types, and they keep the journal true of the files   *)
(* that no other program has changed.                                      *)
(***************************************************************************)
EXTENDS RenameEngine, TLAPS

-----------------------------------------------------------------------------
(* Types *)

\* A step of the engine is made by a call that runs; a call that has not journaled
\* its batch yet has written nothing.
LEMMA EngineSteps ==
    ASSUME ApplyStep \/ RollbackStep \/ CancelStep
    PROVE  /\ pc # "idle"
           /\ pc' \in {"preflight", "batch"} => pc = "preflight" /\ disk' = disk
<1>1. ASSUME ApplyStep
      PROVE  pc # "idle" /\ (pc' \in {"preflight", "batch"} => pc = "preflight" /\ disk' = disk)
  BY <1>1 DEF ApplyStep, BatchPreflight, RefuseHardConflicts, JournalBatch, EverythingSkipped,
              StartApplying, SkipEntry, PreflightRefuses, CheckpointApplying, Rename, RenameFails,
              ConfirmApplied, ConfirmFails, JournalFailure, FinishApply, FailEntry, Idle,
              WriteThen, WriteAndReturn, WriteFails, Continue
<1>2. ASSUME RollbackStep
      PROVE  pc # "idle" /\ pc' \notin {"preflight", "batch"}
  BY <1>2 DEF RollbackStep, RollbackAlreadyDone, RollbackReconciles, RollbackUnresolved,
              EnterRollback, RollbackSkipsEntry, CheckpointRollingBack, RollbackChecks,
              ReverseRename, ReverseRenameFails, ConfirmRolledBack, RestoredIdentityDiffers,
              RollbackStopped, FinishRollback, RollbackEntryFails, Idle, WriteThen, WriteAndReturn,
              WriteFails, Continue
<1>3. ASSUME CancelStep
      PROVE  pc # "idle" /\ pc' \notin {"preflight", "batch"}
  BY <1>3 DEF CancelStep, RefusedAtStart, ApplyCancelled, RollbackCancelled, Idle, WriteAndReturn,
              WriteFails, Continue
<1> QED
  BY <1>1, <1>2, <1>3

\* The engine's loop index names an entry inside a mutation window.
IndexInv ==
    pc \in {"rename", "confirm", "rbCheck", "rbRename", "rbConfirm"} => idx \in Entries

\* A call that runs has returned nothing yet.
Silent == pc # "idle" => result = "none"

EngineTypeInv == EngineTypeOK /\ IndexInv /\ Silent

\* The updates the engine makes keep a transaction a transaction.
LEMMA TransactionUpdates ==
    ASSUME NEW tx \in Transactions, NEW i, NEW s \in EntryState, NEW st \in TransactionState
    PROVE  /\ WithEntry(tx, i, s) \in Transactions
           /\ WithState(tx, st) \in Transactions
           /\ WithState(WithEntry(tx, i, s), st) \in Transactions
BY DEF WithEntry, WithState, Transactions

\* Reconciliation yields a transaction.
LEMMA ReconciledType ==
    ASSUME NEW tx \in Transactions
    PROVE  Reconciled(tx) \in Transactions
<1>1. \A i \in Entries : ReconciledEntry(tx.est[i], i) \in EntryState
  BY DEF ReconciledEntry, Transactions, EntryState
<1>2. tx.state \in TransactionState /\ "Applied" \in TransactionState
  BY DEF Transactions, TransactionState
<1> QED
  BY <1>1, <1>2 DEF Reconciled, Transactions

\* A journaled batch is a transaction.
LEMMA BatchType ==
    ASSUME NEW tx \in Transactions, NEW B
    PROVE  [tx EXCEPT !.est = [i \in Entries |-> IF i \in B THEN "Skipped" ELSE tx.est[i]]]
             \in Transactions
BY DEF Transactions, EntryState

LEMMA BuiltType == BuiltTransaction \in Transactions
BY DEF BuiltTransaction, Transactions, TransactionState, EntryState

LEMMA EngineTypeInit == EngineInit => EngineTypeInv
BY BatchAssumption, NoneAssumption
   DEF EngineInit, EngineTypeInv, EngineTypeOK, IndexInv, Silent, Phases, HardConflictMode, Results

\* The effects every engine step is built from preserve the types.
LEMMA TypeWriteThen ==
    ASSUME EngineTypeInv, NEW tx \in Transactions, NEW next \in Phases \ {"idle"},
           NEW i \in 0..(N + 1),
           next \in {"rename", "confirm", "rbCheck", "rbRename", "rbConfirm"} => i \in Entries,
           pc # "idle",
           WriteThen(tx, next, i) \/ Continue(tx, next, i)
    PROVE  EngineTypeInv'
<1> USE BatchAssumption, NoneAssumption
<1>1. CASE WriteFails
  BY <1>1 DEF EngineTypeInv, EngineTypeOK, IndexInv, Silent, WriteFails, Idle, Phases, Results
<1>2. CASE /\ mem' = tx /\ pc' = next /\ idx' = i /\ disk' \in {disk, tx}
           /\ UNCHANGED <<fs, bad, mode, result>> /\ pc # "idle"
  BY <1>2 DEF EngineTypeInv, EngineTypeOK, IndexInv, Silent
<1> QED
  BY <1>1, <1>2 DEF WriteThen, Continue

LEMMA TypeWriteAndReturn ==
    ASSUME EngineTypeInv, NEW tx \in Transactions, NEW res \in Results,
           WriteAndReturn(tx, res)
    PROVE  EngineTypeInv'
BY BatchAssumption, NoneAssumption
   DEF EngineTypeInv, EngineTypeOK, IndexInv, Silent, WriteAndReturn, WriteFails, Idle,
       Phases, Results

\* A rename rearranges what is at the paths.
LEMMA RenameType ==
    ASSUME EngineTypeInv, NEW p \in Paths, NEW q \in Paths, rename_noreplace(p, q)
    PROVE  fs' \in [Paths -> Objects \cup {None}]
BY DEF EngineTypeInv, EngineTypeOK, rename_noreplace

LEMMA TypeApplyStep ==
    ASSUME EngineTypeInv, ApplyStep
    PROVE  EngineTypeInv'
<1> USE BatchAssumption, NoneAssumption
<1>0. ASSUME pc # "idle" PROVE mem \in Transactions
  BY <1>0 DEF EngineTypeInv, EngineTypeOK
<1>1. CASE BatchPreflight
  BY <1>1 DEF BatchPreflight, EngineTypeInv, EngineTypeOK, IndexInv, Silent, Phases, ApplyPhases,
              Entries
<1>2. CASE RefuseHardConflicts
  BY <1>2 DEF RefuseHardConflicts, Idle, EngineTypeInv, EngineTypeOK, IndexInv, Silent, Phases,
              Results
<1>3. CASE JournalBatch
  <2>1. pc # "idle" /\ idx \in 0..(N + 1)
    BY <1>3 DEF JournalBatch, EngineTypeInv, EngineTypeOK
  <2> DEFINE tx == [mem EXCEPT !.est = [i \in Entries |->
                       IF i \in bad THEN "Skipped" ELSE mem.est[i]]]
  <2>2. tx \in Transactions
    BY <1>0, <2>1, BatchType
  <2>3. WriteThen(tx, "begin", idx)
    BY <1>3 DEF JournalBatch
  <2> HIDE DEF tx
  <2> QED
    BY <2>1, <2>2, <2>3, TypeWriteThen DEF Phases, ApplyPhases
<1>4. CASE EverythingSkipped
  <2>1. pc # "idle" /\ WriteAndReturn(WithState(mem, "ApplyFailed"), "outcome")
    BY <1>4 DEF EverythingSkipped
  <2>2. WithState(mem, "ApplyFailed") \in Transactions
    BY <1>0, <2>1, TransactionUpdates DEF TransactionState, EntryState
  <2> QED
    BY <2>1, <2>2, TypeWriteAndReturn DEF Results
<1>5. CASE StartApplying
  <2>1. pc # "idle" /\ WriteThen(WithState(mem, "Applying"), "loop", 1)
    BY <1>5 DEF StartApplying
  <2>2. WithState(mem, "Applying") \in Transactions
    BY <1>0, <2>1, TransactionUpdates DEF TransactionState, EntryState
  <2> QED
    BY <2>1, <2>2, TypeWriteThen DEF Phases, ApplyPhases
<1>6. CASE SkipEntry
  BY <1>6, <1>0, TypeWriteThen DEF SkipEntry, Phases, ApplyPhases, Entries
<1>7. ASSUME pc \in {"loop", "rename", "confirm"}, idx \in Entries, FailEntry PROVE EngineTypeInv'
  <2>1. WithState(WithEntry(mem, idx, "ApplyFailed"), "ApplyFailed") \in Transactions
    BY <1>0, <1>7, TransactionUpdates DEF TransactionState, EntryState
  <2> QED
    BY <2>1, <1>7, TypeWriteThen DEF FailEntry, Phases, ApplyPhases, Entries
<1>8. CASE PreflightRefuses
  BY <1>8, <1>7 DEF PreflightRefuses
<1>9. CASE CheckpointApplying
  <2>1. WithEntry(mem, idx, "Applying") \in Transactions
    BY <1>0, <1>9, TransactionUpdates DEF CheckpointApplying, TransactionState, EntryState
  <2> QED
    BY <2>1, <1>9, TypeWriteThen DEF CheckpointApplying, Phases, ApplyPhases, Entries
<1>10. CASE Rename
  <2>1. idx \in Entries
    BY <1>10 DEF Rename, EngineTypeInv, IndexInv
  <2>2. fs' \in [Paths -> Objects \cup {None}]
    BY <1>10, <2>1, RenameType DEF Rename
  <2> QED
    BY <1>10, <2>1, <2>2 DEF Rename, EngineTypeInv, EngineTypeOK, IndexInv, Silent, Phases,
                             ApplyPhases
<1>11. CASE RenameFails
  BY <1>11, <1>7 DEF RenameFails, EngineTypeInv, IndexInv
<1>12. CASE ConfirmApplied
  <2>1. idx \in Entries /\ idx + 1 \in 0..(N + 1)
    BY <1>12 DEF ConfirmApplied, EngineTypeInv, IndexInv, Entries
  <2>2. WithEntry(mem, idx, "Applied") \in Transactions
    BY <1>0, <1>12, TransactionUpdates DEF ConfirmApplied, TransactionState, EntryState
  <2> QED
    BY <2>1, <2>2, <1>12, TypeWriteThen DEF ConfirmApplied, Phases, ApplyPhases
<1>13. CASE ConfirmFails
  BY <1>13, <1>7 DEF ConfirmFails, EngineTypeInv, IndexInv
<1>14. CASE JournalFailure
  BY <1>14, <1>0, TypeWriteThen
     DEF JournalFailure, Phases, ApplyPhases, EngineTypeInv, EngineTypeOK
<1>15. CASE FinishApply
  <2>1. pc # "idle"
    BY <1>15 DEF FinishApply
  <2>2. WithState(mem, "Applied") \in Transactions
    BY <1>0, <2>1, TransactionUpdates DEF TransactionState, EntryState
  <2> QED
    BY <1>15, <1>0, <2>1, <2>2, TypeWriteAndReturn DEF FinishApply, Results
<1> QED
  BY <1>1, <1>2, <1>3, <1>4, <1>5, <1>6, <1>8, <1>9, <1>10, <1>11, <1>12, <1>13, <1>14, <1>15
     DEF ApplyStep

LEMMA TypeRollbackStep ==
    ASSUME EngineTypeInv, RollbackStep
    PROVE  EngineTypeInv'
<1> USE BatchAssumption, NoneAssumption
<1>0. ASSUME pc # "idle" PROVE mem \in Transactions /\ idx \in 0..(N + 1)
  BY <1>0 DEF EngineTypeInv, EngineTypeOK
<1>1. CASE RollbackAlreadyDone
  BY <1>1 DEF RollbackAlreadyDone, Idle, EngineTypeInv, EngineTypeOK, IndexInv, Silent, Phases,
              Results
<1>2. CASE RollbackReconciles
  <2>1. mem \in Transactions /\ idx \in 0..(N + 1)
    BY <1>0, <1>2 DEF RollbackReconciles
  <2>2. Reconciled(mem) \in Transactions
    BY <2>1, ReconciledType
  <2> QED
    BY <1>2, <2>1, <2>2, TypeWriteThen DEF RollbackReconciles, Phases, RollbackPhases
<1>3. CASE RollbackUnresolved
  <2>1. WithState(mem, "RollbackFailed") \in Transactions
    BY <1>0, <1>3, TransactionUpdates DEF RollbackUnresolved, TransactionState, EntryState
  <2> QED
    BY <1>3, <2>1, TypeWriteAndReturn DEF RollbackUnresolved, Results
<1>4. CASE EnterRollback
  <2>1. WithState(mem, "RollingBack") \in Transactions
    BY <1>0, <1>4, TransactionUpdates DEF EnterRollback, TransactionState, EntryState
  <2> QED
    BY <1>4, <2>1, TypeWriteThen DEF EnterRollback, Phases, RollbackPhases
<1>5. CASE RollbackSkipsEntry
  <2>1. idx - 1 \in 0..(N + 1)
    BY <1>5 DEF RollbackSkipsEntry, Entries
  <2> QED
    BY <1>0, <1>5, <2>1, TypeWriteThen DEF RollbackSkipsEntry, Phases, RollbackPhases
<1>6. CASE CheckpointRollingBack
  <2>1. WithEntry(mem, idx, "RollingBack") \in Transactions
    BY <1>0, <1>6, TransactionUpdates DEF CheckpointRollingBack, TransactionState, EntryState
  <2> QED
    BY <1>6, <2>1, TypeWriteThen DEF CheckpointRollingBack, Phases, RollbackPhases, Entries
<1>7. ASSUME pc # "idle", RollbackEntryFails PROVE EngineTypeInv'
  <2>1. WithEntry(mem, idx, "RollbackFailed") \in Transactions
    BY <1>0, <1>7, TransactionUpdates DEF TransactionState, EntryState
  <2> QED
    BY <1>0, <1>7, <2>1, TypeWriteThen DEF RollbackEntryFails, Phases, RollbackPhases
<1>8. CASE RollbackChecks
  <2>1. pc # "idle" /\ idx \in Entries
    BY <1>8 DEF RollbackChecks, EngineTypeInv, IndexInv
  <2>2. CASE OnlyAtDestination(idx)
    BY <1>0, <1>8, <2>1, <2>2, TypeWriteThen DEF RollbackChecks, Phases, RollbackPhases
  <2>3. CASE ~OnlyAtDestination(idx)
    BY <1>7, <1>8, <2>1, <2>3 DEF RollbackChecks
  <2> QED
    BY <2>2, <2>3
<1>9. CASE ReverseRename
  <2>1. idx \in Entries
    BY <1>9 DEF ReverseRename, EngineTypeInv, IndexInv
  <2>2. fs' \in [Paths -> Objects \cup {None}]
    BY <1>9, <2>1, RenameType DEF ReverseRename
  <2> QED
    BY <1>9, <2>1, <2>2
       DEF ReverseRename, EngineTypeInv, EngineTypeOK, IndexInv, Silent, Phases, RollbackPhases
<1>10. CASE ReverseRenameFails
  BY <1>7, <1>10 DEF ReverseRenameFails
<1>11. CASE ConfirmRolledBack
  <2>1. idx - 1 \in 0..(N + 1)
    BY <1>11 DEF ConfirmRolledBack, EngineTypeInv, IndexInv, Entries
  <2>2. WithEntry(mem, idx, "RolledBack") \in Transactions
    BY <1>0, <1>11, TransactionUpdates DEF ConfirmRolledBack, TransactionState, EntryState
  <2>3. CASE idx = 1
    BY <1>11, <2>1, <2>2, <2>3, TypeWriteThen DEF ConfirmRolledBack, Phases, RollbackPhases
  <2>4. CASE idx # 1
    BY <1>11, <2>1, <2>2, <2>4, TypeWriteThen DEF ConfirmRolledBack, Phases, RollbackPhases
  <2> QED
    BY <2>3, <2>4
<1>12. CASE RestoredIdentityDiffers
  BY <1>7, <1>12 DEF RestoredIdentityDiffers
<1>13. CASE RollbackStopped
  <2>1. WithState(mem, "RollbackFailed") \in Transactions
    BY <1>0, <1>13, TransactionUpdates DEF RollbackStopped, TransactionState, EntryState
  <2> QED
    BY <1>13, <2>1, TypeWriteAndReturn DEF RollbackStopped, Results
<1>14. CASE FinishRollback
  <2>1. /\ WithState(mem, "RollbackFailed") \in Transactions
        /\ WithState(mem, "RolledBack") \in Transactions
    BY <1>0, <1>14, TransactionUpdates DEF FinishRollback, TransactionState, EntryState
  <2> QED
    BY <1>14, <2>1, TypeWriteAndReturn DEF FinishRollback, Results
<1> QED
  BY <1>1, <1>2, <1>3, <1>4, <1>5, <1>6, <1>8, <1>9, <1>10, <1>11, <1>12, <1>13, <1>14
     DEF RollbackStep

LEMMA TypeCancelStep ==
    ASSUME EngineTypeInv, CancelStep
    PROVE  EngineTypeInv'
<1> USE BatchAssumption, NoneAssumption
<1>1. CASE ApplyCancelled
  <2>1. WithState(mem, "ApplyFailed") \in Transactions
    BY <1>1, TransactionUpdates
       DEF ApplyCancelled, EngineTypeInv, EngineTypeOK, TransactionState, EntryState
  <2> QED
    BY <1>1, <2>1, TypeWriteAndReturn DEF ApplyCancelled, Results
<1>2. CASE RollbackCancelled
  BY <1>2 DEF RollbackCancelled, Continue, EngineTypeInv, EngineTypeOK, IndexInv, Silent, Phases,
              RollbackPhases
<1>3. CASE RefusedAtStart
  BY <1>3 DEF RefusedAtStart, Idle, EngineTypeInv, EngineTypeOK, IndexInv, Silent, Phases,
              Results
<1> QED
  BY <1>1, <1>2, <1>3 DEF CancelStep

\* A call begins with a transaction, and a call that ends leaves none.
LEMMA TypeBeginApply ==
    ASSUME EngineTypeInv, NEW m \in HardConflictMode, BeginApply(m)
    PROVE  EngineTypeInv'
BY BuiltType, BatchAssumption, NoneAssumption
   DEF BeginApply, EngineTypeInv, EngineTypeOK, IndexInv, Silent, Phases, ApplyPhases, Results

LEMMA TypeBeginRollback ==
    ASSUME EngineTypeInv, NEW tx \in Transactions, BeginRollback(tx),
           disk' \in Transactions \cup {None}
    PROVE  EngineTypeInv'
BY BatchAssumption, NoneAssumption
   DEF BeginRollback, EngineTypeInv, EngineTypeOK, IndexInv, Silent, Phases, RollbackPhases, Results

LEMMA TypeIdle ==
    ASSUME EngineTypeInv, NEW res \in Results, Idle(res), UNCHANGED <<fs, disk, mode>>
    PROVE  EngineTypeInv'
BY BatchAssumption DEF Idle, EngineTypeInv, EngineTypeOK, IndexInv, Silent, Phases

-----------------------------------------------------------------------------
(* The truth of the journal *)

Moved == {"Applying", "Applied", "RollingBack", "RolledBack", "RollbackFailed"}

\* No other program has changed a path of entry i.
Apart(t, i) == Src[i] \notin t /\ Dst[i] \notin t

\* What an entry state s says of entry i on filesystem f when the paths in t
\* were changed by others; and only an entry that is alone at its destination
\* is ever renamed.
EntrySound(f, t, s, i) ==
    /\ s \in Moved => ~ConflictingBatchTarget(i)
    /\ Apart(t, i) =>
         /\ s \in {"Planned", "Skipped", "ApplyFailed", "RolledBack"} => f[Src[i]] = Obj[i]
         /\ s \in {"Applied", "RollbackFailed"} => f[Src[i]] = None /\ f[Dst[i]] = Obj[i]
         /\ s \in {"Applying", "RollingBack"} =>
              \/ f[Src[i]] = Obj[i] /\ f[Dst[i]] = None
              \/ f[Src[i]] = None /\ f[Dst[i]] = Obj[i]

Sound(f, t, tx) == \A i \in Entries : EntrySound(f, t, tx.est[i], i)

\* A batch that was never journaled has not moved.
SoundJournal(f, t, d) ==
    IF d = None THEN \A i \in Entries : EntrySound(f, t, "Planned", i) ELSE Sound(f, t, d)

NotBegun(tx, k) ==
    \A i \in Entries : i >= k => tx.est[i] \in {"Planned", "Skipped"}

\* The journal is true of the filesystem, and so is the call's copy once it is the
\* journal's: the transaction a call begins with is not looked at before.
Records(t) ==
    /\ pc \notin {"idle", "preflight", "batch"} => Sound(fs, t, mem)
    /\ SoundJournal(fs, t, disk)

\* Where the engine is says which entries it has not begun yet.
Progress ==
    /\ pc \in {"preflight", "batch", "begin"} => NotBegun(mem, 1)
    /\ pc = "loop" => NotBegun(mem, idx)
    /\ pc \in {"rename", "confirm"} => NotBegun(mem, idx + 1)

\* Inside a mutation window the journal holds the checkpoint, and the file is
\* on the side of the rename the engine believes.
Windows(t) ==
    /\ pc \in {"rename", "confirm"} => disk = mem /\ mem.est[idx] = "Applying"
    /\ pc \in {"rbCheck", "rbRename", "rbConfirm"} => disk = mem /\ mem.est[idx] = "RollingBack"
    /\ pc = "rename" /\ Apart(t, idx) => OnlyAtSource(idx)
    /\ pc = "confirm" /\ Apart(t, idx) => OnlyAtDestination(idx)
    /\ pc \in {"rbCheck", "rbRename"} /\ Apart(t, idx) => OnlyAtDestination(idx)
    /\ pc = "rbConfirm" /\ Apart(t, idx) => OnlyAtSource(idx)

EngineTruth(t) == Records(t) /\ Progress /\ Windows(t)

-----------------------------------------------------------------------------
\* Sound records stay sound when an entry is given a sound state.
LEMMA SoundUpdate ==
    ASSUME NEW f, NEW t, NEW tx \in Transactions, Sound(f, t, tx),
           NEW i \in Entries, NEW s \in EntryState, EntrySound(f, t, s, i)
    PROVE  Sound(f, t, WithEntry(tx, i, s))
<1>1. \A k \in Entries : WithEntry(tx, i, s).est[k] = IF k = i THEN s ELSE tx.est[k]
  BY DEF WithEntry, Transactions
<1> QED
  BY <1>1 DEF Sound

LEMMA SoundState ==
    ASSUME NEW f, NEW t, NEW tx \in Transactions, Sound(f, t, tx), NEW st \in TransactionState
    PROVE  Sound(f, t, WithState(tx, st))
<1>1. WithState(tx, st).est = tx.est
  BY DEF WithState, Transactions
<1> QED
  BY <1>1 DEF Sound

\* Reconciliation writes only what the filesystem shows.
LEMMA SoundReconciled ==
    ASSUME NEW t, NEW tx \in Transactions, Sound(fs, t, tx)
    PROVE  Sound(fs, t, Reconciled(tx))
<1>1. Reconciled(tx).est = [i \in Entries |-> ReconciledEntry(tx.est[i], i)]
  BY DEF Reconciled
<1> SUFFICES ASSUME NEW i \in Entries
             PROVE  EntrySound(fs, t, ReconciledEntry(tx.est[i], i), i)
  BY <1>1 DEF Sound
<1>2. EntrySound(fs, t, tx.est[i], i)
  BY DEF Sound
<1>3. tx.est[i] \in EntryState
  BY DEF Transactions
<1> QED
  BY <1>2, <1>3 DEF EntrySound, ReconciledEntry, OnlyAtSource, OnlyAtDestination, Moved, EntryState

\* A rename inside its window keeps every record sound: it touches the paths of
\* no other entry.
LEMMA SoundRename ==
    ASSUME NEW f \in [Paths -> Objects \cup {None}], NEW t, NEW tx \in Transactions,
           Sound(f, t, tx), NEW i \in Entries, tx.est[i] \in {"Applying", "RollingBack"},
           NEW p, NEW q, NEW g,
           \/ p = Src[i] /\ q = Dst[i]
           \/ p = Dst[i] /\ q = Src[i],
           g = [f EXCEPT ![q] = f[p], ![p] = None],
           Apart(t, i) => f[p] = Obj[i] /\ f[q] = None
    PROVE  Sound(g, t, tx)
<1> USE BatchAssumption
<1>1. p \in Paths /\ q \in Paths /\ p # q /\ Src[i] \in Paths /\ Dst[i] \in Paths
  OBVIOUS
<1>2. EntrySound(f, t, tx.est[i], i)
  BY DEF Sound
<1>3. \A j \in Entries \ {i} : Dst[j] # Dst[i]
  BY <1>2 DEF EntrySound, Moved, ConflictingBatchTarget
<1>4. \A j \in Entries \ {i} : g[Src[j]] = f[Src[j]] /\ g[Dst[j]] = f[Dst[j]]
  BY <1>1, <1>3
<1>5. g[q] = f[p] /\ g[p] = None
  BY <1>1
<1>6. ASSUME NEW j \in Entries \ {i} PROVE EntrySound(g, t, tx.est[j], j)
  BY <1>4 DEF Sound, EntrySound
<1>7. EntrySound(g, t, tx.est[i], i)
  BY <1>2, <1>5 DEF EntrySound
<1> QED
  BY <1>6, <1>7 DEF Sound

\* What another program changes is never claimed.
LEMMA SoundExternal ==
    ASSUME NEW f \in [Paths -> Objects \cup {None}], NEW t, NEW s, NEW i \in Entries,
           EntrySound(f, t, s, i), NEW p \in Paths, NEW o
    PROVE  EntrySound([f EXCEPT ![p] = o], t \cup {p}, s, i)
BY BatchAssumption DEF EntrySound, Apart

\* The effects every engine step is built from.
LEMMA RecordsWriteThen ==
    ASSUME NEW t, Records(t), NEW tx \in Transactions, Sound(fs, t, tx), NEW next, NEW i,
           WriteThen(tx, next, i) \/ Continue(tx, next, i)
    PROVE  Records(t)'
<1>1. fs' = fs /\ disk' \in {disk, tx} /\ (pc' = "idle" \/ mem' = tx)
  BY DEF WriteThen, WriteFails, Continue, Idle
<1>2. tx # None
  BY NoneAssumption
<1> QED
  BY <1>1, <1>2 DEF Records, SoundJournal

LEMMA RecordsReturn ==
    ASSUME NEW t, Records(t), NEW tx \in Transactions, Sound(fs, t, tx), NEW res,
           WriteAndReturn(tx, res)
    PROVE  Records(t)'
<1>1. fs' = fs /\ disk' \in {disk, tx} /\ pc' = "idle"
  BY DEF WriteAndReturn, WriteFails, Idle
<1>2. tx # None
  BY NoneAssumption
<1> QED
  BY <1>1, <1>2 DEF Records, SoundJournal

\* A step that returns, or goes on outside the apply loop and the mutation
\* windows, owes nothing to Progress and Windows.
LEMMA Elsewhere ==
    ASSUME NEW t,
           pc' \notin {"preflight", "batch", "begin", "loop", "rename", "confirm",
                       "rbCheck", "rbRename", "rbConfirm"}
    PROVE  Progress' /\ Windows(t)'
BY DEF Progress, Windows

LEMMA TruthApplyStep ==
    ASSUME EngineTypeInv, NEW t, EngineTruth(t), ApplyStep,
           pc = "batch" => disk = None \/ disk' = disk
    PROVE  EngineTruth(t)'
<1> USE BatchAssumption, NoneAssumption
<1> SUFFICES Records(t)' /\ Progress' /\ Windows(t)'
  BY DEF EngineTruth
<1>0. EngineTypeInv /\ Records(t) /\ Progress /\ Windows(t)
  BY DEF EngineTruth
<1>00. ASSUME pc \notin {"idle", "preflight", "batch"}
       PROVE  mem \in Transactions /\ Sound(fs, t, mem) /\ idx \in 0..(N + 1)
  BY <1>0, <1>00 DEF EngineTypeInv, EngineTypeOK, Records
<1>1. CASE BatchPreflight
  BY <1>0, <1>1 DEF BatchPreflight, Records, Progress, Windows
<1>2. CASE RefuseHardConflicts
  BY <1>0, <1>2 DEF RefuseHardConflicts, Idle, Records, Progress, Windows
<1>3. CASE JournalBatch
  <2> DEFINE tx == [mem EXCEPT !.est = [i \in Entries |->
                       IF i \in bad THEN "Skipped" ELSE mem.est[i]]]
  <2>1. pc = "batch" /\ mem \in Transactions /\ NotBegun(mem, 1)
    BY <1>0, <1>3 DEF JournalBatch, Progress, EngineTypeInv, EngineTypeOK
  <2>2. tx \in Transactions
    BY <2>1, BatchType
  <2>3. \A i \in Entries : tx.est[i] = IF i \in bad THEN "Skipped" ELSE mem.est[i]
    BY <2>1 DEF Transactions
  <2>4. WriteThen(tx, "begin", idx)
    BY <1>3 DEF JournalBatch
  <2> HIDE DEF tx
  <2>5. \A i \in Entries : tx.est[i] \in {"Planned", "Skipped"}
    BY <2>1, <2>3 DEF NotBegun, Entries
  <2>6. CASE WriteFails
    BY <1>0, <2>6, Elsewhere DEF WriteFails, Idle, Records
  <2>7. CASE disk' = tx /\ mem' = tx /\ pc' = "begin" /\ UNCHANGED fs
    <3>1. Sound(fs, t, tx)
      <4>1. CASE disk = None
        BY <1>0, <2>5, <4>1 DEF Records, SoundJournal, Sound, EntrySound, Moved
      <4>2. CASE disk # None
        BY <1>0, <2>1, <2>7, <4>2 DEF Records, SoundJournal
      <4> QED
        BY <4>1, <4>2
    <3>2. NotBegun(tx, 1)
      BY <2>5 DEF NotBegun
    <3> QED
      BY <2>2, <2>7, <3>1, <3>2 DEF Records, SoundJournal, Progress, Windows
  <2> QED
    BY <2>4, <2>6, <2>7 DEF WriteThen
<1>4. CASE EverythingSkipped
  <2>1. pc = "begin" /\ WriteAndReturn(WithState(mem, "ApplyFailed"), "outcome")
    BY <1>4 DEF EverythingSkipped
  <2>2. WithState(mem, "ApplyFailed") \in Transactions
        /\ Sound(fs, t, WithState(mem, "ApplyFailed"))
    BY <1>00, <2>1, TransactionUpdates, SoundState DEF TransactionState, EntryState
  <2>3. pc' = "idle"
    BY <2>1 DEF WriteAndReturn, WriteFails, Idle
  <2> QED
    BY <1>0, <2>1, <2>2, <2>3, RecordsReturn, Elsewhere
<1>5. CASE StartApplying
  <2> DEFINE tx == WithState(mem, "Applying")
  <2>1. pc = "begin" /\ WriteThen(tx, "loop", 1) /\ NotBegun(mem, 1)
    BY <1>0, <1>5 DEF StartApplying, Progress
  <2>2. tx \in Transactions /\ Sound(fs, t, tx)
    BY <1>00, <2>1, TransactionUpdates, SoundState DEF TransactionState, EntryState
  <2>3. NotBegun(tx, 1)
    BY <1>00, <2>1 DEF NotBegun, WithState, Transactions
  <2> HIDE DEF tx
  <2>4. Records(t)'
    BY <1>0, <2>1, <2>2, RecordsWriteThen
  <2> QED
    BY <2>1, <2>3, <2>4 DEF WriteThen, WriteFails, Idle, Progress, Windows
<1>6. CASE SkipEntry
  <2>1. pc = "loop" /\ idx \in Entries /\ Continue(mem, "loop", idx + 1) /\ NotBegun(mem, idx)
    BY <1>0, <1>6 DEF SkipEntry, Progress
  <2>2. NotBegun(mem, idx + 1)
    BY <2>1 DEF NotBegun, Entries
  <2>3. Records(t)'
    BY <1>0, <1>00, <2>1, RecordsWriteThen
  <2> QED
    BY <2>1, <2>2, <2>3 DEF Continue, Progress, Windows
<1>7. ASSUME pc \in {"loop", "rename", "confirm"}, idx \in Entries, FailEntry,
             EntrySound(fs, t, "ApplyFailed", idx)
      PROVE  Records(t)' /\ Progress' /\ Windows(t)'
  <2> DEFINE te == WithEntry(mem, idx, "ApplyFailed")
             tx == WithState(te, "ApplyFailed")
  <2>1. te \in Transactions /\ Sound(fs, t, te)
    BY <1>00, <1>7, TransactionUpdates, SoundUpdate DEF TransactionState, EntryState
  <2>2. tx \in Transactions /\ Sound(fs, t, tx)
    BY <2>1, TransactionUpdates, SoundState DEF TransactionState, EntryState
  <2>3. Continue(tx, "fail", idx)
    BY <1>7 DEF FailEntry
  <2> HIDE DEF tx
  <2>4. pc' = "fail"
    BY <2>3 DEF Continue
  <2> QED
    BY <1>0, <1>7, <2>2, <2>3, <2>4, RecordsWriteThen, Elsewhere
<1>8. CASE PreflightRefuses
  <2>1. idx \in Entries /\ pc = "loop" /\ FailEntry
    BY <1>8 DEF PreflightRefuses
  <2>2. mem.est[idx] \in {"Planned", "Skipped"}
    BY <1>0, <2>1 DEF Progress, NotBegun, Entries
  <2>3. EntrySound(fs, t, "ApplyFailed", idx)
    BY <1>00, <2>1, <2>2 DEF Sound, EntrySound, Moved
  <2> QED
    BY <1>7, <2>1, <2>3
<1>9. CASE CheckpointApplying
  <2> DEFINE tx == WithEntry(mem, idx, "Applying")
  <2>1. idx \in Entries /\ pc = "loop" /\ run_preflight(idx) /\ WriteThen(tx, "rename", idx)
        /\ NotBegun(mem, idx)
    BY <1>0, <1>9 DEF CheckpointApplying, Progress
  <2>2. OnlyAtSource(idx) /\ EntrySound(fs, t, "Applying", idx)
    BY <2>1 DEF run_preflight, OnlyAtSource, EntrySound
  <2>3. tx \in Transactions /\ Sound(fs, t, tx)
    BY <1>00, <2>1, <2>2, TransactionUpdates, SoundUpdate DEF TransactionState, EntryState
  <2>4. NotBegun(tx, idx + 1) /\ tx.est[idx] = "Applying"
    BY <1>00, <2>1 DEF NotBegun, WithEntry, Transactions, Entries
  <2> HIDE DEF tx
  <2>5. Records(t)'
    BY <1>0, <2>1, <2>3, RecordsWriteThen
  <2> QED
    BY <2>1, <2>2, <2>4, <2>5
       DEF WriteThen, WriteFails, Idle, Progress, Windows, OnlyAtSource
<1>10. CASE Rename
  <2>1. idx \in Entries /\ pc = "rename" /\ mem = disk /\ mem.est[idx] = "Applying"
        /\ mem \in Transactions /\ mem # None /\ Sound(fs, t, mem)
        /\ NotBegun(mem, idx + 1)
    BY <1>0, <1>00, <1>10 DEF Rename, Windows, Progress, EngineTypeInv, IndexInv
  <2>2. Apart(t, idx) => OnlyAtSource(idx)
    BY <1>0, <2>1 DEF Windows
  <2>3. fs \in [Paths -> Objects \cup {None}]
        /\ fs' = [fs EXCEPT ![Dst[idx]] = fs[Src[idx]], ![Src[idx]] = None]
        /\ UNCHANGED <<disk, mem, idx>> /\ pc' = "confirm"
    BY <1>0, <1>10 DEF Rename, rename_noreplace, EngineTypeInv, EngineTypeOK
  <2>4. Sound(fs', t, mem)
    BY <2>1, <2>2, <2>3, SoundRename DEF Apart, OnlyAtSource
  <2>5. Records(t)'
    BY <1>0, <2>1, <2>3, <2>4 DEF Records, SoundJournal
  <2>6. Src[idx] \in Paths /\ Dst[idx] \in Paths /\ Src[idx] # Dst[idx]
    BY <2>1
  <2>7. fs'[Dst[idx]] = fs[Src[idx]] /\ fs'[Src[idx]] = None
    BY <2>3, <2>6
  <2>8. Apart(t, idx) => (fs'[Src[idx]] = None /\ fs'[Dst[idx]] = Obj[idx])
    BY <2>2, <2>7 DEF OnlyAtSource
  <2> QED
    BY <2>1, <2>3, <2>5, <2>8 DEF Progress, Windows, NotBegun, Apart, OnlyAtDestination
<1>11. CASE RenameFails
  <2>1. idx \in Entries /\ pc = "rename" /\ FailEntry /\ (Apart(t, idx) => OnlyAtSource(idx))
    BY <1>0, <1>11 DEF RenameFails, Windows, EngineTypeInv, IndexInv
  <2>2. EntrySound(fs, t, "ApplyFailed", idx)
    BY <2>1 DEF EntrySound, Moved, Apart, OnlyAtSource
  <2> QED
    BY <1>7, <2>1, <2>2
<1>12. CASE ConfirmApplied
  <2> DEFINE tx == WithEntry(mem, idx, "Applied")
  <2>1. idx \in Entries /\ pc = "confirm" /\ OnlyAtDestination(idx)
        /\ WriteThen(tx, "loop", idx + 1)
        /\ NotBegun(mem, idx + 1) /\ mem.est[idx] = "Applying"
    BY <1>0, <1>12 DEF ConfirmApplied, confirm_rename, Windows, Progress, EngineTypeInv, IndexInv
  <2>2. EntrySound(fs, t, "Applied", idx)
    BY <1>00, <2>1 DEF Sound, EntrySound, Moved, OnlyAtDestination
  <2>3. tx \in Transactions /\ Sound(fs, t, tx)
    BY <1>00, <2>1, <2>2, TransactionUpdates, SoundUpdate DEF TransactionState, EntryState
  <2>4. NotBegun(tx, idx + 1)
    BY <1>00, <2>1 DEF NotBegun, WithEntry, Transactions, Entries
  <2> HIDE DEF tx
  <2>5. Records(t)'
    BY <1>0, <2>1, <2>3, RecordsWriteThen
  <2> QED
    BY <2>1, <2>4, <2>5 DEF WriteThen, WriteFails, Idle, Progress, Windows
<1>13. CASE ConfirmFails
  <2>1. idx \in Entries /\ pc = "confirm" /\ FailEntry /\ ~Apart(t, idx)
    BY <1>0, <1>13 DEF ConfirmFails, confirm_rename, Windows, EngineTypeInv, IndexInv
  <2>2. EntrySound(fs, t, "ApplyFailed", idx)
    BY <2>1 DEF EntrySound, Moved, Apart
  <2> QED
    BY <1>7, <2>1, <2>2
<1>14. CASE JournalFailure
  <2>1. pc = "fail" /\ WriteThen(mem, "finish", idx)
    BY <1>14 DEF JournalFailure
  <2>2. pc' \in {"finish", "idle"}
    BY <2>1 DEF WriteThen, WriteFails, Idle
  <2> QED
    BY <1>0, <1>00, <2>1, <2>2, RecordsWriteThen, Elsewhere
<1>15. CASE FinishApply
  <2> DEFINE tx == IF mem.state = "Applying" THEN WithState(mem, "Applied") ELSE mem
  <2>1. pc \in {"finish", "loop"} /\ WriteAndReturn(tx, "outcome")
    BY <1>15 DEF FinishApply
  <2>2. tx \in Transactions /\ Sound(fs, t, tx)
    BY <1>00, <2>1, TransactionUpdates, SoundState DEF TransactionState, EntryState
  <2> HIDE DEF tx
  <2>3. pc' = "idle"
    BY <2>1 DEF WriteAndReturn, WriteFails, Idle
  <2> QED
    BY <1>0, <2>1, <2>2, <2>3, RecordsReturn, Elsewhere
<1> QED
  BY <1>1, <1>2, <1>3, <1>4, <1>5, <1>6, <1>8, <1>9, <1>10, <1>11, <1>12, <1>13, <1>14, <1>15
     DEF ApplyStep

LEMMA TruthCancelStep ==
    ASSUME EngineTypeInv, NEW t, EngineTruth(t), CancelStep
    PROVE  EngineTruth(t)'
<1> USE BatchAssumption, NoneAssumption
<1>1. EngineTypeInv /\ Records(t) /\ Progress /\ Windows(t)
  BY DEF EngineTruth
<1>2. ASSUME pc \in {"loop", "rbLoop"} PROVE mem \in Transactions /\ Sound(fs, t, mem)
  BY <1>1, <1>2 DEF EngineTypeInv, EngineTypeOK, Records
<1>3. CASE ApplyCancelled
  <2>1. WithState(mem, "ApplyFailed") \in Transactions
        /\ Sound(fs, t, WithState(mem, "ApplyFailed"))
    BY <1>2, <1>3, TransactionUpdates, SoundState DEF ApplyCancelled, TransactionState, EntryState
  <2>2. pc' = "idle" /\ WriteAndReturn(WithState(mem, "ApplyFailed"), "outcome")
    BY <1>3 DEF ApplyCancelled, WriteAndReturn, WriteFails, Idle
  <2> QED
    BY <1>1, <2>1, <2>2, RecordsReturn, Elsewhere DEF EngineTruth
<1>4. CASE RollbackCancelled
  <2>1. pc = "rbLoop" /\ pc' = "rbFinal" /\ Continue(mem, "rbFinal", idx)
    BY <1>4 DEF RollbackCancelled, Continue
  <2> QED
    BY <1>1, <1>2, <2>1, RecordsWriteThen, Elsewhere DEF EngineTruth
<1>5. CASE RefusedAtStart
  BY <1>1, <1>5, Elsewhere DEF RefusedAtStart, Idle, Records, EngineTruth
<1> QED
  BY <1>3, <1>4, <1>5 DEF CancelStep

LEMMA TruthRollbackStep ==
    ASSUME EngineTypeInv, NEW t, EngineTruth(t), RollbackStep
    PROVE  EngineTruth(t)'
<1> USE BatchAssumption, NoneAssumption
<1> SUFFICES Records(t)' /\ Progress' /\ Windows(t)'
  BY DEF EngineTruth
<1>0. EngineTypeInv /\ Records(t) /\ Progress /\ Windows(t)
  BY DEF EngineTruth
<1>00. ASSUME pc \notin {"idle", "preflight", "batch"}
       PROVE  mem \in Transactions /\ Sound(fs, t, mem) /\ idx \in 0..(N + 1)
  BY <1>0, <1>00 DEF EngineTypeInv, EngineTypeOK, Records
<1>1. CASE RollbackAlreadyDone
  BY <1>0, <1>1 DEF RollbackAlreadyDone, Idle, Records, Progress, Windows
<1>2. CASE RollbackReconciles
  <2>1. pc = "rbReconcile" /\ mem \in Transactions /\ Sound(fs, t, mem)
    BY <1>00, <1>2 DEF RollbackReconciles
  <2>2. Reconciled(mem) \in Transactions /\ Sound(fs, t, Reconciled(mem))
    BY <2>1, ReconciledType, SoundReconciled
  <2>3. PICK tx \in {mem, Reconciled(mem)} :
          WriteThen(tx, "rbEnter", idx) \/ Continue(tx, "rbEnter", idx)
    BY <1>2 DEF RollbackReconciles
  <2>4. pc' \in {"rbEnter", "idle"}
    BY <2>3 DEF WriteThen, WriteFails, Continue, Idle
  <2> QED
    BY <1>0, <2>1, <2>2, <2>3, <2>4, RecordsWriteThen, Elsewhere
<1>3. ASSUME NEW st \in TransactionState, NEW res, pc \in {"rbEnter", "rbFail", "rbFinal"},
             WriteAndReturn(WithState(mem, st), res)
      PROVE  Records(t)' /\ Progress' /\ Windows(t)'
  <2>1. WithState(mem, st) \in Transactions /\ Sound(fs, t, WithState(mem, st))
    BY <1>00, <1>3, TransactionUpdates, SoundState DEF EntryState
  <2>2. pc' = "idle"
    BY <1>3 DEF WriteAndReturn, WriteFails, Idle
  <2> QED
    BY <1>0, <1>3, <2>1, <2>2, RecordsReturn, Elsewhere
<1>4. CASE RollbackUnresolved
  BY <1>3, <1>4 DEF RollbackUnresolved, TransactionState
<1>5. CASE EnterRollback
  <2>1. pc = "rbEnter" /\ WriteThen(WithState(mem, "RollingBack"), "rbLoop", N)
    BY <1>5 DEF EnterRollback
  <2>2. WithState(mem, "RollingBack") \in Transactions
        /\ Sound(fs, t, WithState(mem, "RollingBack"))
    BY <1>00, <2>1, TransactionUpdates, SoundState DEF TransactionState, EntryState
  <2>3. pc' \in {"rbLoop", "idle"}
    BY <2>1 DEF WriteThen, WriteFails, Idle
  <2> QED
    BY <1>0, <2>1, <2>2, <2>3, RecordsWriteThen, Elsewhere
<1>6. CASE RollbackSkipsEntry
  <2>1. PICK next \in {"rbFinal", "rbLoop"} : pc = "rbLoop" /\ Continue(mem, next, idx - 1)
    BY <1>6 DEF RollbackSkipsEntry
  <2>2. pc' \in {"rbFinal", "rbLoop"}
    BY <2>1 DEF Continue
  <2> QED
    BY <1>0, <1>00, <2>1, <2>2, RecordsWriteThen, Elsewhere
<1>7. CASE CheckpointRollingBack
  <2> DEFINE tx == WithEntry(mem, idx, "RollingBack")
  <2>1. idx \in Entries /\ pc = "rbLoop" /\ mem.est[idx] = "Applied"
        /\ WriteThen(tx, "rbCheck", idx)
    BY <1>7 DEF CheckpointRollingBack
  <2>2. EntrySound(fs, t, "Applied", idx)
    BY <1>00, <2>1 DEF Sound
  <2>3. EntrySound(fs, t, "RollingBack", idx) /\ (Apart(t, idx) => OnlyAtDestination(idx))
    BY <2>2 DEF EntrySound, Moved, Apart, OnlyAtDestination
  <2>4. tx \in Transactions /\ Sound(fs, t, tx)
    BY <1>00, <2>1, <2>3, TransactionUpdates, SoundUpdate DEF TransactionState, EntryState
  <2>5. tx.est[idx] = "RollingBack"
    BY <1>00, <2>1 DEF WithEntry, Transactions
  <2> HIDE DEF tx
  <2>6. Records(t)'
    BY <1>0, <2>1, <2>4, RecordsWriteThen
  <2> QED
    BY <2>1, <2>3, <2>5, <2>6
       DEF WriteThen, WriteFails, Idle, Progress, Windows, Apart, OnlyAtDestination
<1>8. ASSUME pc \in {"rbCheck", "rbRename", "rbConfirm"}, idx \in Entries, RollbackEntryFails,
             EntrySound(fs, t, "RollbackFailed", idx)
      PROVE  Records(t)' /\ Progress' /\ Windows(t)'
  <2>1. WithEntry(mem, idx, "RollbackFailed") \in Transactions
        /\ Sound(fs, t, WithEntry(mem, idx, "RollbackFailed"))
    BY <1>00, <1>8, TransactionUpdates, SoundUpdate DEF TransactionState, EntryState
  <2>2. pc' = "rbFail"
    BY <1>8 DEF RollbackEntryFails, Continue
  <2> QED
    BY <1>0, <1>8, <2>1, <2>2, RecordsWriteThen, Elsewhere DEF RollbackEntryFails
<1>9. ASSUME pc \in {"rbCheck", "rbRename", "rbConfirm"}
      PROVE  /\ idx \in Entries /\ mem.est[idx] = "RollingBack" /\ disk = mem
             /\ ~ConflictingBatchTarget(idx)
  BY <1>0, <1>00, <1>9 DEF Windows, EngineTypeInv, IndexInv, Sound, EntrySound, Moved
<1>10. CASE RollbackChecks
  <2>1. pc = "rbCheck"
    BY <1>10 DEF RollbackChecks
  <2>2. CASE OnlyAtDestination(idx)
    <3>1. Continue(mem, "rbRename", idx)
      BY <1>10, <2>2 DEF RollbackChecks
    <3>2. Records(t)'
      BY <1>0, <1>00, <2>1, <3>1, RecordsWriteThen
    <3> QED
      BY <1>9, <2>1, <2>2, <3>1, <3>2
         DEF Continue, Progress, Windows, Apart, OnlyAtDestination
  <2>3. CASE ~OnlyAtDestination(idx)
    <3>1. ~Apart(t, idx) /\ RollbackEntryFails
      BY <1>0, <1>10, <2>1, <2>3 DEF RollbackChecks, Windows
    <3>2. EntrySound(fs, t, "RollbackFailed", idx)
      BY <1>9, <2>1, <3>1 DEF EntrySound, Apart
    <3> QED
      BY <1>8, <1>9, <2>1, <3>1, <3>2
  <2> QED
    BY <2>2, <2>3
<1>11. CASE ReverseRename
  <2>1. idx \in Entries /\ pc = "rbRename" /\ mem = disk /\ mem.est[idx] = "RollingBack"
        /\ mem \in Transactions /\ mem # None /\ Sound(fs, t, mem)
    BY <1>00, <1>9, <1>11 DEF ReverseRename
  <2>2. Apart(t, idx) => OnlyAtDestination(idx)
    BY <1>0, <2>1 DEF Windows
  <2>3. fs \in [Paths -> Objects \cup {None}]
        /\ fs' = [fs EXCEPT ![Src[idx]] = fs[Dst[idx]], ![Dst[idx]] = None]
        /\ UNCHANGED <<disk, mem, idx>> /\ pc' = "rbConfirm"
    BY <1>0, <1>11 DEF ReverseRename, rename_noreplace, EngineTypeInv, EngineTypeOK
  <2>4. Sound(fs', t, mem)
    BY <2>1, <2>2, <2>3, SoundRename DEF Apart, OnlyAtDestination
  <2>5. Records(t)'
    BY <1>0, <2>1, <2>3, <2>4 DEF Records, SoundJournal
  <2>6. Src[idx] \in Paths /\ Dst[idx] \in Paths /\ Src[idx] # Dst[idx]
    BY <2>1
  <2>7. fs'[Src[idx]] = fs[Dst[idx]] /\ fs'[Dst[idx]] = None
    BY <2>3, <2>6
  <2>8. Apart(t, idx) => (fs'[Dst[idx]] = None /\ fs'[Src[idx]] = Obj[idx])
    BY <2>2, <2>7 DEF OnlyAtDestination
  <2> QED
    BY <2>1, <2>3, <2>5, <2>8 DEF Progress, Windows, Apart, OnlyAtSource
<1>12. CASE ReverseRenameFails
  <2>1. pc = "rbRename" /\ RollbackEntryFails /\ (Apart(t, idx) => OnlyAtDestination(idx))
    BY <1>0, <1>12 DEF ReverseRenameFails, Windows
  <2>2. EntrySound(fs, t, "RollbackFailed", idx)
    BY <1>9, <2>1 DEF EntrySound, Apart, OnlyAtDestination
  <2> QED
    BY <1>8, <1>9, <2>1, <2>2
<1>13. CASE ConfirmRolledBack
  <2> DEFINE tx == WithEntry(mem, idx, "RolledBack")
  <2>1. pc = "rbConfirm" /\ fs[Src[idx]] = Obj[idx]
    BY <1>13 DEF ConfirmRolledBack
  <2>2. EntrySound(fs, t, "RolledBack", idx)
    BY <1>9, <2>1 DEF EntrySound
  <2>3. tx \in Transactions /\ Sound(fs, t, tx)
    BY <1>00, <1>9, <2>1, <2>2, TransactionUpdates, SoundUpdate
       DEF TransactionState, EntryState
  <2> HIDE DEF tx
  <2>4. PICK next \in {"rbFinal", "rbLoop"} : WriteThen(tx, next, idx - 1)
    BY <1>13 DEF ConfirmRolledBack, tx
  <2>5. pc' \in {"rbFinal", "rbLoop", "idle"}
    BY <2>4 DEF WriteThen, WriteFails, Idle
  <2> QED
    BY <1>0, <2>1, <2>3, <2>4, <2>5, RecordsWriteThen, Elsewhere
<1>14. CASE RestoredIdentityDiffers
  <2>1. pc = "rbConfirm" /\ RollbackEntryFails /\ ~Apart(t, idx)
    BY <1>0, <1>14 DEF RestoredIdentityDiffers, Windows, OnlyAtSource
  <2>2. EntrySound(fs, t, "RollbackFailed", idx)
    BY <1>9, <2>1 DEF EntrySound, Apart
  <2> QED
    BY <1>8, <1>9, <2>1, <2>2
<1>15. CASE RollbackStopped
  BY <1>3, <1>15 DEF RollbackStopped, TransactionState
<1>16. CASE FinishRollback
  BY <1>3, <1>16 DEF FinishRollback, TransactionState
<1> QED
  BY <1>1, <1>2, <1>4, <1>5, <1>6, <1>7, <1>10, <1>11, <1>12, <1>13, <1>14, <1>15, <1>16
     DEF RollbackStep

=============================================================================
