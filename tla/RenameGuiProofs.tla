-------------------------- MODULE RenameGuiProofs ---------------------------
(***************************************************************************)
(* Proofs about RenameGui for every batch: type correctness, also while an *)
(* abandoned worker runs beside a new call, and that the journal is true   *)
(* as long as its writers, the workers and the page's frame, do not get in *)
(* each other's way.                                                       *)
(***************************************************************************)
EXTENDS RenameGui, RenameEngineProofs

\* What is proved of the engine holds of the orphan, the same code on other variables.
Twin == INSTANCE RenameEngineProofs
        WITH mem <- omem, pc <- opc, idx <- oidx, bad <- obad, mode <- omode, result <- oresult

-----------------------------------------------------------------------------
\* A frame past its first step has a journal to classify or to write.
FrameHolds ==
    /\ frame = "classify" => seen # None
    /\ frame = "write" => back # None

PageTypes ==
    /\ apply_review \in BOOLEAN
    /\ subset_available \in BOOLEAN
    /\ job \in {"none", "apply", "rollback"}
    /\ frame \in {"idle", "classify", "write"}
    /\ seen \in Transactions \cup {None}
    /\ back \in Transactions \cup {None}
    /\ cancel \in BOOLEAN
    /\ raced \in BOOLEAN
    /\ pc # "idle" => job # "none" \/ cancel
    /\ opc # "idle" => raced

GuiTypeInv == EngineTypeInv /\ Twin!EngineTypeInv /\ PageTypes /\ FrameHolds

\* A frame that began while no worker ran is alone with the journal until it ends:
\* what it read is what is there, and what it writes is its reconciliation.
FrameAlone ==
    /\ frame # "idle" => pc = "idle"
    /\ frame = "classify" => seen = disk
    /\ frame = "write" => disk # None /\ back = Reconciled(disk)

\* The inductive invariant behind TruthUnlessRaced.  Nobody else changes the files
\* here, so the engine's truth is claimed of every path.
GuiTruth == ~raced => EngineTruth({}) /\ FrameAlone

-----------------------------------------------------------------------------
(* Types *)

\* The engine's assumptions and sets are the same for both workers.
LEMMA TwinConstants ==
    /\ Twin!IsFiniteSet(Paths)
    /\ Twin!Entries = Entries
    /\ Twin!Transactions = Transactions
    /\ Twin!Phases = Phases
    /\ Twin!HardConflictMode = HardConflictMode
    /\ Twin!Results = Results
<1>1. Twin!IsFiniteSet(Paths)
  BY PathsAssumption DEF IsFiniteSet, Twin!IsFiniteSet
<1>2. Twin!Entries = Entries /\ Twin!Transactions = Transactions
  BY DEF Entries, Twin!Entries, Transactions, Twin!Transactions, TransactionState,
         Twin!TransactionState, EntryState, Twin!EntryState
<1>3. Twin!Phases = Phases /\ Twin!HardConflictMode = HardConflictMode /\ Twin!Results = Results
  BY DEF Phases, Twin!Phases, ApplyPhases, Twin!ApplyPhases, RollbackPhases, Twin!RollbackPhases,
         HardConflictMode, Twin!HardConflictMode, Results, Twin!Results
<1> QED
  BY <1>1, <1>2, <1>3

\* The orphan's steps are steps of the engine.
LEMMA OrphanApply == Orphan!ApplyStep => Twin!ApplyStep
BY DEF Orphan!ApplyStep, Twin!ApplyStep, Orphan!BatchPreflight, Twin!BatchPreflight,
       Orphan!RefuseHardConflicts, Twin!RefuseHardConflicts, Orphan!JournalBatch, Twin!JournalBatch,
       Orphan!EverythingSkipped, Twin!EverythingSkipped, Orphan!StartApplying, Twin!StartApplying,
       Orphan!SkipEntry, Twin!SkipEntry, Orphan!PreflightRefuses, Twin!PreflightRefuses,
       Orphan!CheckpointApplying, Twin!CheckpointApplying, Orphan!Rename, Twin!Rename,
       Orphan!RenameFails, Twin!RenameFails, Orphan!ConfirmApplied, Twin!ConfirmApplied,
       Orphan!ConfirmFails, Twin!ConfirmFails, Orphan!JournalFailure, Twin!JournalFailure,
       Orphan!FinishApply, Twin!FinishApply, Orphan!FailEntry, Twin!FailEntry, Orphan!Idle,
       Twin!Idle, Orphan!WriteThen, Twin!WriteThen, Orphan!WriteAndReturn, Twin!WriteAndReturn,
       Orphan!WriteFails, Twin!WriteFails, Orphan!Continue, Twin!Continue, Orphan!WithEntry,
       Twin!WithEntry, Orphan!WithState, Twin!WithState, Orphan!run_preflight, Twin!run_preflight,
       Orphan!ConflictingBatchTarget, Twin!ConflictingBatchTarget, Orphan!Entries, Twin!Entries,
       Orphan!rename_noreplace, Twin!rename_noreplace, Orphan!CanRename, Twin!CanRename,
       Orphan!confirm_rename, Twin!confirm_rename, Orphan!OnlyAtDestination, Twin!OnlyAtDestination

LEMMA OrphanRollback == Orphan!RollbackStep => Twin!RollbackStep
BY DEF Orphan!RollbackStep, Twin!RollbackStep, Orphan!RollbackAlreadyDone, Twin!RollbackAlreadyDone,
       Orphan!RollbackReconciles, Twin!RollbackReconciles, Orphan!RollbackUnresolved,
       Twin!RollbackUnresolved, Orphan!EnterRollback, Twin!EnterRollback, Orphan!RollbackSkipsEntry,
       Twin!RollbackSkipsEntry, Orphan!CheckpointRollingBack, Twin!CheckpointRollingBack,
       Orphan!RollbackChecks, Twin!RollbackChecks, Orphan!ReverseRename, Twin!ReverseRename,
       Orphan!ReverseRenameFails, Twin!ReverseRenameFails, Orphan!ConfirmRolledBack,
       Twin!ConfirmRolledBack, Orphan!RestoredIdentityDiffers, Twin!RestoredIdentityDiffers,
       Orphan!RollbackStopped, Twin!RollbackStopped, Orphan!FinishRollback, Twin!FinishRollback,
       Orphan!RollbackEntryFails, Twin!RollbackEntryFails, Orphan!Idle, Twin!Idle, Orphan!WriteThen,
       Twin!WriteThen, Orphan!WriteAndReturn, Twin!WriteAndReturn, Orphan!WriteFails,
       Twin!WriteFails, Orphan!Continue, Twin!Continue, Orphan!WithEntry, Twin!WithEntry,
       Orphan!WithState, Twin!WithState, Orphan!Entries, Twin!Entries, Orphan!rename_noreplace,
       Twin!rename_noreplace, Orphan!CanRename, Twin!CanRename, Orphan!OnlyAtDestination,
       Twin!OnlyAtDestination, Orphan!OnlyAtSource, Twin!OnlyAtSource, Orphan!Reconciled,
       Twin!Reconciled, Orphan!ReconciledEntry, Twin!ReconciledEntry, Orphan!SettledClean,
       Twin!SettledClean, Orphan!InFlight, Twin!InFlight, Orphan!RemainingIncomplete,
       Twin!RemainingIncomplete

LEMMA OrphanCancel == Orphan!CancelStep => Twin!CancelStep
BY DEF Orphan!CancelStep, Twin!CancelStep, Orphan!RefusedAtStart, Twin!RefusedAtStart,
       Orphan!ApplyCancelled, Twin!ApplyCancelled, Orphan!RollbackCancelled, Twin!RollbackCancelled,
       Orphan!Idle, Twin!Idle, Orphan!WriteAndReturn, Twin!WriteAndReturn, Orphan!WriteFails,
       Twin!WriteFails, Orphan!Continue, Twin!Continue, Orphan!WithState, Twin!WithState,
       Orphan!Entries, Twin!Entries

LEMMA OrphanTypes == Twin!EngineTypeOK => Orphan!EngineTypeOK
BY DEF Orphan!EngineTypeOK, Twin!EngineTypeOK, Orphan!Transactions, Twin!Transactions,
       Orphan!TransactionState, Twin!TransactionState, Orphan!EntryState, Twin!EntryState,
       Orphan!Entries, Twin!Entries, Orphan!Phases, Twin!Phases, Orphan!ApplyPhases,
       Twin!ApplyPhases, Orphan!RollbackPhases, Twin!RollbackPhases, Orphan!HardConflictMode,
       Twin!HardConflictMode, Orphan!Results, Twin!Results

LEMMA OrphanRuns ==
    ASSUME Twin!EngineTypeInv, OrphanStep
    PROVE  /\ Twin!EngineTypeInv'
           /\ opc # "idle"
           /\ UNCHANGED <<callVars, pageVars, raced>>
<1>1. Twin!ApplyStep \/ Twin!RollbackStep \/ Twin!CancelStep
  BY OrphanApply, OrphanRollback, OrphanCancel DEF OrphanStep
<1>2. opc # "idle"
  BY <1>1, TwinConstants, BatchAssumption, NoneAssumption, Twin!EngineSteps
<1>3. Twin!EngineTypeInv'
  BY <1>1, TwinConstants, BatchAssumption, NoneAssumption, Twin!TypeApplyStep,
     Twin!TypeRollbackStep, Twin!TypeCancelStep
<1> QED
  BY <1>2, <1>3 DEF OrphanStep

LEMMA GuiTypeInit == Init => GuiTypeInv
<1> SUFFICES ASSUME Init PROVE GuiTypeInv
  OBVIOUS
<1>1. EngineTypeInv
  BY EngineTypeInit DEF Init
<1>2. Twin!EngineTypeInv
  BY <1>1, TwinConstants, BatchAssumption
     DEF Init, EngineTypeInv, EngineTypeOK, Twin!EngineTypeInv, Twin!EngineTypeOK, Twin!IndexInv,
         Twin!Silent, Phases, HardConflictMode, Results
<1> QED
  BY <1>1, <1>2 DEF Init, EngineInit, GuiTypeInv, PageTypes, FrameHolds

LEMMA WorkerRuns ==
    ASSUME Worker
    PROVE  /\ ApplyStep \/ RollbackStep \/ CancelStep
           /\ pc # "idle"
           /\ UNCHANGED <<pageVars, orphanVars>>
           /\ raced' = (raced \/ (pc = "batch" /\ disk # None /\ disk' # disk))
BY EngineSteps DEF Worker

\* What the rest of the application may do to the files and the journal beside a call.
Typed == fs \in [Paths -> Objects \cup {None}] /\ disk \in Transactions \cup {None}

\* A call stands still while the page or the other worker acts.
LEMMA EngineRests ==
    ASSUME EngineTypeInv, UNCHANGED <<mem, pc, idx, bad, mode>>, Typed',
           result' \in {result, "none"}
    PROVE  EngineTypeInv'
BY DEF EngineTypeInv, EngineTypeOK, IndexInv, Silent, Results, Typed

LEMMA OrphanRests ==
    ASSUME Twin!EngineTypeInv, UNCHANGED orphanVars, Typed'
    PROVE  Twin!EngineTypeInv'
BY TwinConstants
   DEF Twin!EngineTypeInv, Twin!EngineTypeOK, Twin!IndexInv, Twin!Silent, Typed, orphanVars

\* The abandoned worker's call goes on as it stands.
LEMMA OrphanTypesBeside ==
    ASSUME EngineTypeInv, Twin!EngineTypeInv, Beside, Typed'
    PROVE  Twin!EngineTypeInv'
<1>1. CASE UNCHANGED orphanVars
  BY <1>1, OrphanRests
<1>2. CASE /\ omem' = mem /\ opc' = pc /\ oidx' = idx
           /\ obad' = bad /\ omode' = mode /\ oresult' = result
  BY <1>2, TwinConstants
     DEF EngineTypeInv, EngineTypeOK, IndexInv, Silent, Twin!EngineTypeInv, Twin!EngineTypeOK,
         Twin!IndexInv, Twin!Silent, Typed
<1> QED
  BY <1>1, <1>2 DEF Beside

\* A call that begins beside an orphan is a race.
LEMMA RacedBeside ==
    ASSUME PageTypes, Beside
    PROVE  raced' \in BOOLEAN /\ (opc' # "idle" => raced')
<1>1. CASE UNCHANGED <<orphanVars, raced>>
  BY <1>1 DEF PageTypes, orphanVars
<1>2. CASE raced' = TRUE
  BY <1>2
<1> QED
  BY <1>1, <1>2 DEF Beside

LEMMA TypedNow == ASSUME EngineTypeInv PROVE Typed
BY DEF EngineTypeInv, EngineTypeOK, Typed

LEMMA GuiTypeNext == GuiTypeInv /\ [Next]_vars => GuiTypeInv'
<1> SUFFICES ASSUME GuiTypeInv, [Next]_vars PROVE GuiTypeInv'
  OBVIOUS
<1> USE NoneAssumption
<1>0. /\ EngineTypeInv /\ Twin!EngineTypeInv /\ PageTypes /\ FrameHolds
      /\ Typed /\ (pc # "idle" => result = "none")
  BY TypedNow DEF GuiTypeInv, EngineTypeInv, Silent
<1>00. ASSUME EngineTypeInv', Twin!EngineTypeInv', PageTypes', FrameHolds' PROVE GuiTypeInv'
  BY <1>00 DEF GuiTypeInv
<1>01. ASSUME UNCHANGED <<fs, mem, pc, idx, bad, mode>>, UNCHANGED orphanVars,
              disk' \in Transactions \cup {None}, result' \in {result, "none"}
       PROVE  EngineTypeInv' /\ Twin!EngineTypeInv'
  <2>1. Typed'
    BY <1>0, <1>01 DEF Typed
  <2> QED
    BY <1>0, <1>01, <2>1, EngineRests, OrphanRests
<1>1. ASSUME NEW m \in HardConflictMode, ConfirmApply(m) PROVE GuiTypeInv'
  <2>1. EngineTypeInv' /\ Typed'
    BY <1>0, <1>1, TypeBeginApply DEF ConfirmApply, EngineTypeInv, EngineTypeOK, Typed
  <2>2. Twin!EngineTypeInv'
    BY <1>0, <1>1, <2>1, OrphanTypesBeside DEF ConfirmApply
  <2>3. raced' \in BOOLEAN /\ (opc' # "idle" => raced')
    BY <1>0, <1>1, RacedBeside DEF ConfirmApply
  <2>4. PageTypes' /\ FrameHolds'
    BY <1>0, <1>1, <2>3 DEF ConfirmApply, PageTypes, FrameHolds
  <2> QED
    BY <1>00, <2>1, <2>2, <2>4
<1>2. CASE start_rollback
  <2>1. EngineTypeInv' /\ Typed'
    BY <1>0, <1>2, TypeBeginRollback DEF start_rollback, EngineTypeInv, EngineTypeOK, Typed
  <2>2. Twin!EngineTypeInv'
    BY <1>0, <1>2, <2>1, OrphanTypesBeside DEF start_rollback
  <2>3. raced' \in BOOLEAN /\ (opc' # "idle" => raced')
    BY <1>0, <1>2, RacedBeside DEF start_rollback
  <2>4. PageTypes' /\ FrameHolds'
    BY <1>0, <1>2, <2>3 DEF start_rollback, PageTypes, FrameHolds
  <2> QED
    BY <1>00, <2>1, <2>2, <2>4
<1>3. CASE CancelApplyReview
  <2>1. EngineTypeInv' /\ Twin!EngineTypeInv'
    BY <1>0, <1>3, <1>01 DEF CancelApplyReview, Typed
  <2>2. PageTypes' /\ FrameHolds'
    BY <1>0, <1>3 DEF CancelApplyReview, orphanVars, PageTypes, FrameHolds
  <2> QED
    BY <1>00, <2>1, <2>2
<1>4. CASE abandon_apply_work
  <2>1. EngineTypeInv' /\ Twin!EngineTypeInv'
    BY <1>0, <1>4, <1>01 DEF abandon_apply_work, Typed
  <2>2. cancel' \in BOOLEAN /\ (pc' # "idle" => cancel')
    BY <1>0, <1>4 DEF abandon_apply_work, PageTypes
  <2>3. PageTypes' /\ FrameHolds'
    BY <1>0, <1>4, <2>2 DEF abandon_apply_work, orphanVars, PageTypes, FrameHolds
  <2> QED
    BY <1>00, <2>1, <2>3
<1>5. CASE Poll
  <2>1. /\ UNCHANGED <<fs, disk, mem, pc, idx, bad, mode, back, cancel, orphanVars>>
        /\ poll_apply
        /\ frame = "idle"
    BY <1>5 DEF Poll
  <2>2. /\ apply_review' \in BOOLEAN /\ subset_available' \in BOOLEAN
        /\ job' \in {"none", "apply", "rollback"} /\ result' \in {result, "none"}
        /\ pc # "idle" => job' = job
    BY <1>0, <2>1 DEF poll_apply, PageTypes
  <2>3. \/ /\ frame' = "classify" /\ seen' = disk /\ disk # None
           /\ raced' = (raced \/ pc # "idle")
        \/ UNCHANGED <<frame, seen, raced>>
    BY <1>5 DEF Poll
  <2>4. EngineTypeInv' /\ Twin!EngineTypeInv'
    BY <1>0, <1>01, <2>1, <2>2 DEF Typed
  <2>5. PageTypes' /\ FrameHolds'
    BY <1>0, <2>1, <2>2, <2>3 DEF FrameHolds, PageTypes, Typed, orphanVars
  <2> QED
    BY <1>00, <2>4, <2>5
<1>6. CASE Classify
  <2>1. EngineTypeInv' /\ Twin!EngineTypeInv'
    BY <1>0, <1>6, <1>01 DEF Classify, Typed
  <2>2. seen \in Transactions /\ Reconciled(seen) \in Transactions
    BY <1>0, <1>6, ReconciledType DEF Classify, FrameHolds, PageTypes
  <2>3. PageTypes' /\ FrameHolds'
    BY <1>0, <1>6, <2>2 DEF Classify, FrameHolds, PageTypes, orphanVars
  <2> QED
    BY <1>00, <2>1, <2>3
<1>7. CASE FrameWrite \/ FrameWriteFails
  <2>1. /\ UNCHANGED <<fs, mem, pc, idx, bad, mode, result,
                       apply_review, subset_available, job, cancel, orphanVars, raced>>
        /\ disk' \in {disk, back} /\ EndFrame
    BY <1>7 DEF FrameWrite, FrameWriteFails
  <2>2. EngineTypeInv' /\ Twin!EngineTypeInv'
    BY <1>0, <1>01, <2>1 DEF PageTypes, Typed
  <2>3. PageTypes' /\ FrameHolds'
    BY <1>0, <2>1 DEF EndFrame, PageTypes, FrameHolds, orphanVars
  <2> QED
    BY <1>00, <2>2, <2>3
<1>8. CASE Worker
  <2>1. EngineTypeInv' /\ UNCHANGED orphanVars
    BY <1>0, <1>8, WorkerRuns, TypeApplyStep, TypeRollbackStep, TypeCancelStep
  <2>2. Typed'
    BY <2>1 DEF EngineTypeInv, EngineTypeOK, Typed
  <2>3. Twin!EngineTypeInv'
    BY <1>0, <2>1, <2>2, OrphanRests
  <2>4. PageTypes' /\ FrameHolds'
    BY <1>0, <1>8, WorkerRuns DEF pageVars, orphanVars, PageTypes, FrameHolds
  <2> QED
    BY <1>00, <2>1, <2>3, <2>4
<1>9. CASE OrphanStep
  <2>1. /\ Twin!EngineTypeInv' /\ opc # "idle"
        /\ UNCHANGED <<callVars, pageVars, raced>>
    BY <1>0, <1>9, OrphanRuns
  <2>2. Typed'
    BY <2>1, TwinConstants DEF Twin!EngineTypeInv, Twin!EngineTypeOK, Typed
  <2>3. EngineTypeInv'
    BY <1>0, <2>1, <2>2, EngineRests DEF callVars
  <2>4. PageTypes' /\ FrameHolds'
    BY <1>0, <2>1 DEF pageVars, callVars, PageTypes, FrameHolds
  <2> QED
    BY <1>00, <2>1, <2>3, <2>4
<1>10. CASE Crash
  <2>1. EngineTypeInv'
    BY <1>0, <1>10, TypeIdle DEF Crash, Results
  <2>2. Twin!EngineTypeInv'
    BY <1>0, <1>10, TwinConstants, BatchAssumption
       DEF Crash, Orphan!Idle, Twin!EngineTypeInv, Twin!EngineTypeOK, Twin!IndexInv, Twin!Silent,
           Phases, Results
  <2>3. PageTypes' /\ FrameHolds'
    BY <1>0, <1>10 DEF Crash, Idle, Orphan!Idle, EndFrame, PageTypes, FrameHolds
  <2> QED
    BY <1>00, <2>1, <2>2, <2>3
<1>11. CASE UNCHANGED vars
  <2>1. EngineTypeInv' /\ Twin!EngineTypeInv'
    BY <1>0, <1>11, <1>01 DEF vars, orphanVars, Typed
  <2>2. PageTypes' /\ FrameHolds'
    BY <1>0, <1>11 DEF vars, PageTypes, FrameHolds
  <2> QED
    BY <1>00, <2>1, <2>2
<1> QED
  BY <1>1, <1>2, <1>3, <1>4, <1>5, <1>6, <1>7, <1>8, <1>9, <1>10, <1>11 DEF Next, Frame

\* Type correctness, for every batch: the page and both workers keep their types, a
\* worker that runs is one the page waits for or has told to stop (abandon_apply_work),
\* and an orphan beside a later call is always accounted for as a race.
THEOREM TypeCorrect == Spec => []TypeOK
<1>1. GuiTypeInv => TypeOK
  BY OrphanTypes DEF GuiTypeInv, PageTypes, EngineTypeInv, Twin!EngineTypeInv, TypeOK
<1> QED
  BY GuiTypeInit, GuiTypeNext, <1>1, PTL DEF Spec

-----------------------------------------------------------------------------
(* The truth of the journal *)

LEMMA GuiTruthInit == Init => GuiTruth
<1> SUFFICES ASSUME Init PROVE GuiTruth
  OBVIOUS
<1>1. \A i \in Entries : EntrySound(fs, {}, "Planned", i)
  BY DEF Init, EngineInit, EntrySound, Moved
<1> QED
  BY <1>1 DEF Init, EngineInit, GuiTruth, EngineTruth, Records, SoundJournal, Progress, Windows,
              FrameAlone

\* The engine's truth is about what the page leaves alone.
LEMMA TruthRests ==
    ASSUME EngineTruth({}), UNCHANGED <<fs, disk, mem, pc, idx>>
    PROVE  EngineTruth({})'
BY DEF EngineTruth, Records, Progress, Windows, NotBegun, OnlyAtSource, OnlyAtDestination

LEMMA ReconciledRests ==
    ASSUME NEW tx, UNCHANGED fs
    PROVE  Reconciled(tx)' = Reconciled(tx)
BY DEF Reconciled, ReconciledEntry, SettledClean, OnlyAtSource, OnlyAtDestination

LEMMA GuiTruthNext == GuiTypeInv /\ GuiTruth /\ [Next]_vars => GuiTruth'
<1> SUFFICES ASSUME GuiTypeInv, GuiTruth, [Next]_vars, ~raced'
             PROVE  EngineTruth({})' /\ FrameAlone'
  BY DEF GuiTruth
<1> USE NoneAssumption
<1>0. EngineTypeInv /\ FrameHolds /\ disk \in Transactions \cup {None}
  BY DEF GuiTypeInv, EngineTypeInv, EngineTypeOK
<1>1. ~raced
  BY DEF GuiTypeInv, PageTypes, Next, ConfirmApply, start_rollback, Beside, CancelApplyReview,
         abandon_apply_work, Frame, Poll, Classify, FrameWrite, FrameWriteFails, Worker, OrphanStep,
         Crash, vars
<1>2. EngineTruth({}) /\ FrameAlone
  BY <1>1 DEF GuiTruth
<1>3. Records({}) /\ Progress /\ Windows({})
  BY <1>2 DEF EngineTruth
<1>4. ASSUME NEW m \in HardConflictMode, ConfirmApply(m)
      PROVE  EngineTruth({})' /\ FrameAlone'
  <2>1. /\ pc' = "preflight" /\ mem' = BuiltTransaction /\ frame' = "idle"
        /\ UNCHANGED <<fs, disk>>
    BY <1>4 DEF ConfirmApply, BeginApply
  <2>2. NotBegun(BuiltTransaction, 1)
    BY DEF NotBegun, BuiltTransaction
  <2> QED
    BY <1>3, <2>1, <2>2 DEF EngineTruth, Records, Progress, Windows, FrameAlone
<1>5. CASE start_rollback
  <2>1. /\ disk # None /\ pc' = "rbReconcile" /\ mem' = disk /\ frame' = "idle"
        /\ UNCHANGED <<fs, disk>>
    BY <1>5 DEF start_rollback, BeginRollback
  <2> QED
    BY <1>3, <2>1 DEF EngineTruth, Records, SoundJournal, Progress, Windows, FrameAlone
<1>6. CASE CancelApplyReview \/ abandon_apply_work
  <2>1. UNCHANGED <<fs, disk, mem, pc, idx, frame>> /\ frame = "idle"
    BY <1>6 DEF CancelApplyReview, abandon_apply_work
  <2> QED
    BY <1>2, <2>1, TruthRests DEF FrameAlone
<1>7. CASE Poll
  <2>1. /\ UNCHANGED <<fs, disk, mem, pc, idx>>
        /\ \/ frame' = "idle"
           \/ frame' = "classify" /\ seen' = disk /\ pc = "idle"
    BY <1>7 DEF Poll
  <2> QED
    BY <1>2, <2>1, TruthRests DEF FrameAlone
<1>8. CASE Classify
  <2>1. /\ frame = "classify" /\ UNCHANGED <<fs, disk, mem, pc, idx>>
        /\ \/ frame' = "idle"
           \/ frame' = "write" /\ back' = Reconciled(seen)
    BY <1>8 DEF Classify
  <2>2. pc = "idle" /\ seen = disk /\ disk # None
    BY <1>0, <1>2, <2>1 DEF FrameAlone, FrameHolds
  <2>3. EngineTruth({})'
    BY <1>2, <2>1, TruthRests
  <2>4. PICK tx : tx = disk
    OBVIOUS
  <2>5. frame' = "write" => back' = Reconciled(tx)'
    BY <2>1, <2>2, <2>4, ReconciledRests
  <2>6. Reconciled(tx)' = Reconciled(disk)'
    BY <2>1, <2>4
  <2> QED
    BY <2>1, <2>2, <2>3, <2>5, <2>6 DEF FrameAlone
<1>9. CASE FrameWrite
  <2>1. /\ frame = "write" /\ disk' = back /\ frame' = "idle"
        /\ UNCHANGED <<fs, mem, pc, idx>>
    BY <1>9 DEF FrameWrite, EndFrame
  <2>2. /\ pc = "idle" /\ disk \in Transactions /\ Sound(fs, {}, disk)
        /\ disk' = Reconciled(disk)
    BY <1>0, <1>2, <1>3, <2>1 DEF FrameAlone, Records, SoundJournal
  <2>3. disk' \in Transactions /\ Sound(fs, {}, disk')
    BY <2>2, ReconciledType, SoundReconciled
  <2> QED
    BY <2>1, <2>2, <2>3 DEF EngineTruth, Records, SoundJournal, Progress, Windows, FrameAlone
<1>10. CASE FrameWriteFails
  <2>1. UNCHANGED <<fs, disk, mem, pc, idx>> /\ frame' = "idle"
    BY <1>10 DEF FrameWriteFails, EndFrame
  <2> QED
    BY <1>2, <2>1, TruthRests DEF FrameAlone
<1>11. CASE Worker
  <2>1. /\ ApplyStep \/ RollbackStep \/ CancelStep
        /\ pc # "idle" /\ UNCHANGED frame
        /\ pc = "batch" => disk = None \/ disk' = disk
    BY <1>11, WorkerRuns DEF pageVars
  <2>2. EngineTruth({})'
    BY <1>0, <1>2, <2>1, TruthApplyStep, TruthRollbackStep, TruthCancelStep
  <2>3. frame' = "idle"
    BY <1>2, <2>1 DEF FrameAlone
  <2> QED
    BY <2>2, <2>3 DEF FrameAlone
<1>12. CASE Crash
  BY <1>3, <1>12 DEF Crash, Idle, EndFrame, EngineTruth, Records, Progress, Windows, FrameAlone
<1>13. CASE OrphanStep
  \* An orphan beside a later call means the journal has two writers.
  BY <1>1, <1>13, OrphanRuns DEF GuiTypeInv, PageTypes
<1>14. CASE UNCHANGED vars
  <2>1. UNCHANGED <<fs, disk, mem, pc, idx, frame, seen, back>>
    BY <1>14 DEF vars
  <2>2. Reconciled(disk)' = Reconciled(disk)
    BY <2>1 DEF Reconciled, ReconciledEntry, SettledClean, OnlyAtSource, OnlyAtDestination
  <2> QED
    BY <1>2, <2>1, <2>2, TruthRests DEF FrameAlone
<1> QED
  BY <1>4, <1>5, <1>6, <1>7, <1>8, <1>9, <1>10, <1>11, <1>12, <1>13, <1>14 DEF Next, Frame

\* The journal of the page's batch is true, for every batch and whatever the user
\* clicks, abandons and retries, unless a frame set out to reconcile it while a worker
\* ran, a second apply replaced the record of the first, or a call began while a worker
\* the page had abandoned was still running.
THEOREM TrueUnlessRaced == Spec => []TruthUnlessRaced
<1>1. GuiTruth => TruthUnlessRaced
  BY DEF GuiTruth, TruthUnlessRaced, JournalTruth, EngineTruth, Records, SoundJournal, Sound,
         EntrySound, EntryTruth, Apart, OnlyAtSource, OnlyAtDestination
<1> QED
  BY GuiTypeInit, GuiTypeNext, GuiTruthInit, GuiTruthNext, <1>1, PTL DEF Spec
=============================================================================
