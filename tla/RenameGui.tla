----------------------------- MODULE RenameGui ------------------------------
(***************************************************************************)
(* The rename engine under the DAT Sources page of the GUI.  A worker      *)
(* thread runs one call of the engine; the UI thread polls its outcome and *)
(* on every frame re-reads the journal, reconciles what is in flight       *)
(* against the filesystem and writes it back, whether or not the worker is *)
(* still running.  A failed apply leaves the reviewed transaction in place *)
(* for another try.  A worker the page has abandoned runs on, and a new    *)
(* call may start beside it.  Nothing but EmuWiz changes the files here.   *)
(***************************************************************************)
EXTENDS RenameEngine

VARIABLES
    apply_review,      \* a reviewed transaction is shown
    subset_available,  \* the page offers to apply the safe subset
    job,               \* the worker the page waits for
    frame,             \* where the UI thread is in refresh_recovery
    seen,              \* the journal as this frame read it
    back,              \* the reconciled journal this frame will write
    cancel,            \* the worker's cancel flag
    omem, opc, oidx, obad, omode, oresult,   \* the call of an abandoned worker beside it
    raced              \* history variable: two writers of the journal got in each other's way

pageVars == <<apply_review, subset_available, job, frame, seen, back, cancel>>
callVars == <<mem, pc, idx, bad, mode, result>>
orphanVars == <<omem, opc, oidx, obad, omode, oresult>>
vars == <<fs, disk, mem, pc, idx, bad, mode, result,
          apply_review, subset_available, job, frame, seen, back, cancel,
          omem, opc, oidx, obad, omode, oresult, raced>>

\* Two workers share the files and the journal, nothing else.
Orphan == INSTANCE RenameEngine
          WITH mem <- omem, pc <- opc, idx <- oidx, bad <- obad, mode <- omode, result <- oresult

Init ==
    /\ EngineInit
    /\ apply_review = TRUE
    /\ subset_available = FALSE
    /\ job = "none"
    /\ frame = "idle"
    /\ seen = None
    /\ back = None
    /\ cancel = FALSE
    /\ omem = None
    /\ opc = "idle"
    /\ oidx = 0
    /\ obad = {}
    /\ omode = "AbortAll"
    /\ oresult = "none"
    /\ raced = FALSE

-----------------------------------------------------------------------------
(* The user's clicks, handled between two frames. *)

\* The page's new call takes the engine's variables.  The page looks only at its own
\* job, so an abandoned worker may still be in them: it goes on as the orphan.
\* Bound: one orphan in a run of the application (oresult tells that it has been).
Beside ==
    \/ /\ pc = "idle"
       /\ UNCHANGED <<orphanVars, raced>>
    \/ /\ pc # "idle"
       /\ opc = "idle" /\ oresult = "none"
       /\ omem' = mem
       /\ opc' = pc
       /\ oidx' = idx
       /\ obad' = bad
       /\ omode' = mode
       /\ oresult' = result
       /\ raced' = TRUE

\* confirm_apply and spawn_apply: the worker gets a fresh copy of the review.
ConfirmApply(m) ==
    /\ frame = "idle"
    /\ apply_review
    /\ job = "none"
    /\ m = "SkipUnsafeSubset" => subset_available
    /\ BeginApply(m)
    /\ Beside
    /\ job' = "apply"
    /\ cancel' = FALSE
    /\ subset_available' = FALSE
    /\ UNCHANGED <<apply_review, frame, seen, back>>

start_rollback ==
    /\ frame = "idle"
    /\ job = "none"
    /\ disk # None
    /\ BeginRollback(disk)
    /\ Beside
    /\ job' = "rollback"
    /\ cancel' = FALSE
    /\ UNCHANGED <<disk, apply_review, subset_available, frame, seen, back>>

CancelApplyReview ==
    /\ frame = "idle"
    /\ apply_review
    /\ job # "apply"
    /\ apply_review' = FALSE
    /\ subset_available' = FALSE
    /\ UNCHANGED <<fs, disk, mem, pc, idx, bad, mode, result,
                   job, frame, seen, back, cancel, orphanVars, raced>>

\* Removing or re-auditing the source, or discarding the changes, forgets the
\* worker and tells it to stop; nobody waits for it.  Bound: one abandoned worker
\* at a time beside the page's own.
abandon_apply_work ==
    /\ frame = "idle"
    /\ pc = "idle" \/ opc = "idle"
    /\ job' = "none"
    /\ cancel' = (cancel \/ job # "none")
    /\ apply_review' = FALSE
    /\ subset_available' = FALSE
    /\ UNCHANGED <<fs, disk, mem, pc, idx, bad, mode, result, frame, seen, back, orphanVars, raced>>

-----------------------------------------------------------------------------
(* One frame: poll_apply, then refresh_recovery. *)

\* Mutant: the Failed message is not taken for the end of the job.
poll_apply_ignores_failed ==
    IF job # "none" /\ result \notin {"none", "error"}
    THEN /\ job' = "none"
         /\ result' = "none"
         /\ apply_review' = (apply_review /\ result # "outcome")
         /\ subset_available' = (subset_available \/ result = "conflicts")
    ELSE UNCHANGED <<job, result, apply_review, subset_available>>

\* poll_apply drains the worker's message, if there is one.
poll_apply ==
    IF job # "none" /\ result # "none"
    THEN /\ job' = "none"
         /\ result' = "none"
         /\ apply_review' = (apply_review /\ result # "outcome")
         /\ subset_available' = (subset_available \/ result = "conflicts")
    ELSE UNCHANGED <<job, result, apply_review, subset_available>>

\* Mutant: only the transaction's own state is looked at.
ApplyUnfinished(tx) == tx.state = "Applying"

NeedsReconciliation(tx) == tx.state = "Applying" \/ InFlight(tx) # {}

\* The frame polls, lists the journals and picks the ones to reconcile.
Poll ==
    /\ frame = "idle"
    /\ poll_apply
    /\ IF disk # None /\ is_rollbackable(disk) /\ NeedsReconciliation(disk)
       THEN frame' = "classify" /\ seen' = disk /\ raced' = (raced \/ pc # "idle")
       ELSE UNCHANGED <<frame, seen, raced>>
    /\ UNCHANGED <<fs, disk, mem, pc, idx, bad, mode, back, cancel, orphanVars>>

\* reconcile_recovery compares the entries in flight with the filesystem.
Classify ==
    /\ frame = "classify"
    /\ IF Reconciled(seen) # seen
       THEN frame' = "write" /\ back' = Reconciled(seen) /\ UNCHANGED seen
       ELSE frame' = "idle" /\ seen' = None /\ UNCHANGED back
    /\ UNCHANGED <<fs, disk, mem, pc, idx, bad, mode, result,
                   apply_review, subset_available, job, cancel, orphanVars, raced>>

EndFrame == frame' = "idle" /\ seen' = None /\ back' = None

\* ... and writes the journal, also while a worker relies on it.
FrameWrite ==
    /\ frame = "write"
    /\ disk' = back
    /\ EndFrame
    /\ UNCHANGED <<fs, mem, pc, idx, bad, mode, result,
                   apply_review, subset_available, job, cancel, orphanVars, raced>>

\* A failed write is ignored.
FrameWriteFails ==
    /\ frame = "write"
    /\ EndFrame
    /\ UNCHANGED <<fs, disk, mem, pc, idx, bad, mode, result,
                   apply_review, subset_available, job, cancel, orphanVars, raced>>

Frame == Poll \/ Classify \/ FrameWrite

-----------------------------------------------------------------------------
\* A worker looks at its cancel flag at the start of an apply and at the head of
\* either loop.
AtCancelPoint(p, i) ==
    \/ p = "preflight" /\ i = 1
    \/ p \in {"loop", "rbLoop"} /\ i \in Entries

\* The first journal write of an apply replaces whatever is there.
Worker ==
    /\ IF cancel /\ AtCancelPoint(pc, idx) THEN CancelStep ELSE ApplyStep \/ RollbackStep
    /\ raced' = (raced \/ (pc = "batch" /\ disk # None /\ disk' # disk))
    /\ UNCHANGED <<pageVars, orphanVars>>

\* The orphan has been told to stop, and nobody reads what it returns.
OrphanStep ==
    /\ IF AtCancelPoint(opc, oidx)
       THEN Orphan!CancelStep
       ELSE Orphan!ApplyStep \/ Orphan!RollbackStep
    /\ UNCHANGED <<callVars, pageVars, raced>>

\* The application dies with its threads; the page starts anew without a review.
Crash ==
    /\ Idle("none")
    /\ Orphan!Idle("none")
    /\ apply_review' = FALSE
    /\ subset_available' = FALSE
    /\ job' = "none"
    /\ cancel' = FALSE
    /\ EndFrame
    /\ UNCHANGED <<fs, disk, mode, omode, raced>>

Next ==
    \/ \E m \in HardConflictMode : ConfirmApply(m)
    \/ start_rollback
    \/ CancelApplyReview
    \/ abandon_apply_work
    \/ Frame
    \/ FrameWriteFails
    \/ Worker
    \/ OrphanStep
    \/ Crash

\* The threads keep running, the application does not die in every frame, and
\* a journal write that is tried again and again succeeds in the end.
Fairness ==
    /\ WF_vars(Worker)
    /\ WF_vars(OrphanStep)
    /\ WF_vars(Frame)
    /\ SF_vars(Classify)
    /\ SF_vars(FrameWrite)

Spec == Init /\ [][Next]_vars /\ Fairness

-----------------------------------------------------------------------------
\* Every variable has its type.
TypeOK ==
    /\ EngineTypeOK
    /\ Orphan!EngineTypeOK
    /\ apply_review \in BOOLEAN
    /\ subset_available \in BOOLEAN
    /\ job \in {"none", "apply", "rollback"}
    /\ frame \in {"idle", "classify", "write"}
    /\ seen \in Transactions \cup {None}
    /\ back \in Transactions \cup {None}
    /\ cancel \in BOOLEAN
    /\ raced \in BOOLEAN
    /\ pc # "idle" => job # "none" \/ cancel
    /\ opc # "idle" => raced

\* journal.rs: the journal is "the source of truth for a rename batch"; "a
\* process crash can never lose the record of what was renamed and what was not".
JournalTruth ==
    \A i \in Entries : IF disk = None THEN fs[Src[i]] = Obj[i] ELSE EntryTruth(disk, i)

\* The journal is untrue only after one of three things: a frame set out to
\* reconcile it while a worker ran, a second apply of the same review replaced
\* the record of the first, or a call began while a worker the page had
\* abandoned was still running.
TruthUnlessRaced == ~raced => JournalTruth

\* Recovery never leaves an entry in flight for good: the frames reconcile it.
InFlightSettles ==
    (disk # None /\ InFlight(disk) # {}) ~> (disk # None /\ InFlight(disk) = {})

\* The page learns the outcome of every worker it started.
WorkerReported == (job # "none") ~> (job = "none")
=============================================================================
