--------------------------- MODULE RenameRecovery ---------------------------
(***************************************************************************)
(* One batch of renames over its whole life, one call at a time: it is     *)
(* applied once, the process may die in any step, any other program may    *)
(* change any file at any moment, `repair history` reconciles the journal  *)
(* and `repair rollback` undoes it, as often as the user asks.             *)
(***************************************************************************)
EXTENDS RenameEngine

VARIABLES
    review,    \* the built transaction has not been handed to apply yet
    touched    \* history variable: the paths some other program changed

vars == <<fs, disk, mem, pc, idx, bad, mode, result, review, touched>>

Init ==
    /\ EngineInit
    /\ review = TRUE
    /\ touched = {}

-----------------------------------------------------------------------------
\* The user confirms the reviewed batch; the transaction is used once.
Apply(m) ==
    /\ pc = "idle"
    /\ review
    /\ review' = FALSE
    /\ BeginApply(m)
    /\ UNCHANGED touched

\* `repair history`: a journal with an entry in flight is reconciled; a failed
\* write is ignored and leaves the journal alone.
run_history ==
    /\ pc = "idle"
    /\ disk # None
    /\ InFlight(disk) # {}
    /\ disk' = Reconciled(disk)
    /\ UNCHANGED <<fs, mem, pc, idx, bad, mode, result, review, touched>>

\* `repair rollback`: read, reconcile (a failed write is ignored), refuse what
\* is not rollbackable, and call rollback_transaction.
run_rollback ==
    /\ pc = "idle"
    /\ disk # None
    /\ disk' \in {disk, Reconciled(disk)}
    /\ IF is_rollbackable(Reconciled(disk))
       THEN BeginRollback(Reconciled(disk))
       ELSE UNCHANGED <<fs, mem, pc, idx, bad, mode, result>>
    /\ UNCHANGED <<review, touched>>

Step == (ApplyStep \/ RollbackStep) /\ UNCHANGED <<review, touched>>

Cancel == CancelStep /\ UNCHANGED <<review, touched>>

Crash == EngineCrash /\ UNCHANGED <<review, touched>>

\* Another program creates, replaces or deletes what is at a path.
External ==
    \E p \in Paths, o \in Objects \cup {None} :
        /\ o # fs[p]
        /\ fs' = [fs EXCEPT ![p] = o]
        /\ touched' = touched \cup {p}
        /\ UNCHANGED <<disk, mem, pc, idx, bad, mode, result, review>>

Next ==
    \/ \E m \in HardConflictMode : Apply(m)
    \/ run_history
    \/ run_rollback
    \/ Step
    \/ Cancel
    \/ Crash
    \/ External

Spec == Init /\ [][Next]_vars /\ WF_vars(Step)

-----------------------------------------------------------------------------
Untouched(i) == Src[i] \notin touched /\ Dst[i] \notin touched

\* Every variable has its type.
TypeOK ==
    /\ EngineTypeOK
    /\ review \in BOOLEAN
    /\ touched \in SUBSET Paths

\* The journal never loses the record of a rename (journal.rs): at every
\* moment, also inside a call or after a crash or a failed journal write, each
\* entry whose paths nobody else changed is where its journaled state says, and
\* a file without a journal has not moved.
JournalTruth ==
    \A i \in Entries : Untouched(i) =>
        IF disk = None THEN fs[Src[i]] = Obj[i] ELSE EntryTruth(disk, i)

\* A renamed file stays reachable (model.rs, is_rollbackable): between calls, a
\* file that is not back at its source is recorded as moved or in flight and
\* the transaction is offered for rollback, unless undoing that entry was tried
\* and failed.
NothingStranded ==
    pc = "idle" =>
        \A i \in Entries :
            Untouched(i) /\ fs[Src[i]] # Obj[i] =>
                /\ disk # None
                /\ \/ disk.est[i] = "RollbackFailed"
                   \/ /\ disk.est[i] \in {"Applied", "Applying", "RollingBack"}
                      /\ is_rollbackable(disk)

\* At most one entry is in flight in the journal, whatever crashes and retries
\* came before (one durable checkpoint per mutation window).
OneInFlight ==
    disk # None => \A i, j \in InFlight(disk) : i = j

\* A failure stops the batch (executor.rs): no entry after a failed one was
\* ever renamed, and an undo runs from the last entry to the first
\* (rollback.rs): nothing after an undone entry is still applied.
BatchOrder ==
    disk # None =>
        \A i, j \in Entries : i < j =>
            /\ disk.est[i] = "ApplyFailed" => disk.est[j] \in {"Planned", "Skipped"}
            /\ disk.est[i] = "RolledBack" => disk.est[j] # "Applied"

\* A step of the program never destroys or duplicates a file: what is on the
\* filesystem is only rearranged, and a path outside the batch is left alone
\* (no-clobber renames only).
OnlyMovesBatchFiles ==
    [][~External =>
         /\ \A o \in Objects :
                Cardinality({p \in Paths : fs'[p] = o}) = Cardinality({p \in Paths : fs[p] = o})
         /\ \A p \in Paths :
                fs'[p] # fs[p] => \E i \in Entries : p \in {Src[i], Dst[i]}]_vars

(* The ledger this module implements *)

Where(i) ==
    CASE ~Untouched(i) -> "foreign"
      [] Untouched(i) /\ fs[Src[i]] = Obj[i] -> "source"
      [] OTHER -> "destination"

JournalSays(i) ==
    CASE ~Untouched(i) -> "foreign"
      [] Untouched(i) /\ (disk = None \/ disk.est[i] \in {"Planned", "Skipped", "ApplyFailed",
                                                       "RolledBack"}) -> "source"
      [] Untouched(i) /\ disk # None /\ disk.est[i] \in {"Applying", "RollingBack"} -> "either"
      [] OTHER -> "destination"

WhereMap == [i \in Entries |-> Where(i)]

JournalMap == [i \in Entries |-> JournalSays(i)]

Ledger == INSTANCE RenameLedger WITH where <- WhereMap, ledger <- JournalMap

\* The engine with its calls, crashes, failed writes, cancellations, recoveries
\* and repeated rollbacks implements the write-ahead ledger: a file moves only
\* while the journal on disk has it in flight, one at a time, and the journal
\* commits itself only to where the file is.
ImplementsLedger == Ledger!Spec

\* Every call of the engine returns.
CallReturns == (pc # "idle") ~> (pc = "idle")

-----------------------------------------------------------------------------
\* model.rs on RolledBack: "Every applied entry has been reversed and confirmed."
\* (and rollback.rs: a full rollback is never claimed for a partial one).
RolledBackMeansRestored ==
    disk # None /\ disk.state = "RolledBack" =>
        \A i \in Entries : Untouched(i) => fs[Src[i]] = Obj[i]
=============================================================================
