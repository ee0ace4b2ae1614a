----------------------------- MODULE OwnedMoves -----------------------------
(***************************************************************************)
(* Transactions that create the directories they move files into: the ROM  *)
(* organisation (dat/rom_organisation/transaction.rs) and the duplicate    *)
(* quarantine (repair/quarantine.rs).  Both journal their intent, create   *)
(* directories and journal each one as theirs, move the files one by one   *)
(* around the journal's checkpoints, and on rollback move the files back   *)
(* and remove the directories they own.  The quarantine proves before each *)
(* move that the survivor still holds the same content.                    *)
(*                                                                         *)
(* The moves of an organisation are those of the rename engine, modelled   *)
(* in RenameEngine with everything that can happen to the files; here the  *)
(* files move or fail to, and the user works on the directories and on the *)
(* survivor.                                                               *)
(***************************************************************************)
EXTENDS Naturals, FiniteSets, Sequences, SequencesExt

CONSTANTS
  Entries,    \* the entries, in the order of the transaction
  Planned,    \* the directories they may need, in creation order
  Platform,   \* Platform[e]: the directory an organisation moves entry e into
  MaxUser,    \* bound: what the user does while the transaction lives
  None        \* no journal, no transaction in memory

Files == Range(Entries)

Dirs == Range(Planned)

ASSUME OwnedMovesAssumption ==
  /\ Entries \in Seq(Files) /\ IsInjective(Entries)
  /\ Planned \in Seq(Dirs) /\ Planned # <<>>
  /\ Platform \in [Files -> Dirs]
  /\ MaxUser \in Nat

VARIABLES
  kind,      \* which of the two transactions this is
  at,        \* at[e]: the file is at its source or in its directory
  dir,       \* dir[d]: nothing there, or who made the directory that is there
  extra,     \* the directories that hold a file of the user
  survivor,  \* the survivor still holds the content of the duplicates
  journal,   \* the transaction on disk
  held,      \* the applied transaction the organisation page holds
  mem,       \* the transaction of the running call
  pc,        \* where the call is
  todo,      \* what its loop has left
  own,       \* the running rollback removes the created directories too
  cancel,    \* the caller's cancel flag
  user,      \* bound: what the user has done so far
  remade,    \* history: directories the user made under a claimed name
  losses,    \* history: how often the survivor was lost
  late       \* history: duplicates moved away while the survivor was lost

files == <<at, dir, extra>>
people == <<kind, survivor, user, remade, losses>>
vars == <<kind, at, dir, extra, survivor, journal, held, mem, pc, todo, own,
          cancel, user, remade, losses, late>>

EntryState == {"Planned", "Applying", "Applied", "ApplyFailed", "RollingBack",
               "RolledBack", "RollbackFailed", "Skipped"}

TransactionState == EntryState \ {"Skipped"}

Transaction == [state : TransactionState, entry : [Files -> EntryState],
                created_directories : Seq(Dirs)]

ASSUME NoneAssumption == None \notin Transaction

\* What build_organisation_transaction and build_quarantine_transaction return.
Built == [state |-> "Planned", entry |-> [e \in Files |-> "Planned"],
          created_directories |-> <<>>]

WithState(tx, s) == [tx EXCEPT !.state = s]

WithEntry(tx, e, s) == [tx EXCEPT !.entry[e] = s]

\* The quarantine root, with the bucket of the content hash inside it; the
\* platform directories of an organisation stand side by side.
QuarantineRoot == Head(Planned)

Parents(d) == IF kind = "quarantine" /\ d # QuarantineRoot THEN {QuarantineRoot}
                                                           ELSE {}

Home(e) == IF kind = "quarantine" THEN Last(Planned) ELSE Platform[e]

Empty(d) == /\ d \notin extra
            /\ \A e \in Files : at[e] = "home" => Home(e) # d
            /\ \A c \in Dirs : d \in Parents(c) => dir[c] = "none"

TypeOK ==
  /\ kind \in {"organise", "quarantine"}
  /\ at \in [Files -> {"source", "home"}]
  /\ dir \in [Dirs -> {"none", "user", "ours"}]
  /\ extra \subseteq {d \in Dirs : dir[d] # "none"}
  /\ \A e \in Files : at[e] = "home" => dir[Home(e)] # "none"
  /\ \A d \in Dirs : dir[d] # "none" => \A p \in Parents(d) : dir[p] # "none"
  /\ {journal, held, mem} \subseteq Transaction \cup {None}
  /\ (mem = None) <=> (pc = "idle")
  /\ {survivor, own, cancel} \subseteq BOOLEAN
  /\ user \in 0 .. MaxUser /\ losses \in 0 .. MaxUser
  /\ remade \subseteq Dirs /\ late \subseteq Files

Init ==
  /\ kind \in {"organise", "quarantine"}
  /\ at = [e \in Files |-> "source"]
  /\ dir \in [Dirs -> {"none", "user"}]
  /\ \A d \in Dirs : dir[d] # "none" => \A p \in Parents(d) : dir[p] # "none"
  /\ extra = {}
  /\ survivor = TRUE
  /\ journal = None /\ held = None /\ mem = None
  /\ pc = "idle" /\ todo = <<>> /\ own = FALSE /\ cancel = FALSE
  /\ user = 0 /\ remade = {} /\ losses = 0 /\ late = {}

-----------------------------------------------------------------------------
(* How a call goes on, ends, and writes the journal. *)

Goto(tx, next, rest) ==
  /\ mem' = tx
  /\ pc' = next
  /\ todo' = rest

Return ==
  /\ Goto(None, "idle", <<>>)
  /\ cancel' = FALSE
  /\ own' = FALSE

\* write_journal fails and the call returns the error.  The organisation page
\* keeps the transaction whose rollback failed.
WriteFails(tx) ==
  /\ Return
  /\ held' = IF own /\ kind = "organise" THEN tx ELSE held
  /\ UNCHANGED journal

Save(tx, next, rest) ==
  /\ \/ /\ journal' = tx
        /\ Goto(tx, next, rest)
        /\ UNCHANGED <<held, cancel, own>>
     \/ WriteFails(tx)
  /\ UNCHANGED <<files, people, late>>

\* The last write of an apply; the page holds what a successful call returned.
SaveAndReturn(tx, ok) ==
  /\ \/ /\ journal' = tx
        /\ Return
        /\ held' = IF ok /\ kind = "organise" THEN tx ELSE held
     \/ WriteFails(tx)
  /\ UNCHANGED <<files, people, late>>

-----------------------------------------------------------------------------
(* apply_organisation_transaction and apply_quarantine_transaction *)

\* The intent is durable before anything is created or moved.
BeginApply ==
  /\ pc = "idle"
  /\ journal = None
  /\ Save(WithState(Built, "Applying"),
          IF kind = "quarantine" THEN "proof" ELSE "dirs", Planned)

\* Layer 1 of the quarantine: every entry is still a duplicate of the survivor.
BatchProof ==
  /\ pc = "proof"
  /\ IF survivor /\ ~cancel
     THEN /\ Goto(mem, "dirs", Planned)
          /\ UNCHANGED <<files, people, journal, held, own, cancel, late>>
     ELSE SaveAndReturn(WithState(mem, "ApplyFailed"), FALSE)

CanCreate(d) == dir[d] = "none" /\ \A p \in Parents(d) : dir[p] # "none"

Created(d) == [mem EXCEPT !.created_directories = Append(@, d)]

\* Mutant: a directory that was there already is claimed as well.
MakeDirOrAdopt ==
  /\ pc = "dirs" /\ todo # <<>> /\ ~cancel
  /\ CanCreate(Head(todo)) \/ dir[Head(todo)] # "none"
  /\ dir' = [dir EXCEPT ![Head(todo)] = IF @ = "none" THEN "ours" ELSE @]
  /\ Goto(Created(Head(todo)), "claim", todo)
  /\ UNCHANGED <<at, extra, people, journal, held, own, cancel, late>>

\* create_dir succeeds: the directory is there and claimed in memory.
MakeDir ==
  /\ pc = "dirs" /\ todo # <<>> /\ ~cancel
  /\ CanCreate(Head(todo))
  /\ dir' = [dir EXCEPT ![Head(todo)] = "ours"]
  /\ Goto(Created(Head(todo)), "claim", todo)
  /\ UNCHANGED <<at, extra, people, journal, held, own, cancel, late>>

\* Mutant: the claim is left to the next write of the journal.
ClaimLater ==
  /\ pc = "claim"
  /\ Goto(mem, "dirs", Tail(todo))
  /\ UNCHANGED <<files, people, journal, held, own, cancel, late>>

\* The ownership is journaled as soon as the directory exists.
ClaimDir ==
  /\ pc = "claim"
  /\ Save(mem, "dirs", Tail(todo))

\* A directory that exists, or appeared meanwhile, is never the transaction's.
DirExists ==
  /\ pc = "dirs" /\ todo # <<>> /\ ~cancel
  /\ dir[Head(todo)] # "none"
  /\ Goto(mem, "dirs", Tail(todo))
  /\ UNCHANGED <<files, people, journal, held, own, cancel, late>>

\* It cannot be created or looked at, or (in a quarantine) is a symlink.
MakeDirFails ==
  /\ pc = "dirs" /\ todo # <<>> /\ ~cancel
  /\ SaveAndReturn(WithState(mem, "ApplyFailed"), FALSE)

DirsDone ==
  /\ pc = "dirs"
  /\ todo = <<>> \/ cancel
  /\ Goto(mem, "preflight", <<>>)
  /\ UNCHANGED <<files, people, journal, held, own, cancel, late>>

\* run_preflight passes only when every entry's directory is there.
AllHomesExist == \A e \in Files : dir[Home(e)] # "none"

PreflightPasses ==
  /\ pc = "preflight"
  /\ AllHomesExist
  /\ IF kind = "quarantine"
     THEN Save(mem, "entry", Entries)
     ELSE /\ Goto(mem, "executor", <<>>)
          /\ UNCHANGED <<files, people, journal, held, own, cancel, late>>

\* A conflict: the quarantine records the failure and keeps its claims, the
\* organisation first removes what it has just created.
PreflightConflict ==
  /\ pc = "preflight"
  /\ IF kind = "quarantine"
     THEN SaveAndReturn(WithState(mem, "ApplyFailed"), FALSE)
     ELSE /\ Goto(mem, "cleanUp", Reverse(mem.created_directories))
          /\ UNCHANGED <<files, people, journal, held, own, cancel, late>>

\* remove_dir, whose failure is ignored.
CleanUpDir ==
  /\ pc = "cleanUp" /\ todo # <<>>
  /\ \/ /\ dir[Head(todo)] # "none" /\ Empty(Head(todo))
        /\ dir' = [dir EXCEPT ![Head(todo)] = "none"]
     \/ UNCHANGED dir
  /\ Goto(mem, "cleanUp", Tail(todo))
  /\ UNCHANGED <<at, extra, people, journal, held, own, cancel, late>>

\* The claims are dropped whether or not the directories are gone.
DropClaims ==
  /\ pc = "cleanUp" /\ todo = <<>>
  /\ SaveAndReturn([WithState(mem, "ApplyFailed") EXCEPT
                      !.created_directories = <<>>], FALSE)

\* The shared executor checks once more; refused or cancelled here, the call
\* returns and the journal stays as it is.
ExecutorRefuses ==
  /\ pc = "executor"
  /\ Return
  /\ UNCHANGED <<files, people, journal, held, late>>

ExecutorStarts ==
  /\ pc = "executor"
  /\ ~cancel /\ AllHomesExist
  /\ Save(mem, "entry", Entries)

EntryCancelled ==
  /\ pc = "entry" /\ todo # <<>> /\ cancel
  /\ SaveAndReturn(WithState(mem, "ApplyFailed"), TRUE)

\* Mutant: the proof of the batch is trusted for every entry.
TrustBatchProof == TRUE

\* Layer 2 of the quarantine: this entry, immediately before its own move.
reprove_entry_against_survivor == kind = "quarantine" => survivor

CheckEntry ==
  /\ pc = "entry" /\ todo # <<>> /\ ~cancel
  /\ IF reprove_entry_against_survivor /\ dir[Home(Head(todo))] # "none"
     THEN Goto(mem, "checkpoint", todo)
     ELSE Goto(WithState(WithEntry(mem, Head(todo), "ApplyFailed"), "ApplyFailed"),
               "fail", todo)
  /\ UNCHANGED <<files, people, journal, held, own, cancel, late>>

\* Mutant: the checkpoint is kept in memory only.
CheckpointInMemory ==
  /\ pc = "checkpoint"
  /\ Goto(WithEntry(mem, Head(todo), "Applying"), "move", todo)
  /\ UNCHANGED <<files, people, journal, held, own, cancel, late>>

\* The durable Applying checkpoint, before the rename.
Checkpoint ==
  /\ pc = "checkpoint"
  /\ Save(WithEntry(mem, Head(todo), "Applying"), "move", todo)

Move ==
  /\ pc = "move"
  /\ dir[Home(Head(todo))] # "none"
  /\ at' = [at EXCEPT ![Head(todo)] = "home"]
  /\ late' = IF survivor THEN late ELSE late \cup {Head(todo)}
  /\ Goto(WithEntry(mem, Head(todo), "Applied"), "record", todo)
  /\ UNCHANGED <<dir, extra, people, journal, held, own, cancel>>

MoveFails ==
  /\ pc = "move"
  /\ Goto(WithState(WithEntry(mem, Head(todo), "ApplyFailed"), "ApplyFailed"),
          "fail", todo)
  /\ UNCHANGED <<files, people, journal, held, own, cancel, late>>

Record ==
  /\ pc = "record"
  /\ Save(mem, "entry", Tail(todo))

\* A failed entry is journaled and ends the batch.
RecordFailure ==
  /\ pc = "fail"
  /\ Save(mem, "entry", <<>>)

FinishApply ==
  /\ pc = "entry" /\ todo = <<>>
  /\ SaveAndReturn(IF mem.state = "Applying" THEN WithState(mem, "Applied") ELSE mem,
                   TRUE)

Apply ==
  \/ BeginApply \/ BatchProof
  \/ MakeDir \/ ClaimDir \/ DirExists \/ MakeDirFails \/ DirsDone
  \/ PreflightPasses \/ PreflightConflict \/ CleanUpDir \/ DropClaims
  \/ ExecutorRefuses \/ ExecutorStarts
  \/ EntryCancelled \/ CheckEntry \/ Checkpoint \/ Move \/ MoveFails
  \/ Record \/ RecordFailure \/ FinishApply

-----------------------------------------------------------------------------
(* rollback_organisation_transaction and rollback_quarantine_transaction: the *)
(* shared rollback_transaction, then the directories.                         *)

needs_recovery(tx) ==
  tx.state \in {"Planned", "Applying", "ApplyFailed", "RollingBack", "RollbackFailed"}

is_rollbackable(tx) ==
  \/ needs_recovery(tx)
  \/ tx.state = "Applied" /\ \E e \in Files : tx.entry[e] = "Applied"

\* reconcile_recovery: an entry in flight is where its file is.
ReconciledEntry(s, e) ==
  CASE s = "Applying" /\ at[e] = "source" -> "Skipped"
    [] s = "RollingBack" /\ at[e] = "source" -> "RolledBack"
    [] s \in {"Applying", "RollingBack"} /\ at[e] = "home" -> "Applied"
    [] OTHER -> s

Reconciled(tx) ==
  LET entry == [e \in Files |-> ReconciledEntry(tx.entry[e], e)]
  IN  [tx EXCEPT
         !.entry = entry,
         !.state = IF @ = "Applying" /\ Range(entry) \subseteq {"Applied", "Skipped"}
                   THEN "Applied" ELSE @]

\* The Repair History page and `repair rollback`: read, reconcile (a failed
\* write is ignored) and undo the moves.  The directories stay.
RollbackFromHistory ==
  /\ pc = "idle" /\ journal # None
  /\ is_rollbackable(Reconciled(journal))
  /\ journal' \in {journal, Reconciled(journal)}
  /\ Goto(Reconciled(journal), "rbStart", <<>>)
  /\ UNCHANGED <<files, people, held, own, cancel, late>>

\* The organisation page gives its own copy to the rollback that knows of the
\* directories; the quarantine's is given the journal.
RollbackOwn ==
  /\ pc = "idle"
  /\ LET tx == IF kind = "organise" THEN held ELSE journal
     IN  tx # None /\ Goto(tx, "rbStart", <<>>)
  /\ held' = None
  /\ own' = TRUE
  /\ UNCHANGED <<files, people, journal, cancel, late>>

\* rollback_transaction has returned; the claimed directories are next.
ToDirectories(tx) ==
  Goto(tx, "rmDirs", Reverse(tx.created_directories))

RbReconcile ==
  /\ pc = "rbStart"
  /\ mem.state # "RolledBack"
  /\ IF Reconciled(mem) # mem
     THEN Save(Reconciled(mem), "rbEnter", <<>>)
     ELSE /\ Goto(mem, "rbEnter", <<>>)
          /\ UNCHANGED <<files, people, journal, held, own, cancel, late>>

RbAlreadyDone ==
  /\ pc = "rbStart"
  /\ mem.state = "RolledBack"
  /\ ToDirectories(mem)
  /\ UNCHANGED <<files, people, journal, held, own, cancel, late>>

RbEnter ==
  /\ pc = "rbEnter"
  /\ Save(WithState(mem, "RollingBack"), "rbLoop", Reverse(Entries))

RbSkip ==
  /\ pc = "rbLoop" /\ todo # <<>> /\ ~cancel
  /\ mem.entry[Head(todo)] # "Applied"
  /\ Goto(mem, "rbLoop", Tail(todo))
  /\ UNCHANGED <<files, people, journal, held, own, cancel, late>>

\* Mutant: every entry is moved back, whatever its state.
RbCheckpointAny ==
  /\ pc = "rbLoop" /\ todo # <<>> /\ ~cancel
  /\ Save(WithEntry(mem, Head(todo), "RollingBack"), "rbMove", todo)

\* The durable RollingBack checkpoint of an entry that is eligible.
RbCheckpoint ==
  /\ pc = "rbLoop" /\ todo # <<>> /\ ~cancel
  /\ mem.entry[Head(todo)] = "Applied"
  /\ Save(WithEntry(mem, Head(todo), "RollingBack"), "rbMove", todo)

RbMove ==
  /\ pc = "rbMove"
  /\ at[Head(todo)] = "home"
  /\ at' = [at EXCEPT ![Head(todo)] = "source"]
  /\ Goto(WithEntry(mem, Head(todo), "RolledBack"), "rbRecord", todo)
  /\ UNCHANGED <<dir, extra, people, journal, held, own, cancel, late>>

RbMoveFails ==
  /\ pc = "rbMove"
  /\ Goto(WithState(WithEntry(mem, Head(todo), "RollbackFailed"), "RollbackFailed"),
          "rbFinal", todo)
  /\ UNCHANGED <<files, people, journal, held, own, cancel, late>>

RbRecord ==
  /\ pc = "rbRecord"
  /\ Save(mem, "rbLoop", Tail(todo))

RbDone ==
  /\ pc = "rbLoop" /\ (todo = <<>> \/ cancel)
  /\ Goto(WithState(mem, IF \E e \in Files : mem.entry[e] \in {"Applied", "RollingBack"}
                         THEN "RollbackFailed" ELSE "RolledBack"), "rbFinal", <<>>)
  /\ UNCHANGED <<files, people, journal, held, own, cancel, late>>

\* The final write; a rollback that knows of the directories goes on to them.
RbFinal ==
  /\ pc = "rbFinal"
  /\ IF own
     THEN /\ \/ journal' = mem /\ ToDirectories(mem) /\ UNCHANGED <<held, own, cancel>>
             \/ WriteFails(mem)
          /\ UNCHANGED <<files, people, late>>
     ELSE SaveAndReturn(mem, FALSE)

\* Mutant: remove_dir_all.
RemovableWithContent(d) == dir[d] # "none" /\ \A c \in Dirs : d \notin Parents(c)

Removable(d) == dir[d] # "none" /\ Empty(d)

\* An owned directory is removed if it is there and empty, and reported
\* otherwise.
RemoveOwnedDir ==
  /\ pc = "rmDirs" /\ todo # <<>>
  /\ \/ /\ Removable(Head(todo))
        /\ dir' = [dir EXCEPT ![Head(todo)] = "none"]
     \/ UNCHANGED dir
  /\ Goto(mem, "rmDirs", Tail(todo))
  /\ UNCHANGED <<at, extra, people, journal, held, own, cancel, late>>

RollbackReturns ==
  /\ pc = "rmDirs" /\ todo = <<>>
  /\ Return
  /\ UNCHANGED <<files, people, journal, held, late>>

Rollback ==
  \/ RollbackFromHistory \/ RollbackOwn
  \/ RbReconcile \/ RbAlreadyDone \/ RbEnter \/ RbSkip \/ RbCheckpoint
  \/ RbMove \/ RbMoveFails \/ RbRecord \/ RbDone \/ RbFinal
  \/ RemoveOwnedDir \/ RollbackReturns

-----------------------------------------------------------------------------
(* The process and the user *)

\* The process dies: its memory and the page are gone.
Crash ==
  /\ pc # "idle" \/ held # None
  /\ Return
  /\ held' = None
  /\ UNCHANGED <<files, people, journal, late>>

Cancel ==
  /\ pc # "idle" /\ ~cancel
  /\ cancel' = TRUE
  /\ UNCHANGED <<files, people, journal, held, mem, pc, todo, own, late>>

call == <<journal, held, mem, pc, todo, own, cancel, late>>

Claimed(tx) == IF tx = None THEN {} ELSE Range(tx.created_directories)

UserMakesDir(d) ==
  /\ CanCreate(d)
  /\ dir' = [dir EXCEPT ![d] = "user"]
  /\ remade' = IF d \in UNION {Claimed(journal), Claimed(held), Claimed(mem)}
               THEN remade \cup {d} ELSE remade
  /\ UNCHANGED <<at, extra, survivor, losses>>

UserRemovesDir(d) ==
  /\ dir[d] # "none" /\ Empty(d)
  /\ dir' = [dir EXCEPT ![d] = "none"]
  /\ UNCHANGED <<at, extra, survivor, remade, losses>>

UserPutsOrTakesFile(d) ==
  /\ dir[d] # "none"
  /\ extra' = IF d \in extra THEN extra \ {d} ELSE extra \cup {d}
  /\ UNCHANGED <<at, dir, survivor, remade, losses>>

\* The survivor is replaced, renamed or linked, or put back.
SurvivorChanges ==
  /\ kind = "quarantine"
  /\ survivor' = ~survivor
  /\ losses' = IF survivor THEN losses + 1 ELSE losses
  /\ UNCHANGED <<files, remade>>

User ==
  /\ user < MaxUser
  /\ user' = user + 1
  /\ \/ \E d \in Dirs : UserMakesDir(d) \/ UserRemovesDir(d) \/ UserPutsOrTakesFile(d)
     \/ SurvivorChanges
  /\ UNCHANGED <<kind, call>>

Next == Apply \/ Rollback \/ Crash \/ Cancel \/ User

Spec == Init /\ [][Next]_vars

-----------------------------------------------------------------------------
\* "A pre-existing user directory can never be removed by rollback": no step of
\* the program removes a directory it did not make itself, except one the user
\* made under a name the transaction had claimed, after removing the
\* program's own directory.
UserDirsKept ==
  [][\A d \in Dirs :
        dir[d] = "user" /\ dir'[d] = "none" /\ user' = user => d \in remade]_vars

\* Every directory the program made stays accounted for: whatever fails or
\* crashes, at most one, the one created last, is on disk without a claim in
\* the journal, unless a refused organisation gave up its claims altogether.
AtMostOneUnclaimed ==
  \/ Cardinality({d \in Dirs : dir[d] = "ours"} \ Claimed(journal)) <= 1
  \/ /\ kind = "organise" /\ journal # None
     /\ journal.state \notin {"Applying", "Applied"} /\ Claimed(journal) = {}

\* The quarantine's second layer of proof: a survivor that is lost while the
\* batch runs costs at most the one duplicate that was already on its way.
OneDuplicatePerLoss == kind = "quarantine" => Cardinality(late) <= losses

\* A file that is not at its source is known to the journal and the transaction
\* is offered for rollback, unless undoing this entry was tried and failed.
MovedIsUndoable ==
  \A e \in Files :
    at[e] = "home" =>
      /\ journal # None
      /\ \/ journal.entry[e] = "RollbackFailed"
         \/ /\ journal.entry[e] \in {"Applying", "Applied", "RollingBack"}
            /\ pc = "idle" => is_rollbackable(Reconciled(journal))

\* "a repeated rollback request is a safe no-op for entries already rolled
\* back": the journal never takes back that an entry was undone, however often
\* rollbacks fail, crash and are repeated; the organisation page alone does it,
\* with a copy of the transaction that is older than the journal.
UndoneStaysUndone ==
  [][\A e \in Files :
        /\ journal # None /\ journal.entry[e] = "RolledBack"
        /\ journal'.entry[e] # "RolledBack"
        => own /\ kind = "organise"]_vars
=============================================================================
