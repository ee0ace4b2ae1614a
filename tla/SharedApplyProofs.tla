-------------------------- MODULE SharedApplyProofs -------------------------
(***************************************************************************)
(* What the shared safe apply promises, for every number of operations,    *)
(* files and contents.  The lock of the destination root makes the         *)
(* operations take turns; the rest is what each of them has established by *)
(* the phase it is in, and what the records, the backups and the user's    *)
(* last contents have to do with each other when nobody holds the lock.    *)
(***************************************************************************)
EXTENDS SharedApply, TLAPS

\* The phases in which an operation's process holds the lock.
Held == {"check", "parent", "backup", "write", "verify", "restore", "unlock",
         "rbEntry", "rbMarker"}

\* The phases in which an entry is being applied.
Acting == {"parent", "backup", "write", "verify", "restore"}

\* The entries the record of operation o says it changed.
Installed(o, f) == rec[o].out[f] = "InstalledNew"
Replaced(o, f) == rec[o].out[f] = "ReplacedExisting"

LockInv == \A o \in Ops : ph[o] \in Held => lock = o

\* An operation has its record for as long as it needs it, the journal is written
\* last, and the record's outcomes agree with what was reviewed and backed up.
RecordInv(o) ==
  /\ ph[o] \notin {"new", "done"} => rec[o] # None
  /\ o \in journaled => rec[o] # None /\ ph[o] \in {"done"} \cup RollbackPhases
  /\ ph[o] \in RollbackPhases => o \in journaled
  /\ rec[o] # None =>
       \A f \in Files :
         /\ Installed(o, f) => rec[o].pre[f] = None
         /\ Replaced(o, f) => rec[o].pre[f] # None /\ backup[o][f] = rec[o].pre[f]
  /\ o \notin backupDir => \A f \in Files : backup[o][f] = None

\* What apply_one knows of the entry it is at.
EntryInv(o) ==
  /\ ph[o] \in Acting => rec[o].pre[Entry(o)] # New[o]
  /\ ph[o] \in {"parent", "backup", "write"} => dest[Entry(o)] = rec[o].pre[Entry(o)]
  /\ ph[o] = "backup" => rec[o].pre[Entry(o)] # None
  /\ ph[o] \in {"verify", "restore"} => dest[Entry(o)] = New[o]
  /\ ph[o] \in {"write", "verify", "restore"} /\ rec[o].pre[Entry(o)] # None
       => backup[o][Entry(o)] = rec[o].pre[Entry(o)]

\* What a running rollback knows: the entries behind it that it calls undone are
\* as they were reviewed, and the ones ahead are as its preview found them if the
\* preview had not expired.
UndoInv(o) ==
  /\ ph[o] \notin {"rbEntry", "rbMarker"} => undone[o] = {}
  /\ ph[o] = "rbEntry" =>
       \A i \in at[o] .. Len(Targets[o]) :
         /\ Targets[o][i] \notin undone[o]
         /\ ~stale /\ Targets[o][i] \in Changed(o) => dest[Targets[o][i]] = New[o]
  /\ \A f \in undone[o] : f \in Changed(o) => dest[f] = rec[o].pre[f]

\* The file still shows what its last writer installed.
WriterInv == \A f \in Files : writer[f] # None => dest[f] = New[writer[f]]

\* The user's content of f is in a backup.
Saved(f) == user[f] # None => \E o \in Ops : backup[o][f] = user[f]

\* A file an operation has written is one whose former content is in a backup,
\* unless the user has written it since.
SavedInv ==
  ~stale =>
    \A o \in Ops :
      /\ rec[o] # None =>
           \A f \in Files : Installed(o, f) \/ Replaced(o, f)
                              => Saved(f) \/ user[f] \in UserContents
      /\ ph[o] \in {"verify", "restore"} =>
           Saved(Entry(o)) \/ user[Entry(o)] \in UserContents

Facts(o) == RecordInv(o) /\ EntryInv(o) /\ UndoInv(o)

SharedInv ==
  /\ TypeOK
  /\ LockInv
  /\ \A o \in Ops : Facts(o)
  /\ WriterInv
  /\ SavedInv
  /\ UserContentKept

-----------------------------------------------------------------------------
(* The operators the specification is built from *)

\* The entry an operation is at is one of its files, and what an operation installs
\* is a content the user does not write.
LEMMA EntryFacts ==
  ASSUME TypeOK, NEW o \in Ops
  PROVE  /\ Entry(o) \in Files /\ Entry(o) \in InPlan(o) /\ InPlan(o) \subseteq Files
         /\ Targets[o] \in Seq(Files)
         /\ at[o] \in 1 .. Len(Targets[o])
         /\ New[o] \in Contents /\ New[o] # None /\ New[o] \notin UserContents
         /\ o # None
  BY SharedAssumption DEF TypeOK, Entry, InPlan

\* The preview installs where there is no file, skips its own content and replaces
\* anything else.
LEMMA ProposedFacts ==
  ASSUME TypeOK, NEW o \in Ops, NEW c
  PROVE  /\ ProposedAction(o, c) = "Install" <=> c = None
         /\ ProposedAction(o, c) = "Skip" <=> c = New[o]
         /\ ProposedAction(o, c) = "Replace" <=> c # None /\ c # New[o]
  BY EntryFacts DEF ProposedAction

\* The reviewed content of an entry.
LEMMA RecordFacts ==
  ASSUME TypeOK, NEW o \in Ops, rec[o] # None
  PROVE  /\ rec[o] \in Records
         /\ rec[o].pre \in [Files -> Contents \cup {None}]
         /\ rec[o].out \in [Files -> Outcomes]
         /\ rec[o].made \in SUBSET Files /\ rec[o].missing \in SUBSET Dirs
  BY DEF TypeOK, Records

\* Recording an outcome changes that entry's outcome and nothing else of the record.
LEMMA OutcomeRecorded ==
  ASSUME TypeOK, NEW o \in Ops, rec[o] # None, NEW outcome \in Outcomes,
         rec' = [rec EXCEPT ![o].out[Entry(o)] = outcome]
  PROVE  /\ rec' \in [Ops -> Records \cup {None}]
         /\ \A q \in Ops \ {o} : rec'[q] = rec[q]
         /\ rec'[o] # None /\ rec'[o].pre = rec[o].pre
         /\ rec'[o].out[Entry(o)] = outcome
         /\ \A f \in Files \ {Entry(o)} : rec'[o].out[f] = rec[o].out[f]
  <1> DEFINE r == [rec[o] EXCEPT !.out[Entry(o)] = outcome]
  <1>1. rec' = [rec EXCEPT ![o] = r]
    OBVIOUS
  <1>2. r \in Records
    BY EntryFacts, RecordFacts DEF Records
  <1>3. r.pre = rec[o].pre /\ r.out = [rec[o].out EXCEPT ![Entry(o)] = outcome]
    BY EntryFacts, RecordFacts DEF Records
  <1>4. r # None
    BY <1>2, RecordAssumption
  <1> QED
    BY <1>1, <1>2, <1>3, <1>4, EntryFacts, RecordFacts DEF TypeOK

\* A backup is written for one entry of one operation.
LEMMA BackupWritten ==
  ASSUME TypeOK, NEW o \in Ops,
         backup' = [backup EXCEPT ![o][Entry(o)] = dest[Entry(o)]]
  PROVE  /\ backup' \in [Ops -> [Files -> Contents \cup {None}]]
         /\ \A q \in Ops \ {o} : backup'[q] = backup[q]
         /\ backup'[o][Entry(o)] = dest[Entry(o)]
         /\ \A f \in Files \ {Entry(o)} : backup'[o][f] = backup[o][f]
  <1> DEFINE b == [backup[o] EXCEPT ![Entry(o)] = dest[Entry(o)]]
  <1>1. backup' = [backup EXCEPT ![o] = b]
    OBVIOUS
  <1>2. b \in [Files -> Contents \cup {None}]
    BY EntryFacts DEF TypeOK
  <1> QED
    BY <1>1, <1>2, EntryFacts DEF TypeOK

-----------------------------------------------------------------------------
(* What a step of one operation leaves alone *)

\* Only operation o's own state changes, the destination only under its lock.
OnlyOf(o) ==
  /\ \A q \in Ops \ {o} :
       /\ ph'[q] = ph[q] /\ at'[q] = at[q] /\ rec'[q] = rec[q]
       /\ undone'[q] = undone[q] /\ backup'[q] = backup[q]
       /\ q \in journaled' <=> q \in journaled
       /\ q \in backupDir' <=> q \in backupDir
  /\ stale => stale'
  /\ dest' = dest \/ ph[o] \in Held
  /\ lock' = lock \/ lock \in {o, None}
  /\ ph'[o] \in Held => lock' = o

\* The lock makes the operations take turns: a step of one of them disturbs nothing
\* that another one relies on.
LEMMA OthersKeep ==
  ASSUME TypeOK, LockInv, NEW o \in Ops, OnlyOf(o), NEW q \in Ops, q # o, Facts(q)
  PROVE  Facts(q)' /\ (ph'[q] \in Held => lock' = q)
  <1>1. /\ ph'[q] = ph[q] /\ at'[q] = at[q] /\ rec'[q] = rec[q]
        /\ undone'[q] = undone[q] /\ backup'[q] = backup[q]
        /\ q \in journaled' <=> q \in journaled
        /\ q \in backupDir' <=> q \in backupDir
    BY DEF OnlyOf
  <1>2. ph[q] \in Held => lock' = q /\ dest' = dest
    BY EntryFacts DEF OnlyOf, LockInv
  <1>3. RecordInv(q)'
    BY <1>1 DEF Facts, RecordInv, Installed, Replaced
  <1>4. EntryInv(q)'
    BY <1>1, <1>2 DEF Facts, EntryInv, Held, Acting, Entry
  <1>5. Changed(q)' = Changed(q)
    BY <1>1 DEF Changed, InPlan
  <1>6. UndoInv(q)'
    BY <1>1, <1>2, <1>5 DEF Facts, UndoInv, Held, OnlyOf
  <1> QED
    BY <1>1, <1>2, <1>3, <1>4, <1>6 DEF Facts

LEMMA Assemble ==
  ASSUME SharedInv, NEW o \in Ops, OnlyOf(o), TypeOK', Facts(o)', WriterInv', SavedInv',
         UserContentKept'
  PROVE  SharedInv'
  <1>1. \A q \in Ops \ {o} : Facts(q)' /\ (ph'[q] \in Held => lock' = q)
    BY OthersKeep DEF SharedInv
  <1>2. ph'[o] \in Held => lock' = o
    BY DEF OnlyOf
  <1> QED
    BY <1>1, <1>2 DEF SharedInv, LockInv

\* The record of o says that it changed f.
Marked(o, f) == rec[o] # None /\ (Installed(o, f) \/ Replaced(o, f))

\* The user's content of f is safe whatever is done to the file now.
Safe(f) == ~stale => Saved(f)

\* A backup, once there, is not overwritten.
BackupsStay ==
  \A q \in Ops, f \in Files : backup[q][f] # None => backup'[q][f] = backup[q][f]

\* The user's contents survive a step that overwrites only safe files.
LEMMA KeepsUserContent ==
  ASSUME SharedInv, NEW o \in Ops, OnlyOf(o), user' = user, BackupsStay,
         \A f \in Files : dest'[f] = dest[f] \/ Safe(f),
         \A f \in Files : Marked(o, f)' =>
            \/ Marked(o, f) \/ Safe(f)
            \/ f = Entry(o) /\ ph[o] \in {"verify", "restore"},
         ph'[o] \in {"verify", "restore"} =>
            /\ at'[o] = at[o]
            /\ ph[o] \in {"verify", "restore"} \/ Safe(Entry(o))
  PROVE  SavedInv' /\ UserContentKept'
  <1> SUFFICES ASSUME ~stale' PROVE SavedInv' /\ UserContentKept'
    BY DEF SavedInv, UserContentKept
  <1>1. ~stale
    BY DEF OnlyOf
  <1>2. ASSUME NEW f \in Files, Saved(f) PROVE Saved(f)'
    BY <1>2 DEF Saved, BackupsStay
  <1>3. UserContentKept'
    BY <1>1, <1>2 DEF SharedInv, UserContentKept, Safe, Saved
  <1>4. ASSUME NEW q \in Ops, NEW f \in Files, Marked(q, f)'
        PROVE  Saved(f)' \/ user'[f] \in UserContents
    <2>1. CASE q = o
      <3>1. Marked(o, f) => Saved(f) \/ user[f] \in UserContents
        BY <1>1 DEF SharedInv, SavedInv, Marked
      <3>2. ph[o] \in {"verify", "restore"} =>
              Saved(Entry(o)) \/ user[Entry(o)] \in UserContents
        BY <1>1 DEF SharedInv, SavedInv
      <3> QED
        BY <1>1, <1>2, <1>4, <2>1, <3>1, <3>2 DEF Safe
    <2>2. CASE q # o
      <3>1. Marked(q, f)
        BY <1>4, <2>2 DEF OnlyOf, Marked, Installed, Replaced
      <3> QED
        BY <1>1, <1>2, <3>1 DEF SharedInv, SavedInv, Marked
    <2> QED
      BY <2>1, <2>2
  <1>5. ASSUME NEW q \in Ops, ph'[q] \in {"verify", "restore"}
        PROVE  Saved(Entry(q))' \/ user'[Entry(q)'] \in UserContents
    <2>0. Entry(q) \in Files
      BY EntryFacts DEF SharedInv
    <2>1. Entry(q)' = Entry(q)
      BY <1>5 DEF OnlyOf, Entry
    <2>2. Saved(Entry(q)) \/ user[Entry(q)] \in UserContents
      BY <1>1, <1>5 DEF SharedInv, SavedInv, OnlyOf, Safe
    <2>3. Saved(Entry(q)) => Saved(Entry(q))'
      <3> DEFINE e == Entry(q)
      <3>1. Saved(e) => \E p \in Ops : user[e] # None => backup'[p][e] = user'[e]
        BY <2>0 DEF Saved, BackupsStay
      <3> QED
        BY <2>1, <3>1 DEF Saved
    <2> QED
      BY <2>1, <2>2, <2>3
  <1> QED
    BY <1>3, <1>4, <1>5 DEF SavedInv, Marked

-----------------------------------------------------------------------------
(* The steps of an apply *)

\* The loop goes on after an entry: the outcome is in the record, the rest of what
\* the operation knows of itself stands, and the phase is one that says nothing of
\* the destination.
LEMMA FinishFacts ==
  ASSUME SharedInv, NEW o \in Ops, NEW outcome \in Outcomes,
         ph[o] \in {"check"} \cup Acting, Finish(o, outcome),
         undone' = undone, journaled' = journaled, BackupsStay,
         o \notin backupDir' => \A f \in Files : backup'[o][f] = None,
         outcome = "InstalledNew" => rec[o].pre[Entry(o)] = None,
         outcome = "ReplacedExisting" => /\ rec[o].pre[Entry(o)] # None
                                         /\ backup'[o][Entry(o)] = rec[o].pre[Entry(o)]
  PROVE  /\ Facts(o)'
         /\ ph'[o] \in {"check", "unlock"}
         /\ ph' \in [Ops -> Phases] /\ at' \in [Ops -> Nat]
         /\ \A q \in Ops : at'[q] \in DOMAIN Targets[q]
         /\ rec' \in [Ops -> Records \cup {None}]
         /\ \A q \in Ops \ {o} : ph'[q] = ph[q] /\ at'[q] = at[q] /\ rec'[q] = rec[q]
         /\ \A f \in Files : Marked(o, f)' =>
               \/ Marked(o, f)
               \/ f = Entry(o) /\ outcome \in {"InstalledNew", "ReplacedExisting"}
  <1> USE DEF SharedInv
  <1>0. RecordInv(o) /\ EntryInv(o) /\ UndoInv(o)
    BY DEF Facts
  <1>1. rec[o] # None /\ o \notin journaled /\ undone[o] = {}
    BY <1>0 DEF RecordInv, UndoInv, Acting, RollbackPhases
  <1>2. rec' = [rec EXCEPT ![o].out[Entry(o)] = outcome]
    BY DEF Finish
  <1>3. /\ rec' \in [Ops -> Records \cup {None}]
        /\ \A q \in Ops \ {o} : rec'[q] = rec[q]
        /\ rec'[o] # None /\ rec'[o].pre = rec[o].pre
        /\ rec'[o].out[Entry(o)] = outcome
        /\ \A f \in Files \ {Entry(o)} : rec'[o].out[f] = rec[o].out[f]
    BY <1>1, <1>2, OutcomeRecorded
  <1>4. /\ ph' \in [Ops -> Phases] /\ ph'[o] \in {"check", "unlock"}
        /\ \A q \in Ops \ {o} : ph'[q] = ph[q]
    BY DEF Finish, Go, TypeOK, Phases, ApplyPhases
  <1>5. /\ at' \in [Ops -> Nat]
        /\ \A q \in Ops : at'[q] \in DOMAIN Targets[q]
        /\ \A q \in Ops \ {o} : at'[q] = at[q]
    <2>1. CASE at[o] = Len(Targets[o])
      BY <2>1 DEF Finish, TypeOK
    <2>2. CASE at[o] # Len(Targets[o])
      <3>1. at' = [at EXCEPT ![o] = at[o] + 1]
        BY <2>2 DEF Finish
      <3>2. at[o] + 1 \in 1 .. Len(Targets[o])
        BY <2>2, EntryFacts
      <3>3. DOMAIN Targets[o] = 1 .. Len(Targets[o])
        BY EntryFacts
      <3> QED
        BY <3>1, <3>2, <3>3 DEF TypeOK
    <2> QED
      BY <2>1, <2>2
  <1>6. RecordInv(o)'
    <2>1. /\ ph'[o] \notin {"new", "done"} => rec'[o] # None
          /\ o \in journaled' => rec'[o] # None /\ ph'[o] \in {"done"} \cup RollbackPhases
          /\ ph'[o] \in RollbackPhases => o \in journaled'
      BY <1>1, <1>3, <1>4 DEF RollbackPhases
    <2>2. ASSUME NEW f \in Files
          PROVE  /\ Installed(o, f)' => rec'[o].pre[f] = None
                 /\ Replaced(o, f)' => rec'[o].pre[f] # None /\ backup'[o][f] = rec'[o].pre[f]
      <3>1. CASE f = Entry(o)
        BY <1>3, <3>1 DEF Installed, Replaced
      <3>2. CASE f # Entry(o)
        BY <1>0, <1>1, <1>3, <3>2 DEF Installed, Replaced, RecordInv, BackupsStay
      <3> QED
        BY <3>1, <3>2
    <2> QED
      BY <2>1, <2>2 DEF RecordInv
  <1>7. EntryInv(o)'
    BY <1>4 DEF EntryInv, Acting
  <1>8. UndoInv(o)'
    BY <1>1, <1>4 DEF UndoInv
  <1>9. ASSUME NEW f \in Files, Marked(o, f)'
        PROVE  \/ Marked(o, f)
               \/ f = Entry(o) /\ outcome \in {"InstalledNew", "ReplacedExisting"}
    BY <1>1, <1>3, <1>9 DEF Marked, Installed, Replaced
  <1> QED
    BY <1>3, <1>4, <1>5, <1>6, <1>7, <1>8, <1>9 DEF Facts

\* A step that ends an entry and leaves the destination alone.
LEMMA FinishStep ==
  ASSUME SharedInv, NEW o \in Ops, NEW outcome \in Outcomes,
         ph[o] \in {"check"} \cup Acting, Finish(o, outcome),
         dirs' \in {dirs, dirs \cup {Dir[Entry(o)]}},
         backup' \in {backup, [backup EXCEPT ![o][Entry(o)] = dest[Entry(o)]]},
         backup' # backup => o \notin backupDir /\ o \in backupDir',
         backupDir' \in {backupDir, backupDir \cup {o}},
         UNCHANGED <<dest, lock, journaled, marker, undone, history>>,
         outcome \in {"InstalledNew", "ReplacedExisting"} => ph[o] = "verify",
         outcome = "InstalledNew" => rec[o].pre[Entry(o)] = None,
         outcome = "ReplacedExisting" => rec[o].pre[Entry(o)] # None
  PROVE  SharedInv'
  <1> USE DEF SharedInv
  <1>0. RecordInv(o) /\ EntryInv(o) /\ UndoInv(o) /\ lock = o /\ Entry(o) \in Files
    BY EntryFacts DEF Facts, LockInv, Held, Acting
  <1>1. /\ backup' \in [Ops -> [Files -> Contents \cup {None}]]
        /\ \A q \in Ops \ {o} : backup'[q] = backup[q]
        /\ \A f \in Files \ {Entry(o)} : backup'[o][f] = backup[o][f]
    <2>1. CASE backup' = backup
      BY <2>1 DEF TypeOK
    <2>2. CASE backup' = [backup EXCEPT ![o][Entry(o)] = dest[Entry(o)]]
      BY <2>2, BackupWritten
    <2> QED
      BY <2>1, <2>2
  <1>2. BackupsStay
    BY <1>0, <1>1 DEF BackupsStay, RecordInv
  <1>3. o \notin backupDir' => \A f \in Files : backup'[o][f] = None
    BY <1>0 DEF RecordInv
  <1>4. outcome = "ReplacedExisting" => backup'[o][Entry(o)] = rec[o].pre[Entry(o)]
    <2> SUFFICES ASSUME outcome = "ReplacedExisting"
                 PROVE  backup'[o][Entry(o)] = rec[o].pre[Entry(o)]
      OBVIOUS
    <2>1. rec[o] # None
      BY <1>0 DEF RecordInv
    <2>2. backup[o][Entry(o)] = rec[o].pre[Entry(o)] /\ rec[o].pre[Entry(o)] # None
      BY <1>0 DEF EntryInv
    <2> QED
      BY <1>0, <1>2, <2>2 DEF BackupsStay
  <1>5. /\ Facts(o)'
        /\ ph'[o] \in {"check", "unlock"}
        /\ ph' \in [Ops -> Phases] /\ at' \in [Ops -> Nat]
        /\ \A q \in Ops : at'[q] \in DOMAIN Targets[q]
        /\ rec' \in [Ops -> Records \cup {None}]
        /\ \A q \in Ops \ {o} : ph'[q] = ph[q] /\ at'[q] = at[q] /\ rec'[q] = rec[q]
        /\ \A f \in Files : Marked(o, f)' =>
              \/ Marked(o, f)
              \/ f = Entry(o) /\ outcome \in {"InstalledNew", "ReplacedExisting"}
    BY <1>2, <1>3, <1>4, FinishFacts
  <1>6. OnlyOf(o)
    BY <1>0, <1>1, <1>5 DEF OnlyOf, history, Held
  <1>7. TypeOK'
    <2>1. dirs' \in SUBSET Dirs /\ dirs \subseteq dirs'
      BY <1>0, SharedAssumption DEF TypeOK
    <2> QED
      BY <1>1, <1>5, <2>1 DEF TypeOK, history
  <1>8. SavedInv' /\ UserContentKept'
    BY <1>2, <1>5, <1>6, KeepsUserContent DEF history
  <1>9. WriterInv'
    BY DEF WriterInv, history
  <1> QED
    BY <1>5, <1>6, <1>7, <1>8, <1>9, Assemble

\* A step that moves an operation to another phase and leaves the files alone.
LEMMA PhaseStep ==
  ASSUME SharedInv, NEW o \in Ops, NEW p \in Phases, Go(o, p),
         UNCHANGED <<dest, dirs, at, rec, managed, undone, history>>,
         lock' \in Ops \cup {None}, lock' = lock \/ lock \in {o, None},
         p \in Held => lock' = o,
         p \in {"verify", "restore"} => ph[o] \in {"verify", "restore"},
         Facts(o)'
  PROVE  SharedInv'
  <1> USE DEF SharedInv
  <1>1. ph' \in [Ops -> Phases] /\ ph'[o] = p /\ \A q \in Ops \ {o} : ph'[q] = ph[q]
    BY DEF Go, TypeOK
  <1>2. OnlyOf(o)
    BY <1>1 DEF OnlyOf, managed, history
  <1>3. TypeOK'
    BY <1>1 DEF TypeOK, managed, history
  <1>4. SavedInv' /\ UserContentKept'
    <2>1. \A f \in Files : Marked(o, f)' => Marked(o, f)
      BY DEF Marked, Installed, Replaced
    <2>2. BackupsStay
      BY DEF BackupsStay, managed
    <2> QED
      BY <1>1, <1>2, <2>1, <2>2, KeepsUserContent DEF history
  <1>5. WriterInv'
    BY DEF WriterInv, history
  <1> QED
    BY <1>2, <1>3, <1>4, <1>5, Assemble

\* A call that returns, or dies, keeps its record if it is in the journal.
LEMMA ReturnStep ==
  ASSUME SharedInv, NEW o \in Ops, Return(o),
         UNCHANGED <<dest, dirs, backup, backupDir, history>>,
         lock' = lock \/ ReleaseLock(o),
         rec' \in {rec, [rec EXCEPT ![o] = None]},
         journaled' \in {journaled, journaled \cup {o}},
         marker' \in SUBSET Ops,
         o \in journaled' => rec'[o] # None
  PROVE  SharedInv'
  <1> USE DEF SharedInv
  <1>1. /\ ph' \in [Ops -> Phases] /\ ph'[o] = "done"
        /\ at' \in [Ops -> Nat] /\ undone' \in [Ops -> SUBSET Files] /\ undone'[o] = {}
        /\ \A q \in Ops : at'[q] \in DOMAIN Targets[q]
        /\ \A q \in Ops \ {o} : ph'[q] = ph[q] /\ at'[q] = at[q] /\ undone'[q] = undone[q]
    <2>1. 1 \in DOMAIN Targets[o]
      BY EntryFacts
    <2> QED
      BY <2>1 DEF Return, TypeOK, Phases
  <1>2. /\ rec' \in [Ops -> Records \cup {None}]
        /\ rec'[o] \in {rec[o], None}
        /\ \A q \in Ops \ {o} : rec'[q] = rec[q]
    BY DEF TypeOK
  <1>3. lock' \in Ops \cup {None} /\ (lock' = lock \/ lock = o)
    BY DEF ReleaseLock, TypeOK
  <1>4. OnlyOf(o)
    BY <1>1, <1>2, <1>3 DEF OnlyOf, history, Held
  <1>5. TypeOK'
    BY <1>1, <1>2, <1>3 DEF TypeOK, history
  <1>6. Facts(o)'
    <2>1. RecordInv(o)'
      <3>1. RecordInv(o)
        BY DEF Facts
      <3> QED
        BY <1>1, <1>2, <3>1 DEF RecordInv, RollbackPhases, Installed, Replaced
    <2>2. EntryInv(o)' /\ UndoInv(o)'
      BY <1>1 DEF EntryInv, UndoInv, Acting
    <2> QED
      BY <2>1, <2>2 DEF Facts
  <1>7. SavedInv' /\ UserContentKept'
    <2>1. \A f \in Files : Marked(o, f)' => Marked(o, f)
      BY <1>2 DEF Marked, Installed, Replaced
    <2>2. BackupsStay
      BY DEF BackupsStay
    <2> QED
      BY <1>1, <1>4, <2>1, <2>2, KeepsUserContent DEF history
  <1>8. WriterInv'
    BY DEF WriterInv, history
  <1> QED
    BY <1>4, <1>5, <1>6, <1>7, <1>8, Assemble

LEMMA PreparesKeep ==
  ASSUME SharedInv, NEW o \in Ops
  PROVE  /\ ConfirmApply(o) => SharedInv'
         /\ ApplyLockTimeout(o) => SharedInv'
         /\ ConfirmRollback(o) => SharedInv'
         /\ RollbackLockTimeout(o) => SharedInv'
  <1> USE DEF SharedInv
  <1>0. RecordInv(o) /\ EntryInv(o) /\ UndoInv(o)
    BY DEF Facts
  <1>1. ASSUME ConfirmApply(o) PROVE SharedInv'
    <2>1. Go(o, "lock") /\ ph[o] = "review"
          /\ UNCHANGED <<dest, dirs, lock, at, rec, managed, undone, history>>
      BY <1>1 DEF ConfirmApply
    <2>2. ph'[o] = "lock"
      BY <2>1 DEF Go, TypeOK
    <2>3. Facts(o)'
      BY <1>0, <2>1, <2>2 DEF Facts, RecordInv, EntryInv, UndoInv, Acting, RollbackPhases,
         Installed, Replaced, Changed, managed
    <2> QED
      BY <2>1, <2>3, PhaseStep DEF TypeOK, Phases, ApplyPhases, Held
  <1>2. ASSUME ConfirmRollback(o) PROVE SharedInv'
    <2>1. Go(o, "rbLock") /\ ph[o] = "done" /\ o \in journaled
          /\ UNCHANGED <<dest, dirs, lock, at, rec, managed, undone, history>>
      BY <1>2 DEF ConfirmRollback, RollbackAvailable
    <2>2. ph'[o] = "rbLock"
      BY <2>1 DEF Go, TypeOK
    <2>3. Facts(o)'
      BY <1>0, <2>1, <2>2 DEF Facts, RecordInv, EntryInv, UndoInv, Acting, RollbackPhases,
         Installed, Replaced, Changed, managed
    <2> QED
      BY <2>1, <2>3, PhaseStep DEF TypeOK, Phases, RollbackPhases, Held
  <1>3. ASSUME ApplyLockTimeout(o) PROVE SharedInv'
    <2>1. o \notin journaled
      BY <1>0, <1>3 DEF ApplyLockTimeout, RecordInv, RollbackPhases
    <2> QED
      BY <1>3, <2>1, ReturnStep DEF ApplyLockTimeout, managed, TypeOK
  <1>4. ASSUME RollbackLockTimeout(o) PROVE SharedInv'
    <2>1. rec[o] # None
      BY <1>0, <1>4 DEF RollbackLockTimeout, RecordInv
    <2> QED
      BY <1>4, <2>1, ReturnStep DEF RollbackLockTimeout, managed, TypeOK
  <1> QED
    BY <1>1, <1>2, <1>3, <1>4

LEMMA ReviewKeeps ==
  ASSUME SharedInv, NEW o \in Ops, build_shared_transaction_plan(o)
  PROVE  SharedInv'
  <1> USE DEF SharedInv
  <1> DEFINE r == [pre |-> [f \in Files |-> IF f \in InPlan(o) THEN dest[f] ELSE None],
                   missing |-> Dirs \ dirs,
                   out |-> [f \in Files |-> "Pending"], made |-> {}]
  <1>0. RecordInv(o) /\ EntryInv(o) /\ UndoInv(o) /\ ph[o] = "new"
    BY DEF Facts, build_shared_transaction_plan
  <1>1. r \in Records
    BY DEF Records, Outcomes, TypeOK
  <1>2. r # None
    BY <1>1, RecordAssumption
  <1>3. rec' = [rec EXCEPT ![o] = r]
    BY DEF build_shared_transaction_plan
  <1>4. /\ rec' \in [Ops -> Records \cup {None}] /\ rec'[o] = r
        /\ \A q \in Ops \ {o} : rec'[q] = rec[q]
    BY <1>1, <1>3 DEF TypeOK
  <1>5. /\ ph' \in [Ops -> Phases] /\ ph'[o] = "review"
        /\ \A q \in Ops \ {o} : ph'[q] = ph[q]
    BY DEF build_shared_transaction_plan, Go, TypeOK, Phases
  <1>6. \A f \in Files : ~Installed(o, f)' /\ ~Replaced(o, f)'
    <2>1. \A f \in Files : r.out[f] = "Pending"
      OBVIOUS
    <2> QED
      BY <1>4, <2>1 DEF Installed, Replaced
  <1>7. UNCHANGED <<dest, dirs, lock, at, managed, undone, history>>
    BY DEF build_shared_transaction_plan
  <1>8. OnlyOf(o)
    BY <1>4, <1>5, <1>7 DEF OnlyOf, managed, history, Held
  <1>9. TypeOK'
    BY <1>4, <1>5, <1>7 DEF TypeOK, managed, history
  <1>10. Facts(o)'
    <2>1. RecordInv(o)'
      BY <1>0, <1>2, <1>4, <1>5, <1>6, <1>7 DEF RecordInv, RollbackPhases, managed
    <2>2. EntryInv(o)' /\ UndoInv(o)'
      BY <1>0, <1>5, <1>7 DEF EntryInv, UndoInv, Acting
    <2> QED
      BY <2>1, <2>2 DEF Facts
  <1>11. SavedInv' /\ UserContentKept'
    <2>1. \A f \in Files : ~Marked(o, f)'
      BY <1>6 DEF Marked
    <2>2. BackupsStay
      BY <1>7 DEF BackupsStay, managed
    <2> QED
      BY <1>5, <1>7, <1>8, <2>1, <2>2, KeepsUserContent DEF history
  <1>12. WriterInv'
    BY <1>7 DEF WriterInv, history
  <1> QED
    BY <1>8, <1>9, <1>10, <1>11, <1>12, Assemble

\* Every way an entry ends without another change of the destination.
LEMMA EntryEndsKeep ==
  ASSUME SharedInv, NEW o \in Ops,
         \/ AlreadyInstalled(o) \/ EntryRefused(o) \/ ParentFails(o) \/ BackupFails(o)
         \/ WriteFails(o) \/ Verified(o) \/ ReadBackFails(o) \/ RestoreFails(o)
  PROVE  SharedInv'
  <1> USE DEF SharedInv, Outcomes, Acting, managed
  <1>0. TypeOK /\ EntryInv(o)
    BY DEF Facts
  <1>1. CASE AlreadyInstalled(o)
    BY <1>1, FinishStep DEF AlreadyInstalled
  <1>2. CASE EntryRefused(o)
    BY <1>2, FinishStep DEF EntryRefused
  <1>3. CASE ParentFails(o)
    BY <1>3, FinishStep DEF ParentFails
  <1>4. CASE BackupFails(o)
    <2>1. ph[o] = "backup" /\ Finish(o, "BackupFailed")
          /\ UNCHANGED <<dest, dirs, lock, journaled, marker, undone, history>>
      BY <1>4 DEF BackupFails
    <2>2. CASE UNCHANGED <<backup, backupDir>>
      BY <2>1, <2>2, FinishStep
    <2>3. CASE /\ o \notin backupDir
               /\ backupDir' = backupDir \cup {o}
               /\ backup' \in {backup, [backup EXCEPT ![o][Entry(o)] = dest[Entry(o)]]}
      BY <2>1, <2>3, FinishStep
    <2> QED
      BY <1>4, <2>2, <2>3 DEF BackupFails
  <1>5. CASE WriteFails(o)
    BY <1>5, FinishStep DEF WriteFails
  <1>6. CASE Verified(o)
    <2> DEFINE c == rec[o].pre[Entry(o)]
    <2>1. CASE ProposedAction(o, c) = "Install"
      <3>1. c = None
        BY <1>0, <2>1, ProposedFacts
      <3> QED
        BY <1>6, <2>1, <3>1, FinishStep DEF Verified
    <2>2. CASE ProposedAction(o, c) # "Install"
      <3>1. c # None
        BY <1>0, <2>2, ProposedFacts
      <3> QED
        BY <1>6, <2>2, <3>1, FinishStep DEF Verified
    <2> QED
      BY <2>1, <2>2
  <1>7. CASE ReadBackFails(o)
    BY <1>7, FinishStep DEF ReadBackFails
  <1>8. CASE RestoreFails(o)
    BY <1>8, FinishStep DEF RestoreFails
  <1> QED
    BY <1>1, <1>2, <1>3, <1>4, <1>5, <1>6, <1>7, <1>8

\* The lock is taken; nothing else changes but the place in the plan.
LEMMA AcquireKeeps ==
  ASSUME SharedInv, NEW o \in Ops, NEW p \in {"check", "rbEntry"}, Go(o, p),
         ph[o] \in {"lock", "rbLock"}, p = "rbEntry" => ph[o] = "rbLock",
         p = "check" => ph[o] = "lock",
         lock = None, lock' = o, at' = [at EXCEPT ![o] = 1],
         UNCHANGED <<dest, dirs, rec, managed, undone, user, writer>>,
         stale' \in BOOLEAN, stale => stale',
         p = "rbEntry" /\ ~stale' => \A f \in Changed(o) : dest[f] = New[o]
  PROVE  SharedInv'
  <1> USE DEF SharedInv
  <1>0. RecordInv(o) /\ EntryInv(o) /\ UndoInv(o)
    BY DEF Facts
  <1>1. /\ ph' \in [Ops -> Phases] /\ ph'[o] = p
        /\ \A q \in Ops \ {o} : ph'[q] = ph[q]
    BY DEF Go, TypeOK, Phases, ApplyPhases, RollbackPhases
  <1>2. /\ at' \in [Ops -> Nat] /\ at'[o] = 1
        /\ \A q \in Ops : at'[q] \in DOMAIN Targets[q]
        /\ \A q \in Ops \ {o} : at'[q] = at[q]
    <2>1. 1 \in DOMAIN Targets[o]
      BY EntryFacts
    <2> QED
      BY <2>1 DEF TypeOK
  <1>3. OnlyOf(o)
    BY <1>1, <1>2 DEF OnlyOf, managed
  <1>4. TypeOK'
    BY <1>1, <1>2 DEF TypeOK, managed
  <1>5. Facts(o)'
    <2>1. RecordInv(o)'
      BY <1>0, <1>1 DEF RecordInv, RollbackPhases, Installed, Replaced, managed
    <2>2. EntryInv(o)'
      BY <1>1 DEF EntryInv, Acting
    <2>3. undone'[o] = {}
      BY <1>0 DEF UndoInv
    <2>4. Changed(o)' = Changed(o)
      BY DEF Changed, InPlan
    <2>5. UndoInv(o)'
      BY <1>1, <2>3, <2>4 DEF UndoInv
    <2> QED
      BY <2>1, <2>2, <2>5 DEF Facts
  <1>6. SavedInv' /\ UserContentKept'
    <2>1. \A f \in Files : Marked(o, f)' => Marked(o, f)
      BY DEF Marked, Installed, Replaced
    <2>2. BackupsStay
      BY DEF BackupsStay, managed
    <2> QED
      BY <1>1, <1>3, <2>1, <2>2, KeepsUserContent
  <1>7. WriterInv'
    BY DEF WriterInv
  <1> QED
    BY <1>3, <1>4, <1>5, <1>6, <1>7, Assemble

LEMMA AcquiresKeep ==
  ASSUME SharedInv, NEW o \in Ops, AcquireForApply(o) \/ AcquireForRollback(o)
  PROVE  SharedInv'
  <1>1. CASE AcquireForApply(o)
    BY <1>1, AcquireKeeps DEF AcquireForApply, history, SharedInv, TypeOK
  <1>2. CASE AcquireForRollback(o)
    <2>1. stale' = (stale \/ ~RollbackAvailable(o))
      BY <1>2 DEF AcquireForRollback
    <2>2. stale' \in BOOLEAN /\ (stale => stale') /\ (~stale' => RollbackAvailable(o))
      BY <2>1
    <2>3. ~stale' => \A f \in Changed(o) : dest[f] = New[o]
      BY <2>2 DEF RollbackAvailable, EntryAvailable
    <2> QED
      BY <1>2, <2>2, <2>3, AcquireKeeps DEF AcquireForRollback
  <1> QED
    BY <1>1, <1>2

\* The checked entry is the reviewed one.
LEMMA CheckKeeps ==
  ASSUME SharedInv, NEW o \in Ops, CheckPasses(o)
  PROVE  SharedInv'
  <1> USE DEF SharedInv
  <1> DEFINE c == rec[o].pre[Entry(o)]
             p == IF Dir[Entry(o)] \in dirs THEN AfterParent(o) ELSE "parent"
  <1>0. RecordInv(o) /\ EntryInv(o) /\ UndoInv(o)
    BY DEF Facts
  <1>1. /\ ph[o] = "check" /\ Go(o, p) /\ dest[Entry(o)] = c
        /\ ProposedAction(o, c) # "Skip"
        /\ UNCHANGED <<dest, dirs, lock, at, rec, managed, undone, history>>
    BY DEF CheckPasses, AsReviewed
  <1>2. c # New[o]
    BY <1>1, ProposedFacts
  <1>3. p \in {"parent", "backup", "write"}
        /\ (p = "backup" => c # None) /\ (p = "write" => c = None)
    BY <1>2, ProposedFacts DEF AfterParent
  <1>4. ph'[o] = p
    BY <1>1 DEF Go, TypeOK
  <1>5. Facts(o)'
    <2>1. Entry(o)' = Entry(o) /\ Changed(o)' = Changed(o)
      BY <1>1 DEF Entry, Changed, InPlan
    <2>2. RecordInv(o)'
      BY <1>0, <1>1, <1>3, <1>4 DEF RecordInv, RollbackPhases, Installed, Replaced, managed
    <2>3. EntryInv(o)'
      BY <1>1, <1>2, <1>3, <1>4, <2>1 DEF EntryInv
    <2>4. UndoInv(o)'
      BY <1>0, <1>1, <1>3, <1>4, <2>1 DEF UndoInv
    <2> QED
      BY <2>2, <2>3, <2>4 DEF Facts
  <1>6. lock = o
    BY <1>1 DEF LockInv, Held
  <1>7. p \in Phases
    BY <1>3 DEF Phases, ApplyPhases
  <1> QED
    BY <1>1, <1>3, <1>5, <1>6, <1>7, PhaseStep DEF TypeOK

LEMMA RejectKeeps ==
  ASSUME SharedInv, NEW o \in Ops, ContentRejected(o)
  PROVE  SharedInv'
  <1> USE DEF SharedInv
  <1>0. RecordInv(o) /\ EntryInv(o) /\ UndoInv(o)
    BY DEF Facts
  <1>1. /\ ph[o] = "verify" /\ Go(o, "restore") /\ ph'[o] = "restore"
        /\ UNCHANGED <<dest, dirs, lock, at, rec, managed, undone, history>>
    BY DEF ContentRejected, Go, TypeOK
  <1>2. Facts(o)'
    <2>1. Entry(o)' = Entry(o) /\ Changed(o)' = Changed(o)
      BY <1>1 DEF Entry, Changed, InPlan
    <2>2. RecordInv(o)'
      BY <1>0, <1>1 DEF RecordInv, RollbackPhases, Installed, Replaced, managed
    <2>3. EntryInv(o)'
      BY <1>0, <1>1, <2>1 DEF EntryInv, Acting, managed
    <2>4. UndoInv(o)'
      BY <1>0, <1>1, <2>1 DEF UndoInv
    <2> QED
      BY <2>2, <2>3, <2>4 DEF Facts
  <1>3. lock = o
    BY <1>1 DEF LockInv, Held
  <1> QED
    BY <1>1, <1>2, <1>3, PhaseStep DEF TypeOK, Phases, ApplyPhases

LEMMA DropLockKeeps ==
  ASSUME SharedInv, NEW o \in Ops, DropLock(o)
  PROVE  SharedInv'
  <1> USE DEF SharedInv
  <1>0. RecordInv(o) /\ EntryInv(o) /\ UndoInv(o)
    BY DEF Facts
  <1>1. /\ ph[o] = "unlock" /\ Go(o, "journal") /\ ph'[o] = "journal" /\ ReleaseLock(o)
        /\ UNCHANGED <<dest, dirs, at, rec, managed, undone, history>>
    BY DEF DropLock, Go, TypeOK
  <1>2. lock = o /\ lock' = None
    BY <1>1 DEF LockInv, Held, ReleaseLock
  <1>3. Facts(o)'
    <2>1. RecordInv(o)'
      BY <1>0, <1>1 DEF RecordInv, RollbackPhases, Installed, Replaced, managed
    <2>2. EntryInv(o)' /\ UndoInv(o)'
      BY <1>0, <1>1 DEF EntryInv, UndoInv, Acting
    <2> QED
      BY <2>1, <2>2 DEF Facts
  <1> QED
    BY <1>1, <1>2, <1>3, PhaseStep DEF Phases, ApplyPhases, Held

LEMMA JournalKeeps ==
  ASSUME SharedInv, NEW o \in Ops, write_journal_once(o) \/ JournalFails(o)
  PROVE  SharedInv'
  <1> USE DEF SharedInv
  <1>0. RecordInv(o)
    BY DEF Facts
  <1>1. CASE write_journal_once(o)
    <2>1. rec[o] # None
      BY <1>0, <1>1 DEF RecordInv, write_journal_once
    <2> QED
      BY <1>1, <2>1, ReturnStep DEF write_journal_once, TypeOK
  <1>2. CASE JournalFails(o)
    <2>1. o \notin journaled
      BY <1>0, <1>2 DEF RecordInv, RollbackPhases, JournalFails
    <2> QED
      BY <1>2, <2>1, ReturnStep DEF JournalFails, managed, TypeOK
  <1> QED
    BY <1>1, <1>2

LEMMA CreateParentKeeps ==
  ASSUME SharedInv, NEW o \in Ops, CreateParent(o)
  PROVE  SharedInv'
  <1> USE DEF SharedInv
  <1> DEFINE c == rec[o].pre[Entry(o)]
             r == [rec[o] EXCEPT !.made = @ \cup {Entry(o)}]
  <1>0. RecordInv(o) /\ EntryInv(o) /\ UndoInv(o) /\ Entry(o) \in Files
    BY EntryFacts DEF Facts
  <1>1. /\ ph[o] = "parent" /\ Go(o, AfterParent(o)) /\ rec' = [rec EXCEPT ![o] = r]
        /\ dirs' = dirs \cup {Dir[Entry(o)]}
        /\ UNCHANGED <<dest, lock, at, managed, undone, history>>
    BY DEF CreateParent
  <1>2. rec[o] # None /\ c # New[o] /\ dest[Entry(o)] = c /\ lock = o
    BY <1>0, <1>1 DEF RecordInv, EntryInv, Acting, LockInv, Held
  <1>3. r \in Records /\ r.pre = rec[o].pre /\ r.out = rec[o].out
    BY <1>0, <1>2, RecordFacts DEF Records
  <1>4. r # None
    BY <1>3, RecordAssumption
  <1>5. /\ rec' \in [Ops -> Records \cup {None}] /\ rec'[o] = r
        /\ \A q \in Ops \ {o} : rec'[q] = rec[q]
    BY <1>1, <1>3 DEF TypeOK
  <1>6. /\ ph' \in [Ops -> Phases] /\ ph'[o] \in {"backup", "write"}
        /\ ph'[o] = "backup" => c # None
        /\ ph'[o] = "write" => c = None
        /\ \A q \in Ops \ {o} : ph'[q] = ph[q]
    BY <1>1, <1>2, ProposedFacts DEF Go, AfterParent, TypeOK, Phases, ApplyPhases
  <1>7. OnlyOf(o)
    BY <1>1, <1>2, <1>5, <1>6 DEF OnlyOf, managed, history
  <1>8. TypeOK'
    BY <1>0, <1>1, <1>5, <1>6, SharedAssumption DEF TypeOK, managed, history
  <1>9. Facts(o)'
    <2>1. Entry(o)' = Entry(o)
      BY <1>1 DEF Entry
    <2>2. RecordInv(o)'
      BY <1>0, <1>1, <1>2, <1>3, <1>4, <1>5, <1>6 DEF RecordInv, RollbackPhases,
         Installed, Replaced, managed
    <2>3. EntryInv(o)'
      BY <1>1, <1>2, <1>3, <1>5, <1>6, <2>1 DEF EntryInv
    <2>4. UndoInv(o)'
      BY <1>0, <1>1, <1>6 DEF UndoInv
    <2> QED
      BY <2>2, <2>3, <2>4 DEF Facts
  <1>10. SavedInv' /\ UserContentKept'
    <2>1. \A f \in Files : Marked(o, f)' => Marked(o, f)
      BY <1>2, <1>3, <1>5 DEF Marked, Installed, Replaced
    <2>2. BackupsStay
      BY <1>1 DEF BackupsStay, managed
    <2> QED
      BY <1>1, <1>6, <1>7, <2>1, <2>2, KeepsUserContent DEF history
  <1>11. WriterInv'
    BY <1>1 DEF WriterInv, history
  <1> QED
    BY <1>7, <1>8, <1>9, <1>10, <1>11, Assemble

LEMMA CreateBackupKeeps ==
  ASSUME SharedInv, NEW o \in Ops, create_backup(o)
  PROVE  SharedInv'
  <1> USE DEF SharedInv
  <1> DEFINE c == rec[o].pre[Entry(o)]
  <1>0. RecordInv(o) /\ EntryInv(o) /\ UndoInv(o) /\ Entry(o) \in Files
    BY EntryFacts DEF Facts
  <1>1. /\ ph[o] = "backup" /\ o \notin backupDir /\ Go(o, "write")
        /\ backup' = [backup EXCEPT ![o][Entry(o)] = dest[Entry(o)]]
        /\ backupDir' = backupDir \cup {o}
        /\ UNCHANGED <<dest, dirs, lock, at, rec, journaled, marker, undone, history>>
    BY DEF create_backup
  <1>2. rec[o] # None /\ c # New[o] /\ dest[Entry(o)] = c /\ lock = o
    BY <1>0, <1>1 DEF RecordInv, EntryInv, Acting, LockInv, Held
  <1>3. /\ backup' \in [Ops -> [Files -> Contents \cup {None}]]
        /\ \A q \in Ops \ {o} : backup'[q] = backup[q]
        /\ backup'[o][Entry(o)] = c
        /\ \A f \in Files \ {Entry(o)} : backup'[o][f] = backup[o][f]
    BY <1>1, <1>2, BackupWritten
  <1>4. BackupsStay
    BY <1>0, <1>1, <1>3 DEF BackupsStay, RecordInv
  <1>5. /\ ph' \in [Ops -> Phases] /\ ph'[o] = "write"
        /\ \A q \in Ops \ {o} : ph'[q] = ph[q]
    BY <1>1 DEF Go, TypeOK, Phases, ApplyPhases
  <1>6. OnlyOf(o)
    BY <1>1, <1>2, <1>3, <1>5 DEF OnlyOf, history
  <1>7. TypeOK'
    BY <1>1, <1>3, <1>5 DEF TypeOK, history
  <1>8. Facts(o)'
    <2>1. Entry(o)' = Entry(o)
      BY <1>1 DEF Entry
    <2>2. RecordInv(o)'
      <3>1. ASSUME NEW f \in Files, Replaced(o, f)'
            PROVE  rec'[o].pre[f] # None /\ backup'[o][f] = rec'[o].pre[f]
        BY <1>0, <1>1, <1>2, <1>4, <3>1 DEF RecordInv, Replaced, BackupsStay
      <3>2. \A f \in Files : Installed(o, f)' => rec'[o].pre[f] = None
        BY <1>0, <1>1, <1>2 DEF RecordInv, Installed
      <3> QED
        BY <1>0, <1>1, <1>2, <1>5, <3>1, <3>2 DEF RecordInv, RollbackPhases
    <2>3. EntryInv(o)'
      BY <1>1, <1>2, <1>3, <1>5, <2>1 DEF EntryInv
    <2>4. UndoInv(o)'
      BY <1>0, <1>1, <1>5 DEF UndoInv
    <2> QED
      BY <2>2, <2>3, <2>4 DEF Facts
  <1>9. SavedInv' /\ UserContentKept'
    <2>1. \A f \in Files : Marked(o, f)' => Marked(o, f)
      BY <1>1 DEF Marked, Installed, Replaced
    <2> QED
      BY <1>1, <1>4, <1>5, <1>6, <2>1, KeepsUserContent DEF history
  <1>10. WriterInv'
    BY <1>1 DEF WriterInv, history
  <1> QED
    BY <1>6, <1>7, <1>8, <1>9, <1>10, Assemble

\* The write: what it replaces is in the backup, or there was nothing.
LEMMA WriteKeeps ==
  ASSUME SharedInv, NEW o \in Ops, WriteDestination(o)
  PROVE  SharedInv'
  <1> USE DEF SharedInv
  <1> DEFINE c == rec[o].pre[Entry(o)]
  <1>0. RecordInv(o) /\ EntryInv(o) /\ UndoInv(o) /\ Entry(o) \in Files
    BY EntryFacts DEF Facts
  <1>1. /\ ph[o] = "write" /\ Go(o, "verify") /\ Dir[Entry(o)] \in dirs
        /\ dest' = [dest EXCEPT ![Entry(o)] = New[o]]
        /\ writer' = [writer EXCEPT ![Entry(o)] = o]
        /\ UNCHANGED <<dirs, lock, at, rec, managed, undone, user, stale>>
    BY DEF WriteDestination
  <1>2. /\ rec[o] # None /\ c # New[o] /\ dest[Entry(o)] = c /\ lock = o
        /\ c # None => backup[o][Entry(o)] = c
    BY <1>0, <1>1 DEF RecordInv, EntryInv, Acting, LockInv, Held
  <1>3. /\ ph' \in [Ops -> Phases] /\ ph'[o] = "verify"
        /\ \A q \in Ops \ {o} : ph'[q] = ph[q]
    BY <1>1 DEF Go, TypeOK, Phases, ApplyPhases
  <1>4. /\ dest' \in [Files -> Contents \cup {None}] /\ dest'[Entry(o)] = New[o]
        /\ \A f \in Files \ {Entry(o)} : dest'[f] = dest[f]
    BY <1>0, <1>1, EntryFacts DEF TypeOK
  <1>5. Safe(Entry(o))
    BY <1>0, <1>2 DEF Safe, Saved, UserContentKept
  <1>6. OnlyOf(o)
    BY <1>1, <1>2, <1>3 DEF OnlyOf, managed, Held
  <1>7. TypeOK'
    BY <1>0, <1>1, <1>3, <1>4 DEF TypeOK, managed
  <1>8. Facts(o)'
    <2>1. Entry(o)' = Entry(o)
      BY <1>1 DEF Entry
    <2>2. RecordInv(o)'
      BY <1>0, <1>1, <1>3 DEF RecordInv, RollbackPhases, Installed, Replaced, managed
    <2>3. EntryInv(o)'
      BY <1>1, <1>2, <1>3, <1>4, <2>1 DEF EntryInv, managed
    <2>4. UndoInv(o)'
      BY <1>0, <1>1, <1>3 DEF UndoInv
    <2> QED
      BY <2>2, <2>3, <2>4 DEF Facts
  <1>9. SavedInv' /\ UserContentKept'
    <2>1. \A f \in Files : Marked(o, f)' => Marked(o, f)
      BY <1>1 DEF Marked, Installed, Replaced
    <2>2. BackupsStay
      BY <1>1 DEF BackupsStay, managed
    <2> QED
      BY <1>1, <1>3, <1>4, <1>5, <1>6, <2>1, <2>2, KeepsUserContent
  <1>10. WriterInv'
    BY <1>0, <1>1, <1>4 DEF WriterInv, TypeOK
  <1> QED
    BY <1>6, <1>7, <1>8, <1>9, <1>10, Assemble

\* An entry that the operation wrote, and still shows its content, is safe.
LEMMA OwnWriteIsSafe ==
  ASSUME SharedInv, NEW o \in Ops, NEW f \in Files,
         ~stale => dest[f] = New[o],
         \/ Marked(o, f)
         \/ ph[o] \in {"verify", "restore"} /\ f = Entry(o)
  PROVE  Safe(f)
  <1> SUFFICES ASSUME ~stale PROVE Saved(f)
    BY DEF Safe
  <1>1. Saved(f) \/ user[f] \in UserContents
    BY DEF SharedInv, SavedInv, Marked
  <1>2. New[o] \notin UserContents
    BY EntryFacts DEF SharedInv
  <1> QED
    BY <1>1, <1>2 DEF Saved, SharedInv, UserContentKept

LEMMA RestoreKeeps ==
  ASSUME SharedInv, NEW o \in Ops, restore_after_failed_verification(o)
  PROVE  SharedInv'
  <1> USE DEF SharedInv
  <1> DEFINE c == rec[o].pre[Entry(o)]
             v == IF ProposedAction(o, c) = "Install" THEN None ELSE backup[o][Entry(o)]
  <1>0. RecordInv(o) /\ EntryInv(o) /\ UndoInv(o) /\ Entry(o) \in Files
    BY EntryFacts DEF Facts
  <1>1. /\ ph[o] = "restore" /\ Finish(o, "Failed")
        /\ dest' = [dest EXCEPT ![Entry(o)] = v]
        /\ writer' = [writer EXCEPT ![Entry(o)] = None]
        /\ UNCHANGED <<dirs, lock, managed, undone, user, stale>>
    BY DEF restore_after_failed_verification
  <1>2. /\ rec[o] # None /\ dest[Entry(o)] = New[o] /\ lock = o
        /\ Dir[Entry(o)] \in dirs
    BY <1>0, <1>1, EntryFacts DEF RecordInv, EntryInv, Acting, LockInv, Held, TypeOK
  <1>3. v \in Contents \cup {None}
    BY <1>0 DEF TypeOK
  <1>4. /\ dest' \in [Files -> Contents \cup {None}]
        /\ \A f \in Files \ {Entry(o)} : dest'[f] = dest[f]
    BY <1>0, <1>1, <1>3 DEF TypeOK
  <1>5. BackupsStay /\ (o \notin backupDir' => \A f \in Files : backup'[o][f] = None)
    BY <1>0, <1>1 DEF BackupsStay, managed, RecordInv
  <1>6. /\ Facts(o)'
        /\ ph'[o] \in {"check", "unlock"}
        /\ ph' \in [Ops -> Phases] /\ at' \in [Ops -> Nat]
        /\ \A q \in Ops : at'[q] \in DOMAIN Targets[q]
        /\ rec' \in [Ops -> Records \cup {None}]
        /\ \A q \in Ops \ {o} : ph'[q] = ph[q] /\ at'[q] = at[q] /\ rec'[q] = rec[q]
        /\ \A f \in Files : Marked(o, f)' => Marked(o, f)
    BY <1>1, <1>5, FinishFacts DEF managed, Outcomes, Acting
  <1>7. Safe(Entry(o))
    BY <1>0, <1>1, <1>2, OwnWriteIsSafe
  <1>8. OnlyOf(o)
    BY <1>1, <1>2, <1>6 DEF OnlyOf, managed, Held
  <1>9. TypeOK'
    BY <1>0, <1>1, <1>2, <1>4, <1>6 DEF TypeOK, managed
  <1>10. SavedInv' /\ UserContentKept'
    BY <1>1, <1>4, <1>5, <1>6, <1>7, <1>8, KeepsUserContent
  <1>11. WriterInv'
    BY <1>0, <1>1, <1>4 DEF WriterInv, TypeOK
  <1> QED
    BY <1>6, <1>8, <1>9, <1>10, <1>11, Assemble

-----------------------------------------------------------------------------
(* The steps of a rollback *)

\* An entry of the rollback: the destination changes only at an entry the operation
\* changed, and an entry that counts as undone is back as it was reviewed.
LEMMA RollbackEntryStep ==
  ASSUME SharedInv, NEW o \in Ops, ph[o] = "rbEntry", NextRollbackEntry(o),
         dest' \in [Files -> Contents \cup {None}],
         \A f \in Files \ {Entry(o)} : dest'[f] = dest[f],
         dest'[Entry(o)] # dest[Entry(o)] => Entry(o) \in Changed(o),
         dirs' \in SUBSET Dirs, \A f \in Files : dest'[f] # None => Dir[f] \in dirs',
         \/ writer' = [writer EXCEPT ![Entry(o)] = None]
         \/ writer' = writer /\ dest' = dest,
         \/ undone' = undone
         \/ /\ undone' = [undone EXCEPT ![o] = @ \cup {Entry(o)}]
            /\ Entry(o) \in Changed(o) => dest'[Entry(o)] = rec[o].pre[Entry(o)],
         UNCHANGED <<lock, rec, managed, user, stale>>
  PROVE  SharedInv'
  <1> USE DEF SharedInv
  <1>0. RecordInv(o) /\ EntryInv(o) /\ UndoInv(o) /\ Entry(o) \in Files /\ lock = o
    BY EntryFacts DEF Facts, LockInv, Held
  <1>1. rec[o] # None /\ o \in journaled
    BY <1>0 DEF RecordInv, RollbackPhases
  <1>2. at[o] \in 1 .. Len(Targets[o]) /\ Len(Targets[o]) \in Nat
        /\ DOMAIN Targets[o] = 1 .. Len(Targets[o])
    BY EntryFacts
  <1>3. /\ ph' \in [Ops -> Phases] /\ ph'[o] \in {"rbEntry", "rbMarker"}
        /\ \A q \in Ops \ {o} : ph'[q] = ph[q]
    BY DEF NextRollbackEntry, Go, TypeOK, Phases, RollbackPhases
  <1>4. /\ at' \in [Ops -> Nat]
        /\ \A q \in Ops : at'[q] \in DOMAIN Targets[q]
        /\ \A q \in Ops \ {o} : at'[q] = at[q]
        /\ ph'[o] = "rbEntry" => at'[o] = at[o] + 1
    <2>1. CASE at[o] = Len(Targets[o])
      BY <2>1 DEF NextRollbackEntry, Go, TypeOK
    <2>2. CASE at[o] # Len(Targets[o])
      <3>1. at' = [at EXCEPT ![o] = at[o] + 1]
        BY <2>2 DEF NextRollbackEntry
      <3>2. at[o] + 1 \in 1 .. Len(Targets[o])
        BY <1>2, <2>2
      <3> QED
        BY <1>2, <3>1, <3>2 DEF TypeOK
    <2> QED
      BY <2>1, <2>2
  <1>5. /\ undone' \in [Ops -> SUBSET Files]
        /\ \A q \in Ops \ {o} : undone'[q] = undone[q]
        /\ undone'[o] \subseteq undone[o] \cup {Entry(o)}
        /\ Entry(o) \in undone'[o] \ undone[o] /\ Entry(o) \in Changed(o)
             => dest'[Entry(o)] = rec[o].pre[Entry(o)]
    BY <1>0 DEF TypeOK
  <1>6. Changed(o) = Changed(o)' /\ Changed(o) \subseteq Files
    BY EntryFacts DEF Changed, InPlan
  <1>7. Entry(o) \in Changed(o) => Safe(Entry(o))
    <2> SUFFICES ASSUME Entry(o) \in Changed(o) PROVE Safe(Entry(o))
      OBVIOUS
    <2>1. Marked(o, Entry(o))
      BY <1>1 DEF Marked, Changed, Installed, Replaced
    <2>2. ~stale => dest[Entry(o)] = New[o]
      BY <1>0, <1>2 DEF UndoInv, Entry
    <2> QED
      BY <1>0, <2>1, <2>2, OwnWriteIsSafe
  <1>8. OnlyOf(o)
    BY <1>0, <1>3, <1>4, <1>5 DEF OnlyOf, managed, Held
  <1>9. TypeOK'
    <2>1. writer' \in [Files -> Ops \cup {None}]
      BY <1>0 DEF TypeOK
    <2> QED
      BY <1>3, <1>4, <1>5, <2>1 DEF TypeOK, managed
  <1>10. Facts(o)'
    <2>1. RecordInv(o)'
      BY <1>0, <1>1, <1>3 DEF RecordInv, RollbackPhases, Installed, Replaced, managed
    <2>2. EntryInv(o)'
      BY <1>3 DEF EntryInv, Acting
    <2>3. Entry(o) \notin undone[o]
      BY <1>0, <1>2 DEF UndoInv, Entry
    <2>4. ASSUME ph'[o] = "rbEntry", NEW i \in at'[o] .. Len(Targets[o])
          PROVE  /\ Targets[o][i] \notin undone'[o]
                 /\ ~stale' /\ Targets[o][i] \in Changed(o)' => dest'[Targets[o][i]] = New[o]
      <3>1. i \in at[o] .. Len(Targets[o]) /\ i # at[o] /\ i \in DOMAIN Targets[o]
        BY <1>2, <1>4, <2>4
      <3>2. Targets[o][i] # Entry(o) /\ Targets[o][i] \in Files
        BY <1>2, <3>1, SharedAssumption, EntryFacts DEF Entry
      <3>3. Targets[o][i] \notin undone[o]
            /\ (~stale /\ Targets[o][i] \in Changed(o) => dest[Targets[o][i]] = New[o])
        BY <1>0, <3>1 DEF UndoInv
      <3> QED
        BY <1>5, <1>6, <3>2, <3>3
    <2>5. ASSUME NEW f \in undone'[o], f \in Changed(o)'
          PROVE  dest'[f] = rec'[o].pre[f]
      <3>1. CASE f = Entry(o)
        BY <1>5, <1>6, <2>3, <2>5, <3>1
      <3>2. CASE f # Entry(o)
        BY <1>0, <1>5, <1>6, <2>5, <3>2 DEF UndoInv
      <3> QED
        BY <3>1, <3>2
    <2>6. UndoInv(o)'
      BY <1>3, <2>4, <2>5 DEF UndoInv
    <2> QED
      BY <2>1, <2>2, <2>6 DEF Facts
  <1>11. SavedInv' /\ UserContentKept'
    <2>1. \A f \in Files : Marked(o, f)' => Marked(o, f)
      BY DEF Marked, Installed, Replaced
    <2>2. BackupsStay
      BY DEF BackupsStay, managed
    <2>3. \A f \in Files : dest'[f] = dest[f] \/ Safe(f)
      BY <1>7
    <2> QED
      BY <1>3, <1>8, <2>1, <2>2, <2>3, KeepsUserContent
  <1>12. WriterInv'
    BY <1>0 DEF WriterInv, TypeOK
  <1> QED
    BY <1>8, <1>9, <1>10, <1>11, <1>12, Assemble

\* What undoing an entry does to the destination.
LEMMA UndoEntryFacts ==
  ASSUME SharedInv, NEW o \in Ops, UndoEntry(o)
  PROVE  /\ ph[o] = "rbEntry" /\ NextRollbackEntry(o) /\ Entry(o) \in Changed(o)
         /\ Entry(o) \in Files
         /\ dest' \in [Files -> Contents \cup {None}]
         /\ \A f \in Files \ {Entry(o)} : dest'[f] = dest[f]
         /\ dest'[Entry(o)] = rec[o].pre[Entry(o)]
         /\ \A f \in Files : dest'[f] # None => Dir[f] \in dirs
         /\ rec[o].out[Entry(o)] = "InstalledNew" => dest'[Entry(o)] = None
         /\ writer' = [writer EXCEPT ![Entry(o)] = None]
         /\ UNCHANGED <<lock, rec, managed, user, stale>>
  <1> USE DEF SharedInv
  <1>0. RecordInv(o) /\ Entry(o) \in Files
    BY EntryFacts DEF Facts
  <1>1. /\ ph[o] = "rbEntry" /\ NextRollbackEntry(o) /\ Entry(o) \in Changed(o)
        /\ writer' = [writer EXCEPT ![Entry(o)] = None]
        /\ UNCHANGED <<lock, rec, managed, user, stale>>
    BY DEF UndoEntry
  <1>2. /\ rec[o] # None
        /\ Installed(o, Entry(o)) \/ Replaced(o, Entry(o))
    BY <1>0, <1>1 DEF RecordInv, Changed, Installed, Replaced
  <1>3. CASE Installed(o, Entry(o))
    <2>1. dest' = [dest EXCEPT ![Entry(o)] = None] /\ rec[o].pre[Entry(o)] = None
      BY <1>0, <1>2, <1>3 DEF UndoEntry, Installed, RecordInv
    <2> QED
      BY <1>0, <1>1, <2>1 DEF TypeOK
  <1>4. CASE Replaced(o, Entry(o))
    <2>1. /\ dest' = [dest EXCEPT ![Entry(o)] = backup[o][Entry(o)]]
          /\ Dir[Entry(o)] \in dirs
          /\ rec[o].out[Entry(o)] # "InstalledNew"
      BY <1>4 DEF UndoEntry, Replaced
    <2>2. backup[o][Entry(o)] = rec[o].pre[Entry(o)]
          /\ backup[o][Entry(o)] \in Contents \cup {None}
      BY <1>0, <1>2, <1>4 DEF RecordInv, TypeOK
    <2> QED
      BY <1>0, <1>1, <2>1, <2>2 DEF TypeOK
  <1> QED
    BY <1>2, <1>3, <1>4

LEMMA RollbackEntriesKeep ==
  ASSUME SharedInv, NEW o \in Ops,
         \/ NoChangeRequired(o) \/ RemoveInstalled(o) \/ RestoreBackup(o)
         \/ UndoUnverified(o) \/ RollbackEntryFails(o)
  PROVE  SharedInv'
  <1> USE DEF SharedInv
  <1>1. CASE NoChangeRequired(o)
    BY <1>1, RollbackEntryStep DEF NoChangeRequired, history, TypeOK
  <1>2. CASE RollbackEntryFails(o)
    BY <1>2, RollbackEntryStep DEF RollbackEntryFails, LeaveEntry, history, TypeOK
  <1>3. CASE UndoUnverified(o)
    <2>1. UndoEntry(o) /\ undone' = undone /\ dirs' = dirs /\ dirs \in SUBSET Dirs
      BY <1>3 DEF UndoUnverified, LeaveEntry, TypeOK
    <2> QED
      BY <2>1, UndoEntryFacts, RollbackEntryStep
  <1>4. CASE RestoreBackup(o)
    <2>1. UndoEntry(o) /\ undone' = [undone EXCEPT ![o] = @ \cup {Entry(o)}]
          /\ dirs' = dirs /\ dirs \in SUBSET Dirs
      BY <1>4 DEF RestoreBackup, TypeOK
    <2> QED
      BY <2>1, UndoEntryFacts, RollbackEntryStep
  <1>5. CASE RemoveInstalled(o)
    <2>1. UndoEntry(o) /\ undone' = [undone EXCEPT ![o] = @ \cup {Entry(o)}]
          /\ rec[o].out[Entry(o)] = "InstalledNew"
      BY <1>5 DEF RemoveInstalled
    <2>2. dirs' \in SUBSET Dirs /\ \A f \in Files : dest'[f] # None => Dir[f] \in dirs'
      BY <1>5, <2>1, UndoEntryFacts DEF RemoveInstalled, HasSiblings, TypeOK
    <2> QED
      BY <2>1, <2>2, UndoEntryFacts, RollbackEntryStep
  <1> QED
    BY <1>1, <1>2, <1>3, <1>4, <1>5

LEMMA RollbackEndsKeep ==
  ASSUME SharedInv, NEW o \in Ops, WriteMarker(o) \/ NoMarker(o)
  PROVE  SharedInv'
  <1> USE DEF SharedInv
  <1>1. rec[o] # None
    BY DEF Facts, RecordInv, WriteMarker, NoMarker
  <1> QED
    BY <1>1, ReturnStep DEF WriteMarker, NoMarker, managed, TypeOK

-----------------------------------------------------------------------------
(* The rest of the world *)

LEMMA CrashKeeps ==
  ASSUME SharedInv, NEW o \in Ops, Crash(o)
  PROVE  SharedInv'
  <1> USE DEF SharedInv
  <1>1. o \in journaled => rec[o] # None
    BY DEF Facts, RecordInv
  <1> QED
    BY <1>1, ReturnStep DEF Crash, managed, TypeOK

\* Nobody holds the lock, so nobody is acting on what the user changes.
LEMMA FreeLockFacts ==
  ASSUME SharedInv, lock = None,
         UNCHANGED <<lock, ph, at, rec, journaled, backup, backupDir, undone, stale>>
  PROVE  LockInv' /\ \A o \in Ops : ph[o] \notin Held /\ Facts(o)'
  <1> USE DEF SharedInv
  <1>1. \A o \in Ops : ph[o] \notin Held
    BY EntryFacts DEF LockInv
  <1>2. ASSUME NEW o \in Ops PROVE Facts(o)'
    <2>1. RecordInv(o) /\ UndoInv(o) /\ ph[o] \notin Held
      BY <1>1 DEF Facts
    <2>2. RecordInv(o)'
      BY <2>1 DEF RecordInv, Installed, Replaced
    <2>3. EntryInv(o)'
      BY <2>1 DEF EntryInv, Held, Acting
    <2>4. UndoInv(o)'
      BY <2>1 DEF UndoInv, Held
    <2> QED
      BY <2>2, <2>3, <2>4 DEF Facts
  <1> QED
    BY <1>1, <1>2 DEF LockInv

LEMMA UserKeeps ==
  ASSUME SharedInv, NEW f \in Files, NEW c \in UserContents \cup {None}, UserChanges(f, c)
  PROVE  SharedInv'
  <1> USE DEF SharedInv
  <1>1. /\ lock = None
        /\ dest' = [dest EXCEPT ![f] = c] /\ dirs' = dirs \cup {Dir[f]}
        /\ user' = [user EXCEPT ![f] = c] /\ writer' = [writer EXCEPT ![f] = None]
        /\ UNCHANGED <<lock, ph, at, rec, managed, undone, stale>>
    BY DEF UserChanges
  <1>2. LockInv' /\ \A o \in Ops : ph[o] \notin Held /\ Facts(o)'
    BY <1>1, FreeLockFacts DEF managed
  <1>3. TypeOK'
    <2>1. /\ c \in Contents \cup {None}
          /\ Dir[f] \in Dirs
      BY SharedAssumption
    <2>2. /\ dest' \in [Files -> Contents \cup {None}] /\ dest'[f] = c
          /\ \A g \in Files \ {f} : dest'[g] = dest[g]
          /\ user' \in [Files -> Contents \cup {None}]
          /\ writer' \in [Files -> Ops \cup {None}]
      BY <1>1, <2>1 DEF TypeOK
    <2>3. dirs' \in SUBSET Dirs /\ \A g \in Files : dest'[g] # None => Dir[g] \in dirs'
      BY <1>1, <2>1, <2>2 DEF TypeOK
    <2> QED
      BY <1>1, <2>2, <2>3 DEF TypeOK, managed
  <1>4. WriterInv'
    BY <1>1 DEF WriterInv, TypeOK
  <1>5. SavedInv' /\ UserContentKept'
    <2>1. \A g \in Files \ {f} : Saved(g)' <=> Saved(g)
      BY <1>1 DEF Saved, TypeOK, managed
    <2>2. Saved(f)' \/ user'[f] \in UserContents
      BY <1>1 DEF Saved, TypeOK
    <2>3. UserContentKept'
      BY <1>1 DEF UserContentKept, TypeOK, managed
    <2>4. \A g \in Files \ {f} : user'[g] = user[g]
      BY <1>1 DEF TypeOK
    <2>5. ASSUME ~stale', NEW o \in Ops, rec'[o] # None, NEW g \in Files,
                 Installed(o, g)' \/ Replaced(o, g)'
          PROVE  Saved(g)' \/ user'[g] \in UserContents
      <3>1. CASE g = f
        BY <2>2, <3>1
      <3>2. CASE g # f
        <4>1. Saved(g) \/ user[g] \in UserContents
          BY <1>1, <2>5 DEF SavedInv, Installed, Replaced
        <4> QED
          BY <2>1, <2>4, <3>2, <4>1
      <3> QED
        BY <3>1, <3>2
    <2>6. \A o \in Ops : ph'[o] \notin {"verify", "restore"}
      BY <1>1, <1>2 DEF Held
    <2> QED
      BY <2>3, <2>5, <2>6 DEF SavedInv
  <1> QED
    BY <1>2, <1>3, <1>4, <1>5

LEMMA UserRemovesDirKeeps ==
  ASSUME SharedInv, NEW d \in Dirs, UserRemovesDir(d)
  PROVE  SharedInv'
  <1> USE DEF SharedInv
  <1>1. /\ lock = None /\ ~Filled(d) /\ dirs' = dirs \ {d}
        /\ UNCHANGED <<dest, lock, ph, at, rec, managed, undone, history>>
    BY DEF UserRemovesDir
  <1>2. LockInv' /\ \A o \in Ops : Facts(o)'
    BY <1>1, FreeLockFacts DEF managed, history
  <1>3. TypeOK'
    BY <1>1 DEF TypeOK, Filled, managed, history
  <1>4. WriterInv' /\ UserContentKept'
    BY <1>1 DEF WriterInv, UserContentKept, managed, history
  <1>5. SavedInv'
    <2>1. \A g \in Files : Saved(g)' <=> Saved(g)
      BY <1>1 DEF Saved, managed, history
    <2>2. \A o \in Ops : Entry(o)' = Entry(o) /\ Entry(o) \in Files
      BY <1>1, EntryFacts DEF Entry
    <2>3. \A o \in Ops : ph[o] \notin {"verify", "restore"}
      BY <1>1, FreeLockFacts DEF managed, history, Held
    <2> QED
      BY <1>1, <2>1, <2>2, <2>3 DEF SavedInv, Installed, Replaced, managed, history
  <1> QED
    BY <1>2, <1>3, <1>4, <1>5

-----------------------------------------------------------------------------
(* The inductive invariant *)

LEMMA InitEstablishes == Init => SharedInv
  <1> SUFFICES ASSUME Init PROVE SharedInv
    OBVIOUS
  <1>1. TypeOK
    <2>1. \A o \in Ops : 1 \in DOMAIN Targets[o]
      BY SharedAssumption
    <2> QED
      BY <2>1 DEF Init, TypeOK, Phases
  <1>2. LockInv /\ WriterInv /\ SavedInv /\ UserContentKept
    BY DEF Init, LockInv, WriterInv, SavedInv, UserContentKept, Held
  <1>3. ASSUME NEW o \in Ops PROVE Facts(o)
    BY DEF Init, Facts, RecordInv, EntryInv, UndoInv, Acting, RollbackPhases
  <1> QED
    BY <1>1, <1>2, <1>3 DEF SharedInv

\* Every step keeps what the operations, the records, the backups and the user's
\* contents have to do with each other.
LEMMA StepKeeps == SharedInv /\ [Next]_vars => SharedInv'
  <1> SUFFICES ASSUME SharedInv, [Next]_vars PROVE SharedInv'
    OBVIOUS
  <1>1. ASSUME NEW o \in Ops, ApplyStep(o) PROVE SharedInv'
    <2>1. CASE \/ AlreadyInstalled(o) \/ EntryRefused(o) \/ ParentFails(o) \/ BackupFails(o)
               \/ WriteFails(o) \/ Verified(o) \/ ReadBackFails(o) \/ RestoreFails(o)
      BY <2>1, EntryEndsKeep
    <2>2. CASE AcquireForApply(o) \/ ApplyLockTimeout(o)
      BY <2>2, AcquiresKeep, PreparesKeep
    <2>3. CASE CheckPasses(o) \/ ContentRejected(o)
      BY <2>3, CheckKeeps, RejectKeeps
    <2>4. CASE CreateParent(o) \/ create_backup(o)
      BY <2>4, CreateParentKeeps, CreateBackupKeeps
    <2>5. CASE WriteDestination(o) \/ restore_after_failed_verification(o)
      BY <2>5, WriteKeeps, RestoreKeeps
    <2>6. CASE DropLock(o) \/ write_journal_once(o) \/ JournalFails(o)
      BY <2>6, DropLockKeeps, JournalKeeps
    <2> QED
      BY <1>1, <2>1, <2>2, <2>3, <2>4, <2>5, <2>6 DEF ApplyStep
  <1>2. ASSUME NEW o \in Ops, RollbackStep(o) PROVE SharedInv'
    BY <1>2, AcquiresKeep, PreparesKeep, RollbackEntriesKeep, RollbackEndsKeep
       DEF RollbackStep
  <1>3. ASSUME NEW o \in Ops,
               \/ build_shared_transaction_plan(o) \/ ConfirmApply(o) \/ ConfirmRollback(o)
               \/ Crash(o)
        PROVE  SharedInv'
    BY <1>3, ReviewKeeps, PreparesKeep, CrashKeeps
  <1>4. CASE \E f \in Files, c \in UserContents \cup {None} : UserChanges(f, c)
    BY <1>4, UserKeeps
  <1>5. CASE \E d \in Dirs : UserRemovesDir(d)
    BY <1>5, UserRemovesDirKeeps
  <1>6. CASE UNCHANGED vars
    <2> USE <1>6 DEF vars, SharedInv
    <2>1. TypeOK' /\ LockInv' /\ WriterInv' /\ UserContentKept'
      BY DEF TypeOK, LockInv, WriterInv, UserContentKept
    <2>2. SavedInv'
      BY DEF SavedInv, Saved, Installed, Replaced, Entry
    <2>3. ASSUME NEW o \in Ops PROVE Facts(o)'
      <3>1. RecordInv(o)'
        BY DEF Facts, RecordInv, Installed, Replaced
      <3>2. EntryInv(o)'
        BY DEF Facts, EntryInv, Entry
      <3>3. UndoInv(o)'
        BY DEF Facts, UndoInv, Changed, InPlan
      <3> QED
        BY <3>1, <3>2, <3>3 DEF Facts
    <2> QED
      BY <2>1, <2>2, <2>3
  <1> QED
    BY <1>1, <1>2, <1>3, <1>4, <1>5, <1>6 DEF Next, Step

LEMMA Invariance == Spec => []SharedInv
  BY InitEstablishes, StepKeeps, PTL DEF Spec

-----------------------------------------------------------------------------
(* What an operation has written *)

\* The entries apply_one has not written yet.
Ahead(o) ==
  IF ph[o] \in {"new", "review", "lock"} THEN Files
  ELSE {Targets[o][i] : i \in {j \in DOMAIN Targets[o] :
          \/ ph[o] \in {"check", "parent", "backup", "write"} /\ j >= at[o]
          \/ ph[o] \in {"verify", "restore"} /\ j > at[o]}}

\* A file shows what operation o wrote only if its entry is the one being verified, or
\* is recorded as changed or as failed; and what o replaced was not its own content.
WroteInv(o) ==
  /\ \A f \in Ahead(o) : writer[f] # o
  /\ rec[o] # None =>
       \A f \in Files :
         /\ Replaced(o, f) => rec[o].pre[f] # New[o]
         /\ writer[f] = o =>
              \/ Installed(o, f) \/ Replaced(o, f) \/ rec[o].out[f] = "Failed"
              \/ f = Entry(o) /\ ph[o] \in {"verify", "restore"}

\* A step of an operation, or of the user, that writes no file for o and leaves o where
\* it is.
LEMMA WroteRests ==
  ASSUME NEW o \in Ops, WroteInv(o), ph'[o] = ph[o], at'[o] = at[o], rec'[o] = rec[o],
         \A f \in Files : writer'[f] = o => writer[f] = o, TypeOK
  PROVE  WroteInv(o)'
  <1>1. Ahead(o)' = Ahead(o)
    BY DEF Ahead
  <1>2. Ahead(o) \subseteq Files
    BY SharedAssumption DEF Ahead
  <1> QED
    BY <1>1, <1>2 DEF WroteInv, Installed, Replaced, Entry

\* A step of o that records no outcome and writes nothing for o: the entries ahead can
\* only become fewer.
LEMMA WroteMoves ==
  ASSUME NEW o \in Ops, WroteInv(o), TypeOK, rec'[o] \in {rec[o], None},
         \A f \in Files : writer'[f] = o => writer[f] = o,
         Ahead(o)' \subseteq Ahead(o),
         ph[o] \in {"verify", "restore"} =>
           rec'[o] = None \/ (at'[o] = at[o] /\ ph'[o] \in {"verify", "restore"})
  PROVE  WroteInv(o)'
  <1>1. Ahead(o) \subseteq Files
    BY SharedAssumption DEF Ahead
  <1>2. \A f \in Ahead(o)' : writer'[f] # o
    BY <1>1 DEF WroteInv
  <1>3. CASE rec'[o] = None
    BY <1>2, <1>3 DEF WroteInv
  <1>4. CASE rec'[o] = rec[o] /\ rec[o] # None
    <2> SUFFICES ASSUME NEW f \in Files
                 PROVE  /\ Replaced(o, f)' => rec'[o].pre[f] # New[o]
                        /\ writer'[f] = o =>
                             \/ Installed(o, f)' \/ Replaced(o, f)' \/ rec'[o].out[f] = "Failed"
                             \/ f = Entry(o)' /\ ph'[o] \in {"verify", "restore"}
      BY <1>2 DEF WroteInv
    <2>1. (Replaced(o, f)' <=> Replaced(o, f)) /\ (Installed(o, f)' <=> Installed(o, f))
      BY <1>4 DEF Replaced, Installed
    <2>2. ph[o] \in {"verify", "restore"} =>
            ph'[o] \in {"verify", "restore"} /\ Entry(o)' = Entry(o)
      BY <1>4 DEF Entry
    <2> QED
      BY <1>4, <2>1, <2>2 DEF WroteInv
  <1> QED
    BY <1>2, <1>3, <1>4

\* An entry is finished: it is not ahead any more, and if it was written its outcome
\* says so.
LEMMA WroteFinishes ==
  ASSUME SharedInv, NEW o \in Ops, WroteInv(o), NEW outcome \in Outcomes, Finish(o, outcome),
         ph[o] \in {"check"} \cup Acting,
         \A f \in Files : writer'[f] = o => writer[f] = o,
         outcome = "ReplacedExisting" => rec[o].pre[Entry(o)] # New[o],
         ph[o] \in {"verify", "restore"} =>
           outcome \in {"InstalledNew", "ReplacedExisting", "Failed"}
  PROVE  WroteInv(o)'
  <1> USE DEF SharedInv
  <1>0. rec[o] # None
    BY DEF Facts, RecordInv, Acting
  <1>1. rec' = [rec EXCEPT ![o].out[Entry(o)] = outcome]
    BY DEF Finish
  <1>2. /\ rec'[o] # None /\ rec'[o].pre = rec[o].pre
        /\ rec'[o].out[Entry(o)] = outcome
        /\ \A f \in Files \ {Entry(o)} : rec'[o].out[f] = rec[o].out[f]
    BY <1>0, <1>1, OutcomeRecorded
  <1>3. /\ at[o] \in 1 .. Len(Targets[o]) /\ Entry(o) = Targets[o][at[o]]
        /\ Targets[o] \in Seq(Files) /\ Entry(o) \in Files
        /\ \A i, j \in DOMAIN Targets[o] : Targets[o][i] = Targets[o][j] => i = j
    BY EntryFacts, SharedAssumption DEF Entry
  <1>4. \/ ph'[o] = "unlock"
        \/ ph'[o] = "check" /\ at'[o] = at[o] + 1
    BY DEF Finish, Go, TypeOK
  <1>5. Ahead(o)' \subseteq Ahead(o)
    BY <1>3, <1>4 DEF Ahead, Acting
  <1>6. Ahead(o) \subseteq Files
    BY SharedAssumption DEF Ahead
  <1>7. writer[Entry(o)] = o => ph[o] \in {"verify", "restore"}
    <2>1. ph[o] \notin {"verify", "restore"} => Entry(o) \in Ahead(o)
      BY <1>3 DEF Ahead, Acting
    <2> QED
      BY <2>1 DEF WroteInv
  <1>8. \A f \in Ahead(o)' : writer'[f] # o
    BY <1>5, <1>6 DEF WroteInv
  <1>9. ASSUME NEW f \in Files
        PROVE  /\ Replaced(o, f)' => rec'[o].pre[f] # New[o]
               /\ writer'[f] = o =>
                    Installed(o, f)' \/ Replaced(o, f)' \/ rec'[o].out[f] = "Failed"
    <2>1. CASE f = Entry(o)
      BY <1>2, <1>7, <2>1 DEF Installed, Replaced
    <2>2. CASE f # Entry(o)
      BY <1>0, <1>2, <2>2 DEF WroteInv, Installed, Replaced
    <2> QED
      BY <2>1, <2>2
  <1> QED
    BY <1>8, <1>9 DEF WroteInv

\* The steps of an apply.
LEMMA ApplyWrote ==
  ASSUME SharedInv, NEW o \in Ops, WroteInv(o), ApplyStep(o)
  PROVE  WroteInv(o)'
  <1> USE DEF SharedInv
  <1>0. TypeOK /\ ph \in [Ops -> Phases] /\ at \in [Ops -> Nat]
        /\ rec \in [Ops -> Records \cup {None}]
    BY DEF TypeOK
  <1>1. CASE \/ AlreadyInstalled(o) \/ EntryRefused(o) \/ ParentFails(o) \/ BackupFails(o)
             \/ WriteFails(o) \/ Verified(o) \/ ReadBackFails(o) \/ RestoreFails(o)
             \/ restore_after_failed_verification(o)
    <2>1. PICK outcome \in Outcomes :
            /\ Finish(o, outcome)
            /\ ph[o] \in {"check"} \cup Acting
            /\ ph[o] \in {"verify", "restore"} =>
                 outcome \in {"InstalledNew", "ReplacedExisting", "Failed"}
            /\ outcome = "ReplacedExisting" => ph[o] = "verify"
      BY <1>1 DEF AlreadyInstalled, EntryRefused, ParentFails, BackupFails, WriteFails, Verified,
         ReadBackFails, RestoreFails, restore_after_failed_verification, Outcomes, Acting
    <2>2. \A f \in Files : writer'[f] = o => writer[f] = o
      BY <1>1, EntryFacts DEF AlreadyInstalled, EntryRefused, ParentFails, BackupFails, WriteFails,
         Verified, ReadBackFails, RestoreFails, restore_after_failed_verification, history, TypeOK
    <2>3. ph[o] = "verify" => rec[o].pre[Entry(o)] # New[o]
      BY DEF Facts, EntryInv, Acting
    <2> QED
      BY <2>1, <2>2, <2>3, WroteFinishes
  <1>2. CASE WriteDestination(o)
    <2>1. /\ ph[o] = "write" /\ ph'[o] = "verify" /\ at' = at /\ rec' = rec
          /\ writer' = [writer EXCEPT ![Entry(o)] = o]
      BY <1>0, <1>2 DEF WriteDestination, Go
    <2>2. /\ at[o] \in 1 .. Len(Targets[o]) /\ Entry(o) = Targets[o][at[o]]
          /\ Targets[o] \in Seq(Files) /\ Entry(o) \in Files
          /\ \A i, j \in DOMAIN Targets[o] : Targets[o][i] = Targets[o][j] => i = j
      BY EntryFacts, SharedAssumption DEF Entry
    <2>3. Ahead(o)' \subseteq Ahead(o) \ {Entry(o)}
      BY <2>1, <2>2 DEF Ahead
    <2>4. \A f \in Files \ {Entry(o)} : writer'[f] = writer[f]
      BY <2>1 DEF TypeOK
    <2>5. Ahead(o) \subseteq Files
      BY SharedAssumption DEF Ahead
    <2>6. \A f \in Ahead(o)' : writer'[f] # o
      BY <2>3, <2>4, <2>5 DEF WroteInv
    <2>7. Entry(o)' = Entry(o)
      BY <2>1 DEF Entry
    <2> QED
      BY <2>1, <2>4, <2>6, <2>7 DEF WroteInv, Installed, Replaced
  <1>3. CASE CreateParent(o)
    <2>1. /\ ph[o] = "parent" /\ ph'[o] \in {"backup", "write"} /\ at' = at
          /\ writer' = writer
      BY <1>0, <1>3 DEF CreateParent, Go, AfterParent, history
    <2>2. rec[o] # None /\ rec[o] \in Records
      BY <2>1, RecordFacts DEF Facts, RecordInv
    <2> DEFINE r == [rec[o] EXCEPT !.made = @ \cup {Entry(o)}]
    <2>3. rec'[o] = r
      BY <1>0, <1>3 DEF CreateParent
    <2>4. r.pre = rec[o].pre /\ r.out = rec[o].out
      BY <2>2 DEF Records
    <2>5. Ahead(o)' = Ahead(o)
      BY <2>1 DEF Ahead
    <2> HIDE DEF r
    <2> QED
      BY <2>1, <2>2, <2>3, <2>4, <2>5 DEF WroteInv, Installed, Replaced
  <1>4. CASE \/ AcquireForApply(o) \/ ApplyLockTimeout(o) \/ CheckPasses(o) \/ create_backup(o)
             \/ ContentRejected(o) \/ DropLock(o) \/ write_journal_once(o) \/ JournalFails(o)
    <2>1. writer' = writer /\ rec'[o] \in {rec[o], None}
      BY <1>0, <1>4 DEF AcquireForApply, ApplyLockTimeout, CheckPasses, create_backup,
         ContentRejected, DropLock, write_journal_once, JournalFails, history
    <2>2. CASE AcquireForApply(o)
      <3>1. ph[o] = "lock" /\ ph'[o] = "check"
        BY <1>0, <2>2 DEF AcquireForApply, Go
      <3>2. Ahead(o)' \subseteq Ahead(o)
        BY <3>1, SharedAssumption DEF Ahead
      <3> QED
        BY <1>0, <2>1, <3>1, <3>2, WroteMoves
    <2>3. CASE CheckPasses(o) \/ create_backup(o)
      <3>1. /\ ph[o] \in {"check", "parent", "backup"} /\ at' = at
            /\ ph'[o] \in {"parent", "backup", "write"}
        BY <1>0, <2>3 DEF CheckPasses, create_backup, Go, AfterParent
      <3>2. Ahead(o)' = Ahead(o)
        BY <3>1 DEF Ahead
      <3> QED
        BY <1>0, <2>1, <3>1, <3>2, WroteMoves
    <2>4. CASE ContentRejected(o)
      <3>1. ph[o] = "verify" /\ at' = at /\ ph'[o] = "restore"
        BY <1>0, <2>4 DEF ContentRejected, Go
      <3>2. Ahead(o)' = Ahead(o)
        BY <3>1 DEF Ahead
      <3> QED
        BY <1>0, <2>1, <3>1, <3>2, WroteMoves
    <2>5. CASE ApplyLockTimeout(o) \/ DropLock(o) \/ write_journal_once(o) \/ JournalFails(o)
      <3>1. ph[o] \in {"lock", "unlock", "journal"} /\ ph'[o] \in {"journal", "done"}
        BY <1>0, <2>5 DEF ApplyLockTimeout, DropLock, write_journal_once, JournalFails, Go, Return
      <3>2. Ahead(o)' = {}
        BY <3>1 DEF Ahead
      <3> QED
        BY <1>0, <2>1, <3>1, <3>2, WroteMoves
    <2> QED
      BY <1>4, <2>2, <2>3, <2>4, <2>5
  <1> QED
    BY <1>1, <1>2, <1>3, <1>4 DEF ApplyStep

\* A rollback writes nothing of its operation's content and leaves its record alone; so
\* do the review, the confirmations and a crash, which may lose the record.
LEMMA RestWrote ==
  ASSUME SharedInv, NEW o \in Ops, WroteInv(o),
         RollbackStep(o) \/ ConfirmApply(o) \/ ConfirmRollback(o) \/ Crash(o)
  PROVE  WroteInv(o)'
  <1> USE DEF SharedInv
  <1>0. TypeOK /\ ph \in [Ops -> Phases] /\ at \in [Ops -> Nat]
        /\ rec \in [Ops -> Records \cup {None}]
    BY DEF TypeOK
  <1>1. CASE RollbackStep(o) \/ ConfirmRollback(o)
    <2>1. rec'[o] = rec[o] /\ ph[o] \in {"done"} \cup RollbackPhases
          /\ ph'[o] \in {"done"} \cup RollbackPhases
      BY <1>0, <1>1 DEF RollbackStep, ConfirmRollback, AcquireForRollback, RollbackLockTimeout,
         NoChangeRequired, RemoveInstalled, RestoreBackup, UndoUnverified, RollbackEntryFails,
         WriteMarker, NoMarker, UndoEntry, NextRollbackEntry, Go, Return, RollbackPhases
    <2>2. \A f \in Files : writer'[f] = o => writer[f] = o
      <3>1. writer' \in {writer, [writer EXCEPT ![Entry(o)] = None]}
        BY <1>1 DEF RollbackStep, ConfirmRollback, AcquireForRollback,
           RollbackLockTimeout, NoChangeRequired, RemoveInstalled, RestoreBackup,
           UndoUnverified, RollbackEntryFails, WriteMarker, NoMarker, UndoEntry, history
      <3> QED
        BY <3>1, EntryFacts DEF TypeOK
    <2>3. Ahead(o)' = {}
      BY <2>1 DEF Ahead, RollbackPhases
    <2> QED
      BY <1>0, <2>1, <2>2, <2>3, WroteMoves DEF RollbackPhases
  <1>2. CASE ConfirmApply(o)
    <2>1. writer' = writer /\ rec' = rec /\ ph[o] = "review" /\ ph'[o] = "lock"
      BY <1>0, <1>2 DEF ConfirmApply, Go, history
    <2>2. Ahead(o)' = Ahead(o)
      BY <2>1 DEF Ahead
    <2> QED
      BY <1>0, <2>1, <2>2, WroteMoves
  <1>3. CASE Crash(o)
    <2>1. writer' = writer /\ ph'[o] = "done" /\ (o \notin journaled => rec'[o] = None)
          /\ rec'[o] \in {rec[o], None}
      BY <1>0, <1>3 DEF Crash, Return, history
    <2>2. o \in journaled => ph[o] \in {"done"} \cup RollbackPhases
      BY DEF Facts, RecordInv
    <2>3. Ahead(o)' = {}
      BY <2>1 DEF Ahead
    <2> QED
      BY <1>0, <2>1, <2>2, <2>3, WroteMoves DEF RollbackPhases
  <1> QED
    BY <1>1, <1>2, <1>3

LEMMA ReviewWrote ==
  ASSUME SharedInv, NEW o \in Ops, WroteInv(o), build_shared_transaction_plan(o)
  PROVE  WroteInv(o)'
  <1> DEFINE r == [pre |-> [f \in Files |-> IF f \in InPlan(o) THEN dest[f] ELSE None],
                   missing |-> Dirs \ dirs,
                   out |-> [f \in Files |-> "Pending"], made |-> {}]
  <1>1. /\ ph[o] = "new" /\ ph'[o] = "review" /\ writer' = writer /\ rec'[o] = r
    BY DEF build_shared_transaction_plan, Go, history, SharedInv, TypeOK
  <1>2. r.out = [f \in Files |-> "Pending"]
    OBVIOUS
  <1> HIDE DEF r
  <1>3. Ahead(o)' = Files /\ Ahead(o) = Files
    BY <1>1 DEF Ahead
  <1>4. \A f \in Files : writer'[f] # o
    BY <1>1, <1>3 DEF WroteInv
  <1> QED
    BY <1>1, <1>2, <1>3, <1>4 DEF WroteInv, Replaced

\* Another operation's step leaves o alone, and nobody but o writes for o.
LEMMA OtherWrote ==
  ASSUME SharedInv, NEW q \in Ops, NEW o \in Ops, o # q, WroteInv(o),
         \/ ApplyStep(q) \/ RollbackStep(q) \/ build_shared_transaction_plan(q)
         \/ ConfirmApply(q) \/ ConfirmRollback(q) \/ Crash(q)
  PROVE  WroteInv(o)'
  <1> USE DEF SharedInv
  <1>0. TypeOK /\ o # None
    BY EntryFacts DEF TypeOK
  <1>1. ph'[o] = ph[o] /\ at'[o] = at[o] /\ rec'[o] = rec[o]
    BY <1>0 DEF TypeOK, ApplyStep, RollbackStep, build_shared_transaction_plan, ConfirmApply,
       ConfirmRollback, Crash, AcquireForApply, ApplyLockTimeout, CheckPasses,
       AlreadyInstalled, EntryRefused, CreateParent, ParentFails, create_backup, BackupFails,
       WriteDestination, WriteFails, Verified, ReadBackFails, ContentRejected,
       restore_after_failed_verification, RestoreFails, DropLock, write_journal_once,
       JournalFails, AcquireForRollback, RollbackLockTimeout, NoChangeRequired,
       RemoveInstalled, RestoreBackup, UndoUnverified, RollbackEntryFails, WriteMarker,
       NoMarker, UndoEntry, NextRollbackEntry, Finish, Go, Return
  <1>2. writer' \in {writer, [writer EXCEPT ![Entry(q)] = q], [writer EXCEPT ![Entry(q)] = None]}
    BY DEF ApplyStep, RollbackStep, build_shared_transaction_plan, ConfirmApply,
       ConfirmRollback, Crash, AcquireForApply, ApplyLockTimeout, CheckPasses,
       AlreadyInstalled, EntryRefused, CreateParent, ParentFails, create_backup, BackupFails,
       WriteDestination, WriteFails, Verified, ReadBackFails, ContentRejected,
       restore_after_failed_verification, RestoreFails, DropLock, write_journal_once,
       JournalFails, AcquireForRollback, RollbackLockTimeout, NoChangeRequired,
       RemoveInstalled, RestoreBackup, UndoUnverified, RollbackEntryFails, WriteMarker,
       NoMarker, UndoEntry, history
  <1>3. \A f \in Files : writer'[f] = o => writer[f] = o
    BY <1>0, <1>2, EntryFacts DEF TypeOK
  <1> QED
    BY <1>0, <1>1, <1>3, WroteRests

LEMMA WroteKeeps ==
  SharedInv /\ (\A o \in Ops : WroteInv(o)) /\ [Next]_vars => (\A o \in Ops : WroteInv(o))'
  <1> SUFFICES ASSUME SharedInv, \A o \in Ops : WroteInv(o), [Next]_vars, NEW o \in Ops
               PROVE  WroteInv(o)'
    OBVIOUS
  <1>1. ASSUME NEW q \in Ops,
               \/ build_shared_transaction_plan(q) \/ ConfirmApply(q) \/ ConfirmRollback(q)
               \/ Step(q) \/ Crash(q)
        PROVE  WroteInv(o)'
    <2>1. CASE q = o
      BY <1>1, <2>1, ApplyWrote, RestWrote, ReviewWrote DEF Step
    <2>2. CASE q # o
      BY <1>1, <2>2, OtherWrote DEF Step
    <2> QED
      BY <2>1, <2>2
  <1>2. CASE \/ \E f \in Files, c \in UserContents \cup {None} : UserChanges(f, c)
             \/ \E d \in Dirs : UserRemovesDir(d)
             \/ UNCHANGED vars
    <2>1. ph' = ph /\ at' = at /\ rec' = rec
      BY <1>2 DEF UserChanges, UserRemovesDir, vars
    <2>2. writer' = writer \/ \E f \in Files : writer' = [writer EXCEPT ![f] = None]
      BY <1>2 DEF UserChanges, UserRemovesDir, vars, history
    <2>3. \A f \in Files : writer'[f] = o => writer[f] = o
      BY <2>2, EntryFacts DEF SharedInv, TypeOK
    <2> QED
      BY <2>1, <2>3, WroteRests DEF SharedInv
  <1> QED
    BY <1>1, <1>2 DEF Next

LEMMA WroteInvariance == Spec => [](\A o \in Ops : WroteInv(o))
  <1>1. Init => \A o \in Ops : WroteInv(o)
    BY SharedAssumption DEF Init, WroteInv, Ahead
  <1> QED
    BY <1>1, WroteKeeps, Invariance, PTL DEF Spec

-----------------------------------------------------------------------------
(* The theorems *)

\* Every variable of the apply and rollback keeps its type, and a file is never left
\* without its parent directory, in any order of applies, rollbacks, failed calls,
\* crashes and changes of the user.
THEOREM TypeCorrect == Spec => []TypeOK
  <1>1. SharedInv => TypeOK
    BY DEF SharedInv
  <1> QED
    BY <1>1, Invariance, PTL

\* What the user put at a destination is there or in a backup, unless a rollback has
\* acted on an expired preview.
THEOREM UserContentAlwaysKept == Spec => []UserContentKept
  <1>1. SharedInv => UserContentKept
    BY DEF SharedInv
  <1> QED
    BY <1>1, Invariance, PTL

\* A journaled change that nobody has written over passes rollback_entry_preview: the
\* installed content is there, and so is the backup of what it replaced.
THEOREM JournaledAlwaysUndoable == Spec => []JournaledIsUndoable
  <1>1. ASSUME SharedInv PROVE JournaledIsUndoable
    <2> SUFFICES ASSUME NEW o \in journaled, NEW f \in Changed(o), writer[f] = o
                 PROVE  EntryAvailable(o, f)
      BY DEF JournaledIsUndoable
    <2>1. o \in Ops /\ f \in Files
      BY <1>1, EntryFacts DEF SharedInv, TypeOK, Changed
    <2>2. dest[f] = New[o]
      BY <1>1, <2>1, EntryFacts DEF SharedInv, WriterInv
    <2>3. rec[o].out[f] = "ReplacedExisting" => backup[o][f] = rec[o].pre[f]
      BY <1>1, <2>1 DEF SharedInv, Facts, RecordInv, Replaced
    <2> QED
      BY <2>2, <2>3 DEF EntryAvailable
  <1> QED
    BY <1>1, Invariance, PTL

\* From its check to its write, apply_one holds the root lock and the destination is
\* the one the user reviewed.
THEOREM AppliesOnlyWhatWasReviewed == Spec => []WritesWhatWasReviewed
  <1>1. SharedInv => WritesWhatWasReviewed
    BY DEF SharedInv, Facts, EntryInv, LockInv, Held, WritesWhatWasReviewed
  <1> QED
    BY <1>1, Invariance, PTL

\* execute_shared_rollback writes its marker only when every file the journal calls
\* changed is back as it was reviewed, and then the only files that still show what the
\* operation wrote are entries the journal calls failed.
THEOREM MarkersMeanRestored == Spec => MarkerMeansRestored
  <1>1. ASSUME SharedInv, \A o \in Ops : WroteInv(o), [Next]_vars
        PROVE  [\A o \in marker' \ marker : \A f \in InPlan(o) :
                  /\ f \in Changed(o) => dest[f] = rec[o].pre[f]
                  /\ writer[f] = o => rec[o].out[f] = "Failed"]_vars
    <2> SUFFICES ASSUME NEW o \in marker', o \notin marker, NEW f \in InPlan(o)
                 PROVE  /\ f \in Changed(o) => dest[f] = rec[o].pre[f]
                        /\ writer[f] = o => rec[o].out[f] = "Failed"
      OBVIOUS
    <2>1. PICK q \in Ops : WriteMarker(q)
      BY <1>1 DEF Next, Step, ApplyStep, RollbackStep, build_shared_transaction_plan,
         ConfirmApply, ConfirmRollback, Crash, UserChanges, UserRemovesDir, AcquireForApply,
         ApplyLockTimeout, CheckPasses, AlreadyInstalled, EntryRefused, CreateParent,
         ParentFails, create_backup, BackupFails, WriteDestination, WriteFails, Verified,
         ReadBackFails, ContentRejected, restore_after_failed_verification, RestoreFails,
         DropLock, write_journal_once, JournalFails, AcquireForRollback,
         RollbackLockTimeout, NoChangeRequired, RemoveInstalled, RestoreBackup,
         UndoUnverified, RollbackEntryFails, NoMarker, UndoEntry, managed, vars
    <2>2. q = o /\ undone[q] = InPlan(q) /\ ph[q] = "rbMarker"
      BY <2>1 DEF WriteMarker
    <2>3. UndoInv(o) /\ RecordInv(o) /\ WroteInv(o) /\ WriterInv /\ TypeOK
      BY <1>1, <2>1, <2>2 DEF SharedInv, Facts
    <2>4. f \in Changed(o) => dest[f] = rec[o].pre[f]
      BY <2>2, <2>3 DEF UndoInv
    <2>5. rec[o] # None /\ f \in Files /\ New[o] # None /\ o # None
      BY <2>1, <2>2, <2>3, EntryFacts DEF RecordInv, RollbackPhases
    <2>6. ASSUME writer[f] = o PROVE rec[o].out[f] = "Failed"
      <3>1. Installed(o, f) \/ Replaced(o, f) \/ rec[o].out[f] = "Failed"
        BY <2>2, <2>3, <2>5, <2>6 DEF WroteInv
      <3>2. dest[f] = New[o]
        BY <2>3, <2>5, <2>6 DEF WriterInv
      <3>3. Installed(o, f) \/ Replaced(o, f) => f \in Changed(o) /\ rec[o].pre[f] # New[o]
        BY <2>3, <2>5 DEF Changed, Installed, Replaced, RecordInv, WroteInv
      <3> QED
        BY <2>4, <3>1, <3>2, <3>3
    <2> QED
      BY <2>4, <2>6
  <1> QED
    BY <1>1, Invariance, WroteInvariance, PTL DEF Spec, MarkerMeansRestored
=============================================================================
