-------------------------- MODULE OwnedMovesProofs --------------------------
(***************************************************************************)
(* Proofs about OwnedMoves for every batch and every list of directories:  *)
(* type correctness, that a moved file stays undoable, that the            *)
(* directories of the program stay claimed and those of the user stay, and *)
(* that a lost survivor costs one duplicate.                               *)
(***************************************************************************)
EXTENDS OwnedMoves, FiniteSetTheorems, TLAPS

-----------------------------------------------------------------------------
(* The inductive invariant *)

ApplyPcs == {"proof", "dirs", "claim", "preflight", "cleanUp", "executor", "entry",
             "checkpoint", "move", "record", "fail"}

RollbackPcs == {"rbStart", "rbEnter", "rbLoop", "rbMove", "rbRecord", "rbFinal", "rmDirs"}

\* The calls whose loop is over directories, and those whose loop is over files.
DirPcs == {"proof", "dirs", "claim", "cleanUp", "rmDirs"}

FilePcs == {"entry", "checkpoint", "move", "record", "fail", "rbLoop", "rbMove", "rbRecord"}

Ours == {d \in Dirs : dir[d] = "ours"}

\* What is true of every copy of the transaction: it knows of every file that is
\* away, and it says it is undone only when nothing is left to undo.
Knows(x) ==
  /\ \A e \in Files : at[e] = "home" =>
       x.entry[e] \in {"Applying", "Applied", "RollingBack", "RollbackFailed"}
  /\ x.state = "RolledBack" =>
       \A e \in Files : x.entry[e] \notin {"Applying", "Applied", "RollingBack"}

\* The loop's remainder fits the place the call p is at.
TodoOK(m, p, r) ==
  /\ p \in DirPcs => r \in Seq(Dirs)
  /\ p \in FilePcs => r \in Seq(Files)
  /\ p \in {"claim", "checkpoint", "move", "record", "rbMove", "rbRecord"} => r # <<>>
  /\ p \in {"cleanUp", "rmDirs"} => Range(r) \subseteq Range(m.created_directories)

\* A running apply with the copy m, at p with the remainder r, and the journal j.
ApplyOK(m, p, r, j) ==
  /\ ~own /\ held = None
  /\ m.state \in {"Applying", "ApplyFailed"}
  /\ m.created_directories = IF p = "claim" THEN Append(j.created_directories, Head(r))
                                            ELSE j.created_directories
  /\ \A e \in Files : m.entry[e] # "RolledBack" /\ j.entry[e] # "RolledBack"
  /\ p \in {"proof", "dirs"} => Ours \subseteq Claimed(j)
  /\ p = "claim" => Ours \subseteq Claimed(m)
  /\ p = "cleanUp" => kind = "organise"
  /\ p \notin {"entry", "checkpoint", "move", "record", "fail"} =>
       \A e \in Files : at[e] = "source"
  /\ p \in {"entry", "checkpoint", "move", "record"} => IsInjective(r)
  /\ p \in {"entry", "checkpoint", "move"} => \A e \in Range(r) : at[e] = "source"
  /\ p = "record" => \A e \in Range(Tail(r)) : at[e] = "source"
  /\ p = "move" => j.entry[Head(r)] = "Applying"

\* A running rollback.
RollbackOK(m, p, r, j) ==
  /\ m.created_directories = j.created_directories
  /\ p \in {"rbEnter", "rbLoop", "rbMove", "rbRecord", "rbFinal"} =>
       \A e \in Files : m.entry[e] # "Applying"
  /\ p \in {"rbLoop", "rbMove", "rbRecord"} => m.state = "RollingBack"
  /\ p = "rbMove" => j.entry[Head(r)] = "RollingBack"
  /\ ~(own /\ kind = "organise") =>
       \A e \in Files : j.entry[e] = "RolledBack" => m.entry[e] = "RolledBack"

CallOK(m, p, r, j) ==
  /\ p \in ApplyPcs \cup RollbackPcs
  /\ TodoOK(m, p, r)
  /\ p \in ApplyPcs => ApplyOK(m, p, r, j)
  /\ p \in RollbackPcs => RollbackOK(m, p, r, j)

RecordsInv ==
  /\ journal = None => Ours = {} /\ \A e \in Files : at[e] = "source"
  /\ journal # None => Knows(journal)
  /\ held # None => /\ Knows(held)
                    /\ journal # None
                    /\ held.created_directories = journal.created_directories
  /\ mem # None => Knows(mem)
  /\ pc = "idle" => ~own

CallInv == pc # "idle" => journal # None /\ CallOK(mem, pc, todo, journal)

\* A directory of the user under a claimed name was made there after the claim.
UserInv ==
  \A d \in UNION {Claimed(journal), Claimed(held), Claimed(mem)} :
    dir[d] = "user" => d \in remade

\* A refused organisation has given up its claims: nothing will bring them back.
Abandoned ==
  /\ kind = "organise" /\ journal # None /\ held = None /\ ~own
  /\ journal.state \notin {"Applying", "Applied"} /\ journal.created_directories = <<>>
  /\ pc \in {"idle"} \cup RollbackPcs
  /\ mem # None => mem.state \notin {"Applying", "Applied"}

OursInv == Abandoned \/ \E x \in Dirs : Ours \subseteq Claimed(journal) \cup {x}

LateInv ==
  /\ IsFiniteSet(late)
  /\ losses <= user
  /\ kind = "quarantine" => Cardinality(late) <= losses
  /\ kind = "quarantine" /\ ~survivor /\ pc \in {"checkpoint", "move"}
       => Cardinality(late) + 1 <= losses

OwnedInv ==
  /\ TypeOK
  /\ RecordsInv
  /\ CallInv
  /\ UserInv
  /\ OursInv
  /\ LateInv

-----------------------------------------------------------------------------
(* Sequences *)

LEMMA TailRange ==
    ASSUME NEW S, NEW s \in Seq(S), s # <<>>
    PROVE  /\ Head(s) \in S /\ Head(s) \in Range(s)
           /\ Tail(s) \in Seq(S) /\ Range(Tail(s)) \subseteq Range(s)
BY DEF Range

LEMMA InjectiveTail ==
    ASSUME NEW S, NEW s \in Seq(S), s # <<>>, IsInjective(s)
    PROVE  IsInjective(Tail(s)) /\ Head(s) \notin Range(Tail(s))
<1>1. /\ DOMAIN s = 1 .. Len(s) /\ DOMAIN Tail(s) = 1 .. (Len(s) - 1) /\ Len(s) \in Nat \ {0}
      /\ Head(s) = s[1] /\ \A i \in 1 .. (Len(s) - 1) : Tail(s)[i] = s[i + 1]
  OBVIOUS
<1>2. \A i, j \in 1 .. Len(s) : s[i] = s[j] => i = j
  BY <1>1 DEF IsInjective
<1> QED
  BY <1>1, <1>2 DEF IsInjective, Range

LEMMA ReverseRange ==
    ASSUME NEW S, NEW s \in Seq(S)
    PROVE  Reverse(s) \in Seq(S) /\ Range(Reverse(s)) \subseteq Range(s)
BY DEF Reverse, Range

LEMMA AppendRange ==
    ASSUME NEW S, NEW s \in Seq(S), NEW x \in S
    PROVE  Append(s, x) \in Seq(S) /\ Range(Append(s, x)) = Range(s) \cup {x}
<1>1. /\ Append(s, x) \in Seq(S) /\ Len(s) \in Nat /\ DOMAIN s = 1 .. Len(s)
      /\ DOMAIN Append(s, x) = 1 .. (Len(s) + 1) /\ Append(s, x)[Len(s) + 1] = x
      /\ \A i \in 1 .. Len(s) : Append(s, x)[i] = s[i]
  OBVIOUS
<1>2. \A y \in Range(Append(s, x)) : y \in Range(s) \cup {x}
  BY <1>1 DEF Range
<1>3. \A y \in Range(s) \cup {x} : y \in Range(Append(s, x))
  BY <1>1 DEF Range
<1> QED
  BY <1>1, <1>2, <1>3

LEMMA EmptyRange == Range(<<>>) = {}
BY DEF Range

-----------------------------------------------------------------------------
(* What a step that leaves the files alone keeps *)

FilesOK ==
  /\ kind \in {"organise", "quarantine"}
  /\ at \in [Files -> {"source", "home"}]
  /\ dir \in [Dirs -> {"none", "user", "ours"}]
  /\ extra \subseteq {d \in Dirs : dir[d] # "none"}
  /\ \A e \in Files : at[e] = "home" => dir[Home(e)] # "none"
  /\ \A d \in Dirs : dir[d] # "none" => \A p \in Parents(d) : dir[p] # "none"

CopiesOK ==
  /\ journal \in Transaction \cup {None}
  /\ held \in Transaction \cup {None}
  /\ mem \in Transaction \cup {None}
  /\ (mem = None) <=> (pc = "idle")

PeopleOK ==
  /\ survivor \in BOOLEAN /\ own \in BOOLEAN /\ cancel \in BOOLEAN
  /\ user \in 0 .. MaxUser /\ losses \in 0 .. MaxUser
  /\ remade \subseteq Dirs /\ late \subseteq Files

LEMMA TypeParts == TypeOK <=> FilesOK /\ CopiesOK /\ PeopleOK
BY DEF TypeOK, FilesOK, CopiesOK, PeopleOK

LEMMA FilesStill ==
    ASSUME FilesOK, UNCHANGED <<files, kind>>
    PROVE  FilesOK' /\ Ours' = Ours
<1>1. at' = at /\ dir' = dir /\ extra' = extra /\ kind' = kind
  BY DEF files
<1>2. \A e \in Files : Home(e)' = Home(e)
  BY <1>1 DEF Home
<1>3. \A d \in Dirs : Parents(d)' = Parents(d)
  BY <1>1 DEF Parents
<1> QED
  BY <1>1, <1>2, <1>3 DEF FilesOK, Ours

\* A call fits its place whatever directories of the program go.
LEMMA CallStill ==
    ASSUME NEW m, NEW p, NEW r, NEW j, CallOK(m, p, r, j),
           Ours' \subseteq Ours, UNCHANGED <<at, kind, own, held>>,
           mem' = m, pc' = p, todo' = r, journal' = j
    PROVE  CallOK(mem, pc, todo, journal)'
<1>1. at' = at /\ kind' = kind /\ own' = own /\ held' = held
  OBVIOUS
<1>2. TodoOK(mem, pc, todo)'
  BY DEF CallOK, TodoOK
<1>3. p \in ApplyPcs => ApplyOK(mem, pc, todo, journal)'
  BY <1>1 DEF CallOK, ApplyOK, Claimed
<1>4. p \in RollbackPcs => RollbackOK(mem, pc, todo, journal)'
  BY <1>1 DEF CallOK, RollbackOK
<1> QED
  BY <1>2, <1>3, <1>4 DEF CallOK

\* What a copy satisfies that is written to the journal or goes on in memory.
Claims == UNION {Claimed(journal), Claimed(held), Claimed(mem)}

Fits(tx) ==
  /\ tx \in Transaction
  /\ Knows(tx)
  /\ Claimed(tx) \subseteq Claims
  /\ Claimed(journal) \subseteq Claimed(tx)
  /\ held # None \/ (own /\ kind = "organise") =>
       journal # None /\ tx.created_directories = journal.created_directories
  /\ Abandoned => /\ tx.state \notin {"Applying", "Applied"}
                  /\ tx.created_directories = <<>>

LEMMA CallFits ==
    ASSUME OwnedInv, pc # "idle", NEW tx \in Transaction, Knows(tx),
           tx.created_directories = mem.created_directories,
           pc \in RollbackPcs /\ Abandoned =>
             tx.state = mem.state \/ tx.state \notin {"Applying", "Applied"}
    PROVE  Fits(tx)
<1>1. /\ mem \in Transaction /\ mem # None /\ journal \in Transaction /\ journal # None
      /\ tx # None /\ CallOK(mem, pc, todo, journal)
  BY NoneAssumption DEF OwnedInv, TypeOK, CallInv
<1>2. Claimed(tx) = Claimed(mem)
  BY <1>1 DEF Claimed
<1>3. CASE pc \in ApplyPcs
  <2>1. ApplyOK(mem, pc, todo, journal) /\ TodoOK(mem, pc, todo)
    BY <1>1, <1>3 DEF CallOK
  <2>2. ~own /\ held = None
    BY <2>1 DEF ApplyOK
  <2>3. Claimed(journal) \subseteq Claimed(mem)
    <3>1. CASE pc = "claim"
      <4>1. /\ mem.created_directories = Append(journal.created_directories, Head(todo))
            /\ Head(todo) \in Dirs /\ journal.created_directories \in Seq(Dirs)
        BY <2>1, <3>1, <1>1, TailRange DEF ApplyOK, TodoOK, DirPcs, Transaction
      <4> QED
        BY <4>1, <1>1, AppendRange DEF Claimed
    <3>2. CASE pc # "claim"
      BY <2>1, <3>2, <1>1 DEF ApplyOK, Claimed
    <3> QED
      BY <3>1, <3>2
  <2>4. ~Abandoned
    BY <1>3 DEF Abandoned, ApplyPcs, RollbackPcs
  <2> QED
    BY <1>1, <1>2, <2>2, <2>3, <2>4 DEF Fits, Claims
<1>4. CASE pc \in RollbackPcs
  <2>1. mem.created_directories = journal.created_directories
    BY <1>1, <1>4 DEF CallOK, RollbackOK
  <2>2. Claimed(journal) = Claimed(mem)
    BY <2>1, <1>1 DEF Claimed
  <2>3. Abandoned => tx.state \notin {"Applying", "Applied"} /\ tx.created_directories = <<>>
    BY <2>1, <1>1, <1>4 DEF Abandoned
  <2> QED
    BY <1>1, <1>2, <2>1, <2>2, <2>3 DEF Fits, Claims
<1> QED
  BY <1>1, <1>3, <1>4 DEF CallOK

-----------------------------------------------------------------------------
(* The four ways a call goes on or ends *)

\* A call enters the window between an entry's proof and its move only after
\* the proof.
ProofFirst(next) ==
  next \in {"checkpoint", "move"} => pc \in {"checkpoint", "move"} \/ reprove_entry_against_survivor

LEMMA LateStill ==
    ASSUME OwnedInv, UNCHANGED <<people, late>>, ProofFirst(pc')
    PROVE  LateInv'
<1>1. /\ late' = late /\ losses' = losses /\ user' = user /\ kind' = kind /\ survivor' = survivor
      /\ LateInv
  BY DEF people, OwnedInv
<1> QED
  BY <1>1 DEF LateInv, ProofFirst, reprove_entry_against_survivor

LEMMA UserStill ==
    ASSUME OwnedInv, UNCHANGED <<dir, people>>, Claims' \subseteq Claims
    PROVE  UserInv'
BY DEF OwnedInv, UserInv, Claims, people

LEMMA GoesOn ==
    ASSUME OwnedInv, pc # "idle" \/ journal # None,
           NEW tx, NEW next, NEW rest, Goto(tx, next, rest),
           UNCHANGED <<files, people, journal, held, own, cancel, late>>,
           Fits(tx), CallOK(tx, next, rest, journal), ProofFirst(next),
           pc \in RollbackPcs \cup {"idle"} => next \in RollbackPcs
    PROVE  OwnedInv'
<1>1. /\ mem' = tx /\ pc' = next /\ todo' = rest /\ journal' = journal /\ held' = held
      /\ own' = own /\ cancel' = cancel /\ late' = late /\ UNCHANGED <<files, people>>
      /\ UNCHANGED <<survivor, user, remade, losses, kind, at, dir>>
  BY DEF Goto, people, files
<1>2. /\ FilesOK /\ CopiesOK /\ PeopleOK /\ tx \in Transaction /\ tx # None /\ journal # None
      /\ next # "idle" /\ Knows(tx)
  BY TypeParts, NoneAssumption DEF OwnedInv, Fits, CallOK, ApplyPcs, RollbackPcs, CallInv
<1>3. TypeOK'
  <2>1. FilesOK'
    BY <1>1, <1>2, FilesStill
  <2>2. CopiesOK'
    BY <1>1, <1>2 DEF CopiesOK
  <2>3. PeopleOK'
    BY <1>1, <1>2 DEF PeopleOK
  <2> QED
    BY <2>1, <2>2, <2>3 DEF TypeOK, FilesOK, CopiesOK, PeopleOK
<1>4. Ours' = Ours
  BY <1>1, <1>2, FilesStill
<1>5. RecordsInv'
  BY <1>1, <1>2, <1>4 DEF OwnedInv, RecordsInv, Knows
<1>6. CallInv'
  <2>1. CallOK(mem, pc, todo, journal)'
    BY <1>1, <1>4, CallStill
  <2> QED
    BY <1>1, <1>2, <2>1 DEF CallInv
<1>7. UserInv'
  <2>1. Claims' \subseteq Claims
    BY <1>1 DEF Claims, Claimed, Fits
  <2> QED
    BY <1>1, <2>1, UserStill
<1>8. OursInv'
  <2>1. CASE Abandoned
    <3>1. next \in RollbackPcs /\ tx.state \notin {"Applying", "Applied"}
      BY <2>1 DEF Abandoned, Fits
    <3> QED
      BY <1>1, <2>1, <3>1 DEF Abandoned, OursInv
  <2>2. CASE ~Abandoned
    BY <1>1, <1>4, <2>2 DEF OwnedInv, OursInv, Claimed
  <2> QED
    BY <2>1, <2>2
<1>9. LateInv'
  BY <1>1, LateStill
<1> QED
  BY <1>3, <1>5, <1>6, <1>7, <1>8, <1>9 DEF OwnedInv

\* The call is over and the journal is as it was; the page may keep a copy.
LEMMA Ends ==
    ASSUME OwnedInv, Return, UNCHANGED <<files, people, journal, late>>,
           \/ held' = held
           \/ held' = None
           \/ own /\ kind = "organise" /\ Fits(held')
    PROVE  OwnedInv'
<1>1. /\ mem' = None /\ pc' = "idle" /\ own' = FALSE /\ cancel' = FALSE /\ journal' = journal
      /\ late' = late /\ UNCHANGED <<files, people>>
      /\ UNCHANGED <<survivor, user, remade, losses, kind, at, dir>>
  BY DEF Return, Goto, people, files
<1>2. FilesOK /\ CopiesOK /\ PeopleOK
  BY TypeParts DEF OwnedInv
<1>3. /\ held' \in Transaction \cup {None}
      /\ held' # None => /\ Knows(held') /\ journal # None
                         /\ held'.created_directories = journal.created_directories
  BY <1>2 DEF CopiesOK, Fits, OwnedInv, RecordsInv
<1>4. TypeOK'
  <2>1. FilesOK'
    BY <1>1, <1>2, FilesStill
  <2>2. CopiesOK'
    BY <1>1, <1>2, <1>3 DEF CopiesOK
  <2>3. PeopleOK'
    BY <1>1, <1>2 DEF PeopleOK
  <2> QED
    BY <2>1, <2>2, <2>3 DEF TypeOK, FilesOK, CopiesOK, PeopleOK
<1>5. Ours' = Ours
  BY <1>1, <1>2, FilesStill
<1>6. RecordsInv'
  BY <1>1, <1>3, <1>5 DEF OwnedInv, RecordsInv, Knows
<1>7. CallInv'
  BY <1>1 DEF CallInv
<1>8. UserInv'
  <2>1. Claims' \subseteq Claims
    BY <1>1, <1>3 DEF Claims, Claimed
  <2> QED
    BY <1>1, <2>1, UserStill
<1>9. OursInv'
  <2>1. CASE Abandoned
    BY <1>1, <2>1 DEF Abandoned, OursInv
  <2>2. CASE ~Abandoned
    BY <1>1, <1>5, <2>2 DEF OwnedInv, OursInv, Claimed
  <2> QED
    BY <2>1, <2>2
<1>10. LateInv'
  BY <1>1, LateStill DEF ProofFirst
<1> QED
  BY <1>4, <1>6, <1>7, <1>8, <1>9, <1>10 DEF OwnedInv

LEMMA WriteFailsEnds ==
    ASSUME OwnedInv, NEW tx, WriteFails(tx), Fits(tx) \/ ~own, UNCHANGED <<files, people, late>>
    PROVE  OwnedInv'
<1>1. /\ Return /\ journal' = journal
      /\ held' = IF own /\ kind = "organise" THEN tx ELSE held
  BY DEF WriteFails
<1>2. held' = held \/ (own /\ kind = "organise" /\ Fits(held'))
  BY <1>1 DEF Fits
<1> QED
  BY <1>1, <1>2, Ends

\* A copy that the journal now holds.
LEMMA Written ==
    ASSUME OwnedInv, NEW tx, Fits(tx), journal' = tx, UNCHANGED <<files, people, held, late>>
    PROVE  /\ FilesOK' /\ Ours' = Ours /\ tx # None
           /\ (journal \in Transaction /\ Knows(journal))'
           /\ held' # None => /\ held' \in Transaction /\ Knows(held)'
                              /\ held'.created_directories = journal'.created_directories
<1>1. FilesOK /\ CopiesOK /\ tx \in Transaction /\ tx # None /\ at' = at /\ held' = held
  BY TypeParts, NoneAssumption DEF OwnedInv, Fits, files
<1>2. FilesOK' /\ Ours' = Ours
  BY <1>1, FilesStill DEF people
<1>3. (journal \in Transaction /\ Knows(journal))'
  BY <1>1 DEF Fits, Knows
<1>4. held # None => /\ held' \in Transaction /\ Knows(held)'
                     /\ held'.created_directories = journal'.created_directories
  BY <1>1 DEF OwnedInv, RecordsInv, Knows, Fits, CopiesOK
<1> QED
  BY <1>1, <1>2, <1>3, <1>4

LEMMA SaveGoesOn ==
    ASSUME OwnedInv, NEW tx, NEW next, NEW rest, Save(tx, next, rest),
           Fits(tx), CallOK(tx, next, rest, tx), ProofFirst(next),
           Abandoned => next \in RollbackPcs
    PROVE  OwnedInv'
<1>1. CASE WriteFails(tx)
  BY <1>1, WriteFailsEnds DEF Save
<1>2. CASE journal' = tx /\ Goto(tx, next, rest) /\ UNCHANGED <<held, cancel, own>>
  <2>1. /\ mem' = tx /\ pc' = next /\ todo' = rest /\ journal' = tx /\ held' = held
        /\ own' = own /\ cancel' = cancel /\ late' = late /\ UNCHANGED <<files, people>>
        /\ UNCHANGED <<survivor, user, remade, losses, kind, at, dir>>
    BY <1>2 DEF Save, Goto, people, files
  <2>2. /\ FilesOK /\ PeopleOK /\ next # "idle" /\ tx \in Transaction /\ Knows(tx)
    BY TypeParts DEF OwnedInv, CallOK, ApplyPcs, RollbackPcs, Fits
  <2>3. /\ FilesOK' /\ Ours' = Ours /\ tx # None
        /\ (journal \in Transaction /\ Knows(journal))'
        /\ held' # None => /\ held' \in Transaction /\ Knows(held)'
                           /\ held'.created_directories = journal'.created_directories
    BY <2>1, Written
  <2>4. TypeOK'
    <3>1. CopiesOK'
      BY <2>1, <2>2, <2>3 DEF CopiesOK
    <3>2. PeopleOK'
      BY <2>1, <2>2 DEF PeopleOK
    <3> QED
      BY <2>3, <3>1, <3>2 DEF TypeOK, FilesOK, CopiesOK, PeopleOK
  <2>5. RecordsInv'
    BY <2>1, <2>2, <2>3 DEF RecordsInv, Knows
  <2>6. CallInv'
    <3>1. CallOK(mem, pc, todo, journal)'
      BY <2>1, <2>3, CallStill
    <3> QED
      BY <2>1, <2>3, <3>1 DEF CallInv
  <2>7. UserInv'
    <3>1. Claims' \subseteq Claims
      BY <2>1 DEF Claims, Claimed, Fits
    <3> QED
      BY <2>1, <3>1, UserStill
  <2>8. OursInv'
    <3>1. CASE Abandoned
      BY <2>1, <2>3, <3>1 DEF Abandoned, OursInv, Fits
    <3>2. CASE ~Abandoned
      BY <2>1, <2>3, <3>2 DEF OwnedInv, OursInv, Claimed, Fits
    <3> QED
      BY <3>1, <3>2
  <2>9. LateInv'
    BY <2>1, LateStill
  <2> QED
    BY <2>4, <2>5, <2>6, <2>7, <2>8, <2>9 DEF OwnedInv
<1> QED
  BY <1>1, <1>2 DEF Save

\* A refused organisation writes a record without its claims.
Dropped(tx) ==
  /\ tx \in Transaction /\ Knows(tx) /\ tx.state = "ApplyFailed"
  /\ tx.created_directories = <<>>
  /\ kind = "organise" /\ held = None /\ ~own

LEMMA SaveReturns ==
    ASSUME OwnedInv, NEW tx, NEW ok, SaveAndReturn(tx, ok),
           Fits(tx) \/ (Dropped(tx) /\ ~ok), ok => ~Abandoned
    PROVE  OwnedInv'
<1>1. CASE WriteFails(tx)
  BY <1>1, WriteFailsEnds DEF SaveAndReturn, Dropped
<1>2. CASE /\ journal' = tx
           /\ Return
           /\ held' = IF ok /\ kind = "organise" THEN tx ELSE held
  <2>1. /\ mem' = None /\ pc' = "idle" /\ own' = FALSE /\ cancel' = FALSE /\ journal' = tx
        /\ late' = late /\ UNCHANGED <<files, people>>
        /\ UNCHANGED <<survivor, user, remade, losses, kind, at, dir>>
    BY <1>2 DEF SaveAndReturn, Return, Goto, people, files
  <2>2. /\ FilesOK /\ CopiesOK /\ PeopleOK /\ tx \in Transaction /\ tx # None /\ Knows(tx)
    BY TypeParts, NoneAssumption DEF OwnedInv, Fits, Dropped
  <2>3. FilesOK' /\ Ours' = Ours
    BY <2>1, <2>2, FilesStill
  <2>4. held' # None => /\ held' \in Transaction /\ Knows(held')
                        /\ held'.created_directories = tx.created_directories
    BY <1>2, <2>2 DEF Fits, Dropped, OwnedInv, RecordsInv, CopiesOK
  <2>5. TypeOK'
    <3>1. CopiesOK'
      BY <2>1, <2>2, <2>4 DEF CopiesOK
    <3>2. PeopleOK'
      BY <2>1, <2>2 DEF PeopleOK
    <3> QED
      BY <2>3, <3>1, <3>2 DEF TypeOK, FilesOK, CopiesOK, PeopleOK
  <2>6. RecordsInv'
    BY <2>1, <2>2, <2>3, <2>4 DEF RecordsInv, Knows
  <2>7. CallInv'
    BY <2>1 DEF CallInv
  <2>8. UserInv'
    <3>1. Claimed(tx) \subseteq Claims
      BY EmptyRange DEF Fits, Dropped, Claimed
    <3>2. Claims' \subseteq Claims
      BY <1>2, <2>1, <3>1 DEF Claims, Claimed
    <3> QED
      BY <2>1, <3>2, UserStill
  <2>9. OursInv'
    <3>1. CASE Dropped(tx) /\ ~ok
      <4>1. Abandoned'
        BY <1>2, <2>1, <2>2, <3>1 DEF Abandoned, Dropped
      <4> QED
        BY <4>1 DEF OursInv
    <3>2. CASE Fits(tx) /\ Abandoned
      BY <1>2, <2>1, <2>2, <3>2 DEF Abandoned, OursInv, Fits
    <3>3. CASE Fits(tx) /\ ~Abandoned
      BY <2>1, <2>3, <3>3 DEF OwnedInv, OursInv, Claimed, Fits
    <3> QED
      BY <3>1, <3>2, <3>3
  <2>10. LateInv'
    BY <2>1, LateStill DEF ProofFirst
  <2> QED
    BY <2>5, <2>6, <2>7, <2>8, <2>9, <2>10 DEF OwnedInv
<1> QED
  BY <1>1, <1>2 DEF SaveAndReturn

-----------------------------------------------------------------------------
(* Updates of a copy *)

LEMMA StateUpdate ==
    ASSUME NEW tx \in Transaction, NEW s \in TransactionState
    PROVE  /\ WithState(tx, s) \in Transaction /\ WithState(tx, s).state = s
           /\ WithState(tx, s).entry = tx.entry
           /\ WithState(tx, s).created_directories = tx.created_directories
           /\ Knows(tx) /\ s # "RolledBack" => Knows(WithState(tx, s))
BY DEF Transaction, WithState, Knows

LEMMA EntryUpdate ==
    ASSUME NEW tx \in Transaction, NEW e \in Files, NEW s \in EntryState
    PROVE  /\ WithEntry(tx, e, s) \in Transaction /\ WithEntry(tx, e, s).state = tx.state
           /\ WithEntry(tx, e, s).entry[e] = s
           /\ \A f \in Files : f # e => WithEntry(tx, e, s).entry[f] = tx.entry[f]
           /\ WithEntry(tx, e, s).created_directories = tx.created_directories
<1>1. /\ WithEntry(tx, e, s) \in Transaction /\ WithEntry(tx, e, s).state = tx.state
      /\ WithEntry(tx, e, s).entry = [tx.entry EXCEPT ![e] = s]
      /\ WithEntry(tx, e, s).created_directories = tx.created_directories
      /\ tx.entry \in [Files -> EntryState]
  BY DEF Transaction, WithEntry
<1> QED
  BY <1>1

LEMMA EntryKnows ==
    ASSUME NEW tx \in Transaction, NEW e \in Files, NEW s \in EntryState,
           Knows(tx), tx.state # "RolledBack",
           at[e] = "home" => s \in {"Applying", "Applied", "RollingBack", "RollbackFailed"}
    PROVE  Knows(WithEntry(tx, e, s))
<1>1. /\ WithEntry(tx, e, s).state = tx.state /\ WithEntry(tx, e, s).entry[e] = s
      /\ \A f \in Files : f # e => WithEntry(tx, e, s).entry[f] = tx.entry[f]
  BY EntryUpdate
<1> QED
  BY <1>1 DEF Knows

LEMMA ClaimsUpdate ==
    ASSUME NEW tx \in Transaction, NEW c \in Seq(Dirs)
    PROVE  LET x == [tx EXCEPT !.created_directories = c]
           IN  /\ x \in Transaction /\ x.state = tx.state /\ x.entry = tx.entry
               /\ x.created_directories = c
               /\ Knows(tx) => Knows(x)
BY DEF Transaction, Knows

\* What the invariant says of a running call.
LEMMA Running ==
    ASSUME OwnedInv, pc # "idle"
    PROVE  /\ mem \in Transaction /\ mem # None /\ Knows(mem)
           /\ journal \in Transaction /\ journal # None /\ Knows(journal)
           /\ CallOK(mem, pc, todo, journal) /\ FilesOK /\ Fits(mem)
<1>1. /\ mem \in Transaction /\ mem # None /\ Knows(mem)
      /\ journal \in Transaction /\ journal # None /\ Knows(journal)
      /\ CallOK(mem, pc, todo, journal) /\ FilesOK
  BY TypeParts DEF OwnedInv, TypeOK, CallInv, RecordsInv
<1>2. Fits(mem)
  BY <1>1, CallFits
<1> QED
  BY <1>1, <1>2

LEMMA ApplyRunning ==
    ASSUME OwnedInv, pc \in ApplyPcs
    PROVE  /\ ApplyOK(mem, pc, todo, journal) /\ TodoOK(mem, pc, todo) /\ ~own /\ held = None
           /\ mem.state \in {"Applying", "ApplyFailed"} /\ ~Abandoned
<1>1. pc # "idle" /\ pc \notin RollbackPcs
  BY DEF ApplyPcs, RollbackPcs
<1>2. ApplyOK(mem, pc, todo, journal) /\ TodoOK(mem, pc, todo)
  BY <1>1, Running DEF CallOK
<1> QED
  BY <1>1, <1>2 DEF ApplyOK, Abandoned

\* An apply that stays within its copy.
LEMMA ApplyFits ==
    ASSUME OwnedInv, pc \in ApplyPcs, NEW s \in TransactionState \ {"RolledBack"}
    PROVE  Fits(WithState(mem, s))
<1>1. pc # "idle" /\ pc \notin RollbackPcs
  BY DEF ApplyPcs, RollbackPcs
<1> QED
  BY <1>1, Running, StateUpdate, CallFits

-----------------------------------------------------------------------------
(* The steps of an apply that leave the files alone *)

\* A failed step ends an apply with a last write.
LEMMA FailReturns ==
    ASSUME OwnedInv, pc \in ApplyPcs, SaveAndReturn(WithState(mem, "ApplyFailed"), FALSE)
    PROVE  OwnedInv'
<1>1. Fits(WithState(mem, "ApplyFailed"))
  BY ApplyFits DEF TransactionState, EntryState
<1> QED
  BY <1>1, SaveReturns

LEMMA InvBeginApply == OwnedInv /\ BeginApply => OwnedInv'
<1> SUFFICES ASSUME OwnedInv, BeginApply PROVE OwnedInv'
  OBVIOUS
<1> DEFINE tx == WithState(Built, "Applying")
           next == IF kind = "quarantine" THEN "proof" ELSE "dirs"
<1>1. /\ Built \in Transaction /\ Built.created_directories = <<>>
      /\ \A e \in Files : Built.entry[e] = "Planned"
  BY DEF Built, Transaction, TransactionState, EntryState
<1>2. /\ tx \in Transaction /\ tx.state = "Applying" /\ tx.created_directories = <<>>
      /\ \A e \in Files : tx.entry[e] = "Planned"
  BY <1>1, StateUpdate DEF TransactionState, EntryState
<1>3. /\ journal = None /\ pc = "idle" /\ held = None /\ ~own /\ Ours = {} /\ ~Abandoned
      /\ \A e \in Files : at[e] = "source"
  BY DEF BeginApply, OwnedInv, RecordsInv, Abandoned
<1>4. tx # None /\ Claimed(tx) = {} /\ Claimed(journal) = {}
  BY <1>2, <1>3, NoneAssumption, EmptyRange DEF Claimed
<1> HIDE DEF tx
<1>5. Fits(tx)
  BY <1>2, <1>3, <1>4 DEF Fits, Knows
<1>6. CallOK(tx, next, Planned, tx)
  BY <1>2, <1>3, <1>4, OwnedMovesAssumption
  DEF CallOK, TodoOK, ApplyOK, ApplyPcs, RollbackPcs, DirPcs, FilePcs
<1>7. Save(tx, next, Planned) /\ ProofFirst(next)
  BY DEF BeginApply, tx, ProofFirst
<1> QED
  BY <1>3, <1>5, <1>6, <1>7, SaveGoesOn

LEMMA InvBatchProof == OwnedInv /\ BatchProof => OwnedInv'
<1> SUFFICES ASSUME OwnedInv, BatchProof PROVE OwnedInv'
  OBVIOUS
<1>1. pc = "proof" /\ pc \in ApplyPcs /\ pc # "idle" /\ pc \notin RollbackPcs
  BY DEF BatchProof, ApplyPcs, RollbackPcs
<1>2. CASE survivor /\ ~cancel
  <2>1. CallOK(mem, "dirs", Planned, journal)
    BY <1>1, ApplyRunning, OwnedMovesAssumption
    DEF CallOK, TodoOK, ApplyOK, ApplyPcs, RollbackPcs, DirPcs, FilePcs
  <2> QED
    BY <1>1, <1>2, <2>1, Running, GoesOn DEF BatchProof, ProofFirst
<1>3. CASE ~(survivor /\ ~cancel)
  BY <1>1, <1>3, FailReturns DEF BatchProof
<1> QED
  BY <1>2, <1>3

LEMMA InvClaimDir == OwnedInv /\ ClaimDir => OwnedInv'
<1> SUFFICES ASSUME OwnedInv, ClaimDir PROVE OwnedInv'
  OBVIOUS
<1>1. pc = "claim" /\ pc \in ApplyPcs /\ pc # "idle"
  BY DEF ClaimDir, ApplyPcs
<1>2. Tail(todo) \in Seq(Dirs)
  BY <1>1, ApplyRunning, TailRange DEF TodoOK, DirPcs
<1>3. CallOK(mem, "dirs", Tail(todo), mem)
  BY <1>1, <1>2, ApplyRunning
  DEF CallOK, TodoOK, ApplyOK, ApplyPcs, RollbackPcs, DirPcs, FilePcs
<1> QED
  BY <1>1, <1>3, Running, ApplyRunning, SaveGoesOn DEF ClaimDir, ProofFirst

LEMMA InvDirExists == OwnedInv /\ DirExists => OwnedInv'
<1> SUFFICES ASSUME OwnedInv, DirExists PROVE OwnedInv'
  OBVIOUS
<1>1. pc = "dirs" /\ pc \in ApplyPcs /\ pc # "idle" /\ pc \notin RollbackPcs /\ todo # <<>>
  BY DEF DirExists, ApplyPcs, RollbackPcs
<1>2. Tail(todo) \in Seq(Dirs)
  BY <1>1, ApplyRunning, TailRange DEF TodoOK, DirPcs
<1>3. CallOK(mem, "dirs", Tail(todo), journal)
  BY <1>1, <1>2, ApplyRunning
  DEF CallOK, TodoOK, ApplyOK, ApplyPcs, RollbackPcs, DirPcs, FilePcs
<1> QED
  BY <1>1, <1>3, Running, GoesOn DEF DirExists, ProofFirst

LEMMA InvMakeDirFails == OwnedInv /\ MakeDirFails => OwnedInv'
BY FailReturns DEF MakeDirFails, ApplyPcs

LEMMA InvDirsDone == OwnedInv /\ DirsDone => OwnedInv'
<1> SUFFICES ASSUME OwnedInv, DirsDone PROVE OwnedInv'
  OBVIOUS
<1>1. pc = "dirs" /\ pc \in ApplyPcs /\ pc # "idle" /\ pc \notin RollbackPcs
  BY DEF DirsDone, ApplyPcs, RollbackPcs
<1>2. CallOK(mem, "preflight", <<>>, journal)
  BY <1>1, ApplyRunning
  DEF CallOK, TodoOK, ApplyOK, ApplyPcs, RollbackPcs, DirPcs, FilePcs
<1> QED
  BY <1>1, <1>2, Running, GoesOn DEF DirsDone, ProofFirst

\* The loop over the entries starts with every file at its source.
LEMMA LoopStarts ==
    ASSUME OwnedInv, pc \in {"preflight", "executor"}, Save(mem, "entry", Entries)
    PROVE  OwnedInv'
<1>1. pc \in ApplyPcs /\ pc # "idle"
  BY DEF ApplyPcs
<1>2. Range(Entries) \subseteq Files
  BY DEF Files
<1>3. CallOK(mem, "entry", Entries, mem)
  BY <1>1, <1>2, ApplyRunning, OwnedMovesAssumption
  DEF CallOK, TodoOK, ApplyOK, ApplyPcs, RollbackPcs, DirPcs, FilePcs
<1> QED
  BY <1>1, <1>3, Running, ApplyRunning, SaveGoesOn DEF ProofFirst

LEMMA InvPreflightPasses == OwnedInv /\ PreflightPasses => OwnedInv'
<1> SUFFICES ASSUME OwnedInv, PreflightPasses PROVE OwnedInv'
  OBVIOUS
<1>1. pc = "preflight" /\ pc \in ApplyPcs /\ pc # "idle" /\ pc \notin RollbackPcs
  BY DEF PreflightPasses, ApplyPcs, RollbackPcs
<1>2. CASE kind = "quarantine"
  BY <1>1, <1>2, LoopStarts DEF PreflightPasses
<1>3. CASE kind # "quarantine"
  <2>1. CallOK(mem, "executor", <<>>, journal)
    BY <1>1, ApplyRunning
    DEF CallOK, TodoOK, ApplyOK, ApplyPcs, RollbackPcs, DirPcs, FilePcs
  <2> QED
    BY <1>1, <1>3, <2>1, Running, GoesOn DEF PreflightPasses, ProofFirst
<1> QED
  BY <1>2, <1>3

LEMMA InvPreflightConflict == OwnedInv /\ PreflightConflict => OwnedInv'
<1> SUFFICES ASSUME OwnedInv, PreflightConflict PROVE OwnedInv'
  OBVIOUS
<1>1. pc = "preflight" /\ pc \in ApplyPcs /\ pc # "idle" /\ pc \notin RollbackPcs
  BY DEF PreflightConflict, ApplyPcs, RollbackPcs
<1>2. CASE kind = "quarantine"
  BY <1>1, <1>2, FailReturns DEF PreflightConflict
<1>3. CASE kind # "quarantine"
  <2> DEFINE rest == Reverse(mem.created_directories)
  <2>1. mem.created_directories \in Seq(Dirs) /\ kind = "organise"
    BY <1>1, <1>3, Running DEF Transaction, FilesOK
  <2>2. rest \in Seq(Dirs) /\ Range(rest) \subseteq Range(mem.created_directories)
    BY <2>1, ReverseRange
  <2> HIDE DEF rest
  <2>3. CallOK(mem, "cleanUp", rest, journal)
    BY <1>1, <2>1, <2>2, ApplyRunning
    DEF CallOK, TodoOK, ApplyOK, ApplyPcs, RollbackPcs, DirPcs, FilePcs
  <2>4. /\ Goto(mem, "cleanUp", rest)
        /\ UNCHANGED <<files, people, journal, held, own, cancel, late>>
    BY <1>3 DEF PreflightConflict, rest
  <2> QED
    BY <1>1, <2>3, <2>4, Running, GoesOn DEF ProofFirst
<1> QED
  BY <1>2, <1>3

LEMMA InvDropClaims == OwnedInv /\ DropClaims => OwnedInv'
<1> SUFFICES ASSUME OwnedInv, DropClaims PROVE OwnedInv'
  OBVIOUS
<1> DEFINE tx == [WithState(mem, "ApplyFailed") EXCEPT !.created_directories = <<>>]
<1>1. pc = "cleanUp" /\ pc \in ApplyPcs /\ pc # "idle"
  BY DEF DropClaims, ApplyPcs
<1>2. /\ WithState(mem, "ApplyFailed") \in Transaction
      /\ WithState(mem, "ApplyFailed").state = "ApplyFailed"
      /\ Knows(WithState(mem, "ApplyFailed"))
  BY <1>1, Running, StateUpdate DEF TransactionState, EntryState
<1>3. tx \in Transaction /\ tx.state = "ApplyFailed" /\ tx.created_directories = <<>> /\ Knows(tx)
  <2>1. <<>> \in Seq(Dirs)
    OBVIOUS
  <2> QED
    BY <1>2, <2>1, ClaimsUpdate
<1>4. SaveAndReturn(tx, FALSE)
  BY DEF DropClaims
<1> HIDE DEF tx
<1>5. Dropped(tx)
  BY <1>1, <1>3, ApplyRunning DEF Dropped, ApplyOK
<1> QED
  BY <1>4, <1>5, SaveReturns

LEMMA InvExecutorRefuses == OwnedInv /\ ExecutorRefuses => OwnedInv'
BY Ends DEF ExecutorRefuses

LEMMA InvExecutorStarts == OwnedInv /\ ExecutorStarts => OwnedInv'
BY LoopStarts DEF ExecutorStarts

LEMMA InvEntryCancelled == OwnedInv /\ EntryCancelled => OwnedInv'
<1> SUFFICES ASSUME OwnedInv, EntryCancelled PROVE OwnedInv'
  OBVIOUS
<1>1. pc \in ApplyPcs /\ SaveAndReturn(WithState(mem, "ApplyFailed"), TRUE)
  BY DEF EntryCancelled, ApplyPcs
<1>2. Fits(WithState(mem, "ApplyFailed"))
  BY <1>1, ApplyFits DEF TransactionState, EntryState
<1> QED
  BY <1>1, <1>2, ApplyRunning, SaveReturns

LEMMA InvFinishApply == OwnedInv /\ FinishApply => OwnedInv'
<1> SUFFICES ASSUME OwnedInv, FinishApply PROVE OwnedInv'
  OBVIOUS
<1> DEFINE tx == IF mem.state = "Applying" THEN WithState(mem, "Applied") ELSE mem
<1>1. pc \in ApplyPcs /\ pc # "idle" /\ SaveAndReturn(tx, TRUE)
  BY DEF FinishApply, ApplyPcs
<1>2. Fits(WithState(mem, "Applied")) /\ Fits(mem)
  BY <1>1, ApplyFits, Running DEF TransactionState, EntryState
<1>3. Fits(tx)
  BY <1>2
<1> HIDE DEF tx
<1> QED
  BY <1>1, <1>3, ApplyRunning, SaveReturns

\* An entry that fails before its file is moved is still at its source.
LEMMA EntryFails ==
    ASSUME OwnedInv, pc \in {"entry", "move"}, todo # <<>>,
           Goto(WithState(WithEntry(mem, Head(todo), "ApplyFailed"), "ApplyFailed"), "fail", todo),
           UNCHANGED <<files, people, journal, held, own, cancel, late>>
    PROVE  OwnedInv'
<1> DEFINE t1 == WithEntry(mem, Head(todo), "ApplyFailed")
           tx == WithState(t1, "ApplyFailed")
<1>1. pc \in ApplyPcs /\ pc # "idle" /\ pc \notin RollbackPcs
  BY DEF ApplyPcs, RollbackPcs
<1>2. /\ todo \in Seq(Files) /\ Head(todo) \in Files /\ at[Head(todo)] = "source"
  BY <1>1, ApplyRunning, TailRange DEF TodoOK, ApplyOK, FilePcs
<1>3. /\ t1 \in Transaction /\ Knows(t1) /\ t1.entry[Head(todo)] = "ApplyFailed"
      /\ \A f \in Files : f # Head(todo) => t1.entry[f] = mem.entry[f]
      /\ t1.created_directories = mem.created_directories
  <2>1. /\ mem \in Transaction /\ Knows(mem) /\ mem.state # "RolledBack"
        /\ "ApplyFailed" \in EntryState
    BY <1>1, Running, ApplyRunning DEF EntryState
  <2> QED
    BY <1>2, <2>1, EntryUpdate, EntryKnows
<1> HIDE DEF t1
<1>4. /\ tx \in Transaction /\ Knows(tx) /\ tx.state = "ApplyFailed" /\ tx.entry = t1.entry
      /\ tx.created_directories = mem.created_directories
  BY <1>3, StateUpdate DEF TransactionState, EntryState
<1> HIDE DEF tx
<1>5. Fits(tx)
  BY <1>1, <1>4, CallFits
<1>6. CallOK(tx, "fail", todo, journal)
  BY <1>1, <1>2, <1>3, <1>4, ApplyRunning
  DEF CallOK, TodoOK, ApplyOK, ApplyPcs, RollbackPcs, DirPcs, FilePcs
<1>7. Goto(tx, "fail", todo)
  BY DEF tx, t1
<1> QED
  BY <1>1, <1>5, <1>6, <1>7, GoesOn DEF ProofFirst

LEMMA InvCheckEntry == OwnedInv /\ CheckEntry => OwnedInv'
<1> SUFFICES ASSUME OwnedInv, CheckEntry PROVE OwnedInv'
  OBVIOUS
<1>1. pc = "entry" /\ pc \in ApplyPcs /\ pc # "idle" /\ pc \notin RollbackPcs /\ todo # <<>>
  BY DEF CheckEntry, ApplyPcs, RollbackPcs
<1>2. CASE reprove_entry_against_survivor /\ dir[Home(Head(todo))] # "none"
  <2>1. CallOK(mem, "checkpoint", todo, journal)
    BY <1>1, ApplyRunning
    DEF CallOK, TodoOK, ApplyOK, ApplyPcs, RollbackPcs, DirPcs, FilePcs
  <2> QED
    BY <1>1, <1>2, <2>1, Running, GoesOn DEF CheckEntry, ProofFirst
<1>3. CASE ~(reprove_entry_against_survivor /\ dir[Home(Head(todo))] # "none")
  BY <1>1, <1>3, EntryFails DEF CheckEntry
<1> QED
  BY <1>2, <1>3

LEMMA InvMoveFails == OwnedInv /\ MoveFails => OwnedInv'
<1> SUFFICES ASSUME OwnedInv, MoveFails PROVE OwnedInv'
  OBVIOUS
<1>1. pc = "move" /\ pc \in ApplyPcs
  BY DEF MoveFails, ApplyPcs
<1>2. todo # <<>>
  BY <1>1, ApplyRunning DEF TodoOK
<1> QED
  BY <1>1, <1>2, EntryFails DEF MoveFails

LEMMA InvCheckpoint == OwnedInv /\ Checkpoint => OwnedInv'
<1> SUFFICES ASSUME OwnedInv, Checkpoint PROVE OwnedInv'
  OBVIOUS
<1> DEFINE tx == WithEntry(mem, Head(todo), "Applying")
<1>1. pc = "checkpoint" /\ pc \in ApplyPcs /\ pc # "idle" /\ pc \notin RollbackPcs
  BY DEF Checkpoint, ApplyPcs, RollbackPcs
<1>2. todo # <<>> /\ todo \in Seq(Files) /\ Head(todo) \in Files
  BY <1>1, ApplyRunning, TailRange DEF TodoOK, FilePcs
<1>3. /\ tx \in Transaction /\ Knows(tx) /\ tx.state = mem.state
      /\ tx.entry[Head(todo)] = "Applying"
      /\ \A f \in Files : f # Head(todo) => tx.entry[f] = mem.entry[f]
      /\ tx.created_directories = mem.created_directories
  <2>1. /\ mem \in Transaction /\ Knows(mem) /\ mem.state # "RolledBack"
        /\ "Applying" \in EntryState
    BY <1>1, Running, ApplyRunning DEF EntryState
  <2> QED
    BY <1>2, <2>1, EntryUpdate, EntryKnows
<1> HIDE DEF tx
<1>4. Fits(tx)
  BY <1>1, <1>3, CallFits
<1>5. CallOK(tx, "move", todo, tx)
  BY <1>1, <1>2, <1>3, ApplyRunning
  DEF CallOK, TodoOK, ApplyOK, ApplyPcs, RollbackPcs, DirPcs, FilePcs
<1>6. Save(tx, "move", todo)
  BY DEF Checkpoint, tx
<1> QED
  BY <1>1, <1>4, <1>5, <1>6, ApplyRunning, SaveGoesOn DEF ProofFirst

LEMMA InvRecord == OwnedInv /\ Record => OwnedInv'
<1> SUFFICES ASSUME OwnedInv, Record PROVE OwnedInv'
  OBVIOUS
<1>1. pc = "record" /\ pc \in ApplyPcs /\ pc # "idle"
  BY DEF Record, ApplyPcs
<1>2. todo # <<>> /\ todo \in Seq(Files) /\ IsInjective(todo)
  BY <1>1, ApplyRunning DEF TodoOK, ApplyOK, FilePcs
<1>3. Tail(todo) \in Seq(Files) /\ IsInjective(Tail(todo))
  BY <1>2, TailRange, InjectiveTail
<1>4. CallOK(mem, "entry", Tail(todo), mem)
  BY <1>1, <1>3, ApplyRunning
  DEF CallOK, TodoOK, ApplyOK, ApplyPcs, RollbackPcs, DirPcs, FilePcs
<1> QED
  BY <1>1, <1>4, Running, ApplyRunning, SaveGoesOn DEF Record, ProofFirst

LEMMA InvRecordFailure == OwnedInv /\ RecordFailure => OwnedInv'
<1> SUFFICES ASSUME OwnedInv, RecordFailure PROVE OwnedInv'
  OBVIOUS
<1>1. pc = "fail" /\ pc \in ApplyPcs /\ pc # "idle"
  BY DEF RecordFailure, ApplyPcs
<1>2. <<>> \in Seq(Files) /\ IsInjective(<<>>) /\ Range(<<>>) = {}
  BY EmptyRange DEF IsInjective
<1>3. CallOK(mem, "entry", <<>>, mem)
  BY <1>1, <1>2, ApplyRunning
  DEF CallOK, TodoOK, ApplyOK, ApplyPcs, RollbackPcs, DirPcs, FilePcs
<1> QED
  BY <1>1, <1>3, Running, ApplyRunning, SaveGoesOn DEF RecordFailure, ProofFirst

-----------------------------------------------------------------------------
(* The steps that change the directories *)

LEMMA Places ==
    ASSUME FilesOK
    PROVE  (\A e \in Files : Home(e) \in Dirs) /\ (\A d \in Dirs : Parents(d) \subseteq Dirs)
<1>1. Head(Planned) \in Dirs /\ Last(Planned) \in Dirs
  BY OwnedMovesAssumption, TailRange DEF Last
<1> QED
  BY <1>1, OwnedMovesAssumption DEF Home, Parents, QuarantineRoot

LEMMA DirRemoved ==
    ASSUME FilesOK, NEW d \in Dirs, dir[d] # "none", Empty(d),
           dir' = [dir EXCEPT ![d] = "none"], UNCHANGED <<at, extra, kind>>
    PROVE  FilesOK' /\ Ours' \subseteq Ours /\ \A c \in Dirs : dir'[c] = "user" => dir[c] = "user"
<1>1. /\ dir \in [Dirs -> {"none", "user", "ours"}] /\ at' = at /\ extra' = extra /\ kind' = kind
      /\ dir'[d] = "none" /\ \A c \in Dirs : c # d => dir'[c] = dir[c]
      /\ dir' \in [Dirs -> {"none", "user", "ours"}]
  BY DEF FilesOK
<1>2. /\ \A e \in Files : Home(e)' = Home(e) /\ Home(e) \in Dirs
      /\ \A c \in Dirs : Parents(c)' = Parents(c) /\ Parents(c) \subseteq Dirs
  BY <1>1, Places DEF Home, Parents
<1>3. /\ d \notin extra
      /\ \A e \in Files : at[e] = "home" => Home(e) # d
      /\ \A c \in Dirs : d \in Parents(c) => dir[c] = "none"
  BY DEF Empty
<1>4. \A e \in Files : at'[e] = "home" => dir'[Home(e)'] # "none"
  BY <1>1, <1>2, <1>3 DEF FilesOK
<1>5. \A c \in Dirs : dir'[c] # "none" => \A p \in Parents(c)' : dir'[p] # "none"
  BY <1>1, <1>2, <1>3 DEF FilesOK
<1>6. FilesOK'
  BY <1>1, <1>3, <1>4, <1>5 DEF FilesOK
<1> QED
  BY <1>1, <1>6 DEF Ours

LEMMA DirMade ==
    ASSUME FilesOK, NEW d \in Dirs, CanCreate(d), NEW w \in {"user", "ours"},
           dir' = [dir EXCEPT ![d] = w], UNCHANGED <<at, extra, kind>>
    PROVE  FilesOK' /\ dir'[d] = w /\ \A c \in Dirs : c # d => dir'[c] = dir[c]
<1>1. /\ dir \in [Dirs -> {"none", "user", "ours"}] /\ at' = at /\ extra' = extra /\ kind' = kind
      /\ dir'[d] = w /\ w # "none" /\ \A c \in Dirs : c # d => dir'[c] = dir[c]
      /\ dir' \in [Dirs -> {"none", "user", "ours"}]
  BY DEF FilesOK
<1>2. /\ \A e \in Files : Home(e)' = Home(e) /\ Home(e) \in Dirs
      /\ \A c \in Dirs : Parents(c)' = Parents(c) /\ Parents(c) \subseteq Dirs
  BY <1>1, Places DEF Home, Parents
<1>3. \A e \in Files : at'[e] = "home" => dir'[Home(e)'] # "none"
  BY <1>1, <1>2 DEF FilesOK
<1>4. \A c \in Dirs : dir'[c] # "none" => \A p \in Parents(c)' : dir'[p] # "none"
  BY <1>1, <1>2 DEF FilesOK, CanCreate
<1>5. FilesOK'
  BY <1>1, <1>3, <1>4 DEF FilesOK
<1> QED
  BY <1>1, <1>5

\* One directory of a call's list is removed, or left where it is.
LEMMA CallRemoves ==
    ASSUME OwnedInv, pc \in {"cleanUp", "rmDirs"}, todo # <<>>,
           \/ /\ dir[Head(todo)] # "none" /\ Empty(Head(todo))
              /\ dir' = [dir EXCEPT ![Head(todo)] = "none"]
           \/ UNCHANGED dir,
           Goto(mem, pc, Tail(todo)),
           UNCHANGED <<at, extra, people, journal, held, own, cancel, late>>
    PROVE  OwnedInv'
<1>1. /\ mem' = mem /\ pc' = pc /\ todo' = Tail(todo) /\ journal' = journal /\ held' = held
      /\ own' = own /\ cancel' = cancel /\ late' = late /\ at' = at /\ extra' = extra
      /\ UNCHANGED people /\ UNCHANGED <<survivor, user, remade, losses, kind>> /\ pc # "idle"
  BY DEF Goto, people
<1>2. /\ todo \in Seq(Dirs) /\ Range(todo) \subseteq Range(mem.created_directories)
      /\ FilesOK /\ CopiesOK /\ PeopleOK /\ journal # None
  BY <1>1, TypeParts, Running DEF OwnedInv, CallOK, TodoOK, DirPcs
<1>3. /\ Head(todo) \in Dirs /\ Tail(todo) \in Seq(Dirs)
      /\ Range(Tail(todo)) \subseteq Range(mem.created_directories)
  BY <1>2, TailRange
<1>4. FilesOK' /\ Ours' \subseteq Ours /\ \A c \in Dirs : dir'[c] = "user" => dir[c] = "user"
  <2>1. CASE /\ dir[Head(todo)] # "none" /\ Empty(Head(todo))
             /\ dir' = [dir EXCEPT ![Head(todo)] = "none"]
    BY <1>1, <1>2, <1>3, <2>1, DirRemoved
  <2>2. CASE UNCHANGED dir
    BY <1>1, <1>2, <2>2, FilesStill DEF files
  <2> QED
    BY <2>1, <2>2
<1>5. TypeOK'
  <2>1. CopiesOK'
    BY <1>1, <1>2 DEF CopiesOK
  <2>2. PeopleOK'
    BY <1>1, <1>2 DEF PeopleOK
  <2> QED
    BY <1>4, <2>1, <2>2 DEF TypeOK, FilesOK, CopiesOK, PeopleOK
<1>6. RecordsInv'
  BY <1>1, <1>2 DEF OwnedInv, RecordsInv, Knows
<1>7. CallInv'
  <2>1. CallOK(mem, pc, Tail(todo), journal)
    BY <1>1, <1>3, Running
    DEF CallOK, TodoOK, ApplyOK, RollbackOK, ApplyPcs, RollbackPcs, DirPcs, FilePcs
  <2>2. CallOK(mem, pc, todo, journal)'
    BY <1>1, <1>4, <2>1, CallStill
  <2> QED
    BY <1>1, <1>2, <2>2 DEF CallInv
<1>8. UserInv'
  <2>1. \A tx \in Transaction \cup {None} : Claimed(tx) \subseteq Dirs
    BY DEF Claimed, Transaction, Range
  <2> QED
    BY <1>1, <1>2, <1>4, <2>1 DEF OwnedInv, UserInv, Claimed, CopiesOK
<1>9. OursInv'
  BY <1>1, <1>4 DEF OwnedInv, OursInv, Abandoned, Claimed
<1>10. LateInv'
  BY <1>1, LateStill DEF ProofFirst
<1> QED
  BY <1>5, <1>6, <1>7, <1>8, <1>9, <1>10 DEF OwnedInv

LEMMA InvCleanUpDir == OwnedInv /\ CleanUpDir => OwnedInv'
<1> SUFFICES ASSUME OwnedInv, CleanUpDir PROVE OwnedInv'
  OBVIOUS
<1>1. Goto(mem, pc, Tail(todo))
  BY DEF CleanUpDir
<1> QED
  BY <1>1, CallRemoves DEF CleanUpDir

LEMMA InvRemoveOwnedDir == OwnedInv /\ RemoveOwnedDir => OwnedInv'
<1> SUFFICES ASSUME OwnedInv, RemoveOwnedDir PROVE OwnedInv'
  OBVIOUS
<1>1. Goto(mem, pc, Tail(todo))
  BY DEF RemoveOwnedDir
<1> QED
  BY <1>1, CallRemoves DEF RemoveOwnedDir, Removable

LEMMA InvMakeDir == OwnedInv /\ MakeDir => OwnedInv'
<1> SUFFICES ASSUME OwnedInv, MakeDir PROVE OwnedInv'
  OBVIOUS
<1> DEFINE d == Head(todo)
           tx == Created(Head(todo))
<1>1. /\ pc = "dirs" /\ pc \in ApplyPcs /\ pc # "idle" /\ todo # <<>> /\ CanCreate(d)
      /\ dir' = [dir EXCEPT ![d] = "ours"]
      /\ mem' = tx /\ pc' = "claim" /\ todo' = todo /\ journal' = journal /\ held' = held
      /\ own' = own /\ cancel' = cancel /\ late' = late /\ at' = at /\ extra' = extra
      /\ UNCHANGED people /\ UNCHANGED <<survivor, user, remade, losses, kind>>
  BY DEF MakeDir, Goto, people, ApplyPcs
<1>2. /\ mem \in Transaction /\ Knows(mem) /\ journal \in Transaction /\ journal # None
      /\ FilesOK /\ CopiesOK /\ PeopleOK /\ mem # None
  BY <1>1, Running, TypeParts DEF OwnedInv
<1>3. /\ ApplyOK(mem, "dirs", todo, journal) /\ todo \in Seq(Dirs) /\ ~own /\ held = None
      /\ mem.created_directories = journal.created_directories
      /\ Ours \subseteq Claimed(journal)
  BY <1>1, ApplyRunning DEF ApplyOK, TodoOK, DirPcs
<1>4. d \in Dirs /\ mem.created_directories \in Seq(Dirs)
  BY <1>1, <1>2, <1>3, TailRange DEF Transaction
<1>5. /\ Append(mem.created_directories, d) \in Seq(Dirs)
      /\ Range(Append(mem.created_directories, d)) = Range(mem.created_directories) \cup {d}
  BY <1>4, AppendRange
<1>6. /\ tx \in Transaction /\ tx.state = mem.state /\ tx.entry = mem.entry /\ Knows(tx)
      /\ tx.created_directories = Append(mem.created_directories, d)
  BY <1>2, <1>5, ClaimsUpdate DEF Created
<1> HIDE DEF tx
<1>7. /\ tx # None /\ Claimed(tx) = Claimed(journal) \cup {d} /\ Claimed(mem) = Claimed(journal)
  BY <1>2, <1>3, <1>5, <1>6, NoneAssumption DEF Claimed
<1>8. FilesOK' /\ dir'[d] = "ours" /\ \A c \in Dirs : c # d => dir'[c] = dir[c]
  BY <1>1, <1>2, <1>4, DirMade
<1> HIDE DEF d
<1>9. Ours' \subseteq Claimed(journal) \cup {d}
  BY <1>3, <1>8 DEF Ours
<1>10. TypeOK'
  <2>1. CopiesOK'
    BY <1>1, <1>2, <1>6, <1>7 DEF CopiesOK
  <2>2. PeopleOK'
    BY <1>1, <1>2 DEF PeopleOK
  <2> QED
    BY <1>8, <2>1, <2>2 DEF TypeOK, FilesOK, CopiesOK, PeopleOK
<1>11. RecordsInv'
  BY <1>1, <1>2, <1>3, <1>6 DEF OwnedInv, RecordsInv, Knows
<1>12. CallInv'
  <2>1. TodoOK(mem, pc, todo)'
    BY <1>1, <1>3 DEF TodoOK, DirPcs, FilePcs
  <2>2. ApplyOK(mem, pc, todo, journal)'
    <3>1. Claimed(mem)' = Claimed(tx)
      BY <1>1 DEF Claimed
    <3>2. Ours' \subseteq Claimed(mem)'
      BY <1>7, <1>9, <3>1
    <3> QED
      BY <1>1, <1>3, <1>6, <3>2 DEF ApplyOK, d
  <2> QED
    BY <1>1, <1>2, <2>1, <2>2 DEF CallInv, CallOK, ApplyPcs, RollbackPcs
<1>13. UserInv'
  <2>1. \A c \in Claimed(journal)' \cup Claimed(held)' \cup Claimed(mem)' :
            c \in Claimed(journal) \/ c = d
    BY <1>1, <1>3, <1>7 DEF Claimed
  <2>2. Claimed(journal) \subseteq Dirs
    BY <1>2 DEF Claimed, Transaction, Range
  <2> QED
    BY <1>1, <1>8, <2>1, <2>2 DEF OwnedInv, UserInv
<1>14. OursInv'
  BY <1>1, <1>4, <1>9 DEF OursInv, Claimed, d
<1>15. LateInv'
  BY <1>1, LateStill DEF ProofFirst
<1> QED
  BY <1>10, <1>11, <1>12, <1>13, <1>14, <1>15 DEF OwnedInv

-----------------------------------------------------------------------------
(* The steps that move a file *)

\* The files are where a directory is for them.
LEMMA FileMoved ==
    ASSUME FilesOK, NEW e \in Files, NEW w \in {"source", "home"},
           w = "home" => dir[Home(e)] # "none",
           at' = [at EXCEPT ![e] = w], UNCHANGED <<dir, extra, kind>>
    PROVE  FilesOK' /\ Ours' = Ours /\ at'[e] = w /\ \A f \in Files : f # e => at'[f] = at[f]
<1>1. /\ at \in [Files -> {"source", "home"}] /\ dir' = dir /\ extra' = extra /\ kind' = kind
      /\ at'[e] = w /\ \A f \in Files : f # e => at'[f] = at[f]
      /\ at' \in [Files -> {"source", "home"}]
  BY DEF FilesOK
<1>2. /\ \A f \in Files : Home(f)' = Home(f)
      /\ \A c \in Dirs : Parents(c)' = Parents(c)
  BY <1>1 DEF Home, Parents
<1>3. FilesOK'
  BY <1>1, <1>2 DEF FilesOK
<1> QED
  BY <1>1, <1>3 DEF Ours

LEMMA InvMove == OwnedInv /\ Move => OwnedInv'
<1> SUFFICES ASSUME OwnedInv, Move PROVE OwnedInv'
  OBVIOUS
<1> DEFINE e == Head(todo)
           tx == WithEntry(mem, Head(todo), "Applied")
<1>1. /\ pc = "move" /\ pc \in ApplyPcs /\ pc # "idle" /\ dir[Home(e)] # "none"
      /\ at' = [at EXCEPT ![e] = "home"]
      /\ mem' = tx /\ pc' = "record" /\ todo' = todo /\ journal' = journal /\ held' = held
      /\ own' = own /\ cancel' = cancel /\ dir' = dir /\ extra' = extra
      /\ UNCHANGED people /\ UNCHANGED <<survivor, user, remade, losses, kind>>
  BY DEF Move, Goto, people, ApplyPcs
<1>2. /\ mem \in Transaction /\ Knows(mem) /\ journal \in Transaction /\ journal # None
      /\ Knows(journal) /\ FilesOK /\ CopiesOK /\ PeopleOK /\ mem # None
  BY <1>1, Running, TypeParts DEF OwnedInv
<1>3. /\ ApplyOK(mem, "move", todo, journal) /\ todo \in Seq(Files) /\ todo # <<>> /\ ~own
      /\ held = None /\ mem.state \in {"Applying", "ApplyFailed"} /\ IsInjective(todo)
      /\ mem.created_directories = journal.created_directories
      /\ journal.entry[e] = "Applying"
  BY <1>1, ApplyRunning DEF ApplyOK, TodoOK, FilePcs
<1>4. /\ e \in Files /\ e \notin Range(Tail(todo)) /\ Range(Tail(todo)) \subseteq Range(todo)
      /\ Tail(todo) \in Seq(Files) /\ Range(todo) \subseteq Files
  BY <1>3, TailRange, InjectiveTail DEF Range
<1>5. /\ tx \in Transaction /\ tx.state = mem.state /\ tx.entry[e] = "Applied"
      /\ \A f \in Files : f # e => tx.entry[f] = mem.entry[f]
      /\ tx.created_directories = mem.created_directories
  <2>1. "Applied" \in EntryState
    BY DEF EntryState
  <2> QED
    BY <1>2, <1>4, <2>1, EntryUpdate
<1> HIDE DEF tx
<1>6. FilesOK' /\ Ours' = Ours /\ at'[e] = "home" /\ \A f \in Files : f # e => at'[f] = at[f]
  BY <1>1, <1>2, <1>4, FileMoved
<1>7. /\ tx # None /\ Claimed(tx) = Claimed(journal) /\ Claimed(mem) = Claimed(journal)
  BY <1>2, <1>3, <1>5, NoneAssumption DEF Claimed
<1>8. late' \subseteq late \cup {e} /\ late' = (IF survivor THEN late ELSE late \cup {e})
  BY DEF Move
<1>9. TypeOK'
  <2>1. CopiesOK'
    BY <1>1, <1>2, <1>5, <1>7 DEF CopiesOK
  <2>2. PeopleOK'
    BY <1>1, <1>2, <1>4, <1>8 DEF PeopleOK
  <2> QED
    BY <1>6, <2>1, <2>2 DEF TypeOK, FilesOK, CopiesOK, PeopleOK
<1>10. RecordsInv'
  <2>1. Knows(journal)'
    BY <1>1, <1>2, <1>3, <1>6 DEF Knows
  <2>2. Knows(mem)'
    BY <1>1, <1>2, <1>3, <1>5, <1>6 DEF Knows
  <2> QED
    BY <1>1, <1>2, <1>3, <2>1, <2>2 DEF RecordsInv
<1>11. CallInv'
  <2>1. TodoOK(mem, pc, todo)'
    BY <1>1, <1>3 DEF TodoOK, DirPcs, FilePcs
  <2>2. \A f \in Range(Tail(todo)) : at'[f] = "source"
    BY <1>3, <1>4, <1>6 DEF ApplyOK
  <2>3. ApplyOK(mem, pc, todo, journal)'
    BY <1>1, <1>3, <1>5, <2>2 DEF ApplyOK
  <2> QED
    BY <1>1, <1>2, <2>1, <2>3 DEF CallInv, CallOK, ApplyPcs, RollbackPcs
<1>12. UserInv'
  <2>1. Claims' \subseteq Claims
    BY <1>1, <1>7 DEF Claims, Claimed
  <2> QED
    BY <1>1, <2>1, UserStill
<1>13. OursInv'
  BY <1>1, <1>6, ApplyRunning DEF OwnedInv, OursInv, Claimed
<1>14. LateInv'
  <2>1. CASE survivor
    BY <1>1, <1>8, <2>1 DEF OwnedInv, LateInv
  <2>2. CASE ~survivor
    <3>1. late' = late \cup {e} /\ IsFiniteSet(late) /\ Cardinality(late) \in Nat /\ LateInv
      BY <1>8, <2>2, FS_CardinalityType DEF OwnedInv, LateInv
    <3>2. IsFiniteSet(late') /\ Cardinality(late') <= Cardinality(late) + 1
      BY <3>1, FS_AddElement
    <3>3. losses \in Nat /\ user \in Nat /\ Cardinality(late') \in Nat
      BY <1>2, <3>2, FS_CardinalityType, OwnedMovesAssumption DEF PeopleOK
    <3> QED
      BY <1>1, <2>2, <3>1, <3>2, <3>3 DEF LateInv
  <2> QED
    BY <2>1, <2>2
<1> QED
  BY <1>9, <1>10, <1>11, <1>12, <1>13, <1>14 DEF OwnedInv

-----------------------------------------------------------------------------
(* The steps of a rollback *)

LEMMA RollbackRunning ==
    ASSUME OwnedInv, pc \in RollbackPcs
    PROVE  /\ RollbackOK(mem, pc, todo, journal) /\ TodoOK(mem, pc, todo) /\ pc # "idle"
           /\ mem.created_directories = journal.created_directories
<1>1. pc # "idle" /\ pc \notin ApplyPcs
  BY DEF ApplyPcs, RollbackPcs
<1>2. RollbackOK(mem, pc, todo, journal) /\ TodoOK(mem, pc, todo)
  BY <1>1, Running DEF CallOK
<1> QED
  BY <1>1, <1>2 DEF RollbackOK

\* Reconciling settles every entry in flight and takes nothing back.
LEMMA Reconciling ==
    ASSUME FilesOK, NEW tx \in Transaction, Knows(tx)
    PROVE  /\ Reconciled(tx) \in Transaction /\ Knows(Reconciled(tx))
           /\ Reconciled(tx).created_directories = tx.created_directories
           /\ Reconciled(tx).state = tx.state \/ tx.state = "Applying"
           /\ \A e \in Files : /\ Reconciled(tx).entry[e] # "Applying"
                               /\ tx.entry[e] = "RolledBack" =>
                                    Reconciled(tx).entry[e] = "RolledBack"
<1> DEFINE entry == [e \in Files |-> ReconciledEntry(tx.entry[e], e)]
           state == IF tx.state = "Applying" /\ Range(entry) \subseteq {"Applied", "Skipped"}
                    THEN "Applied" ELSE tx.state
<1>1. \A e \in Files : tx.entry[e] \in EntryState /\ at[e] \in {"source", "home"}
  BY DEF Transaction, FilesOK
<1>2. \A e \in Files :
        /\ entry[e] \in EntryState /\ entry[e] # "Applying"
        /\ tx.entry[e] = "RolledBack" => entry[e] = "RolledBack"
        /\ at[e] = "home" => entry[e] \in {"Applying", "Applied", "RollingBack", "RollbackFailed"}
        /\ tx.entry[e] \notin {"Applying", "RollingBack"} => entry[e] = tx.entry[e]
  BY <1>1 DEF ReconciledEntry, EntryState, Knows
<1>3. entry \in [Files -> EntryState]
  BY <1>2
<1>4. Reconciled(tx) = [[tx EXCEPT !.entry = entry] EXCEPT !.state = state]
  BY DEF Reconciled, Transaction
<1> HIDE DEF entry
<1>5. state \in TransactionState /\ (state = tx.state \/ tx.state = "Applying")
      /\ (state = "RolledBack" => tx.state = "RolledBack")
  BY DEF Transaction, TransactionState, EntryState
<1> HIDE DEF state
<1>6. /\ Reconciled(tx) \in Transaction /\ Reconciled(tx).entry = entry
      /\ Reconciled(tx).state = state
      /\ Reconciled(tx).created_directories = tx.created_directories
  BY <1>3, <1>4, <1>5 DEF Transaction
<1>7. Knows(Reconciled(tx))
  BY <1>2, <1>5, <1>6 DEF Knows
<1> QED
  BY <1>2, <1>5, <1>6, <1>7

LEMMA InvRollbackFromHistory == OwnedInv /\ RollbackFromHistory => OwnedInv'
<1> SUFFICES ASSUME OwnedInv, RollbackFromHistory PROVE OwnedInv'
  OBVIOUS
<1> DEFINE tx == Reconciled(journal)
<1>1. /\ pc = "idle" /\ journal # None /\ ~own /\ journal' \in {journal, tx}
      /\ Goto(tx, "rbStart", <<>>) /\ UNCHANGED <<files, people, held, own, cancel, late>>
  BY DEF RollbackFromHistory, OwnedInv, RecordsInv
<1>2. journal \in Transaction /\ Knows(journal) /\ FilesOK
  BY <1>1, TypeParts DEF OwnedInv, RecordsInv, CopiesOK
<1>3. /\ tx \in Transaction /\ Knows(tx)
      /\ tx.created_directories = journal.created_directories
      /\ tx.state = journal.state \/ journal.state = "Applying"
      /\ \A e \in Files : journal.entry[e] = "RolledBack" => tx.entry[e] = "RolledBack"
  BY <1>2, Reconciling
<1> HIDE DEF tx
<1>4. tx # None /\ Claimed(tx) = Claimed(journal)
  BY <1>1, <1>3, NoneAssumption DEF Claimed
<1>5. Fits(tx)
  BY <1>1, <1>3, <1>4 DEF Fits, Claims, Abandoned
<1>6. CallOK(tx, "rbStart", <<>>, journal) /\ CallOK(tx, "rbStart", <<>>, tx)
  BY <1>3 DEF CallOK, TodoOK, RollbackOK, ApplyPcs, RollbackPcs, DirPcs, FilePcs
<1>7. ProofFirst("rbStart") /\ "rbStart" \in RollbackPcs
  BY DEF ProofFirst, RollbackPcs
<1>8. CASE journal' = journal
  BY <1>1, <1>5, <1>6, <1>7, <1>8, GoesOn
<1>9. CASE journal' = tx
  <2>1. Save(tx, "rbStart", <<>>)
    BY <1>1, <1>9 DEF Save
  <2> QED
    BY <1>5, <1>6, <1>7, <2>1, SaveGoesOn
<1> QED
  BY <1>1, <1>8, <1>9

LEMMA InvRollbackOwn == OwnedInv /\ RollbackOwn => OwnedInv'
<1> SUFFICES ASSUME OwnedInv, RollbackOwn PROVE OwnedInv'
  OBVIOUS
<1> DEFINE tx == IF kind = "organise" THEN held ELSE journal
<1>1. /\ pc = "idle" /\ tx # None /\ mem' = tx /\ pc' = "rbStart" /\ todo' = <<>>
      /\ held' = None /\ own' = TRUE /\ journal' = journal /\ cancel' = cancel /\ late' = late
      /\ UNCHANGED <<files, people>>
      /\ UNCHANGED <<survivor, user, remade, losses, kind, at, dir>>
  BY DEF RollbackOwn, Goto, files, people
<1>2. FilesOK /\ CopiesOK /\ PeopleOK /\ ~own
  BY <1>1, TypeParts DEF OwnedInv, RecordsInv
<1>3. /\ tx \in Transaction /\ Knows(tx) /\ journal # None
      /\ tx.created_directories = journal.created_directories
      /\ kind # "organise" => tx = journal
  BY <1>1, <1>2 DEF OwnedInv, RecordsInv, CopiesOK
<1>4. ~Abandoned
  BY <1>1 DEF Abandoned
<1>5. Claimed(tx) \subseteq Claims
  BY <1>1 DEF Claims
<1> HIDE DEF tx
<1>6. FilesOK' /\ Ours' = Ours
  BY <1>1, <1>2, FilesStill
<1>7. TypeOK'
  <2>1. CopiesOK'
    BY <1>1, <1>2, <1>3 DEF CopiesOK
  <2>2. PeopleOK'
    BY <1>1, <1>2 DEF PeopleOK
  <2> QED
    BY <1>6, <2>1, <2>2 DEF TypeOK, FilesOK, CopiesOK, PeopleOK
<1>8. RecordsInv'
  BY <1>1, <1>3 DEF OwnedInv, RecordsInv, Knows
<1>9. CallInv'
  <2>1. CallOK(mem, pc, todo, journal)'
    BY <1>1, <1>3 DEF CallOK, TodoOK, RollbackOK, ApplyPcs, RollbackPcs, DirPcs, FilePcs
  <2> QED
    BY <1>1, <1>3, <2>1 DEF CallInv
<1>10. UserInv'
  <2>1. Claims' \subseteq Claims
    BY <1>1, <1>5 DEF Claims, Claimed
  <2> QED
    BY <1>1, <2>1, UserStill
<1>11. OursInv'
  BY <1>1, <1>4, <1>6 DEF OwnedInv, OursInv, Claimed
<1>12. LateInv'
  BY <1>1, LateStill DEF ProofFirst
<1> QED
  BY <1>7, <1>8, <1>9, <1>10, <1>11, <1>12 DEF OwnedInv

\* Where a rollback goes on, with the journal as it is or just written.
LEMMA RollbackGoes ==
    ASSUME OwnedInv, pc \in RollbackPcs, NEW tx, NEW next \in RollbackPcs, NEW rest,
           tx \in Transaction, Knows(tx), tx.created_directories = mem.created_directories,
           Abandoned => tx.state = mem.state \/ tx.state \notin {"Applying", "Applied"},
           TodoOK(tx, next, rest),
           \/ /\ Goto(tx, next, rest) /\ RollbackOK(tx, next, rest, journal)
              /\ UNCHANGED <<files, people, journal, held, own, cancel, late>>
           \/ Save(tx, next, rest) /\ RollbackOK(tx, next, rest, tx)
    PROVE  OwnedInv'
<1>1. Fits(tx) /\ pc # "idle"
  BY CallFits DEF RollbackPcs
<1>2. ProofFirst(next) /\ next \notin ApplyPcs
  BY DEF ProofFirst, RollbackPcs, ApplyPcs
<1>3. CASE /\ Goto(tx, next, rest) /\ RollbackOK(tx, next, rest, journal)
           /\ UNCHANGED <<files, people, journal, held, own, cancel, late>>
  <2>1. CallOK(tx, next, rest, journal)
    BY <1>2, <1>3 DEF CallOK
  <2> QED
    BY <1>1, <1>2, <1>3, <2>1, GoesOn
<1>4. CASE Save(tx, next, rest) /\ RollbackOK(tx, next, rest, tx)
  <2>1. CallOK(tx, next, rest, tx)
    BY <1>2, <1>4 DEF CallOK
  <2> QED
    BY <1>1, <1>2, <1>4, <2>1, SaveGoesOn
<1> QED
  BY <1>3, <1>4

LEMMA InvRbReconcile == OwnedInv /\ RbReconcile => OwnedInv'
<1> SUFFICES ASSUME OwnedInv, RbReconcile PROVE OwnedInv'
  OBVIOUS
<1> DEFINE tx == Reconciled(mem)
<1>1. pc = "rbStart" /\ pc \in RollbackPcs /\ "rbEnter" \in RollbackPcs /\ pc # "idle"
  BY DEF RbReconcile, RollbackPcs
<1>2. /\ tx \in Transaction /\ Knows(tx)
      /\ tx.created_directories = mem.created_directories
      /\ tx.state = mem.state \/ mem.state = "Applying"
      /\ \A e \in Files : tx.entry[e] # "Applying"
  BY <1>1, Running, Reconciling
<1>3. Abandoned => tx.state = mem.state
  BY <1>1, <1>2, Running DEF Abandoned
<1>4. \/ Save(tx, "rbEnter", <<>>)
      \/ /\ tx = mem /\ Goto(tx, "rbEnter", <<>>)
         /\ UNCHANGED <<files, people, journal, held, own, cancel, late>>
  BY DEF RbReconcile
<1> HIDE DEF tx
<1>5. /\ TodoOK(tx, "rbEnter", <<>>) /\ RollbackOK(tx, "rbEnter", <<>>, tx)
      /\ tx = mem => RollbackOK(tx, "rbEnter", <<>>, journal)
  BY <1>1, <1>2, RollbackRunning DEF TodoOK, RollbackOK, DirPcs, FilePcs
<1> QED
  BY <1>1, <1>2, <1>3, <1>4, <1>5, RollbackGoes

\* The claimed directories are next, last one first.
LEMMA DirsAreNext ==
    ASSUME OwnedInv, pc \in RollbackPcs, NEW rest, rest = Reverse(mem.created_directories),
           \/ /\ Goto(mem, "rmDirs", rest)
              /\ UNCHANGED <<files, people, journal, held, own, cancel, late>>
           \/ Save(mem, "rmDirs", rest)
    PROVE  OwnedInv'
<1>1. pc # "idle" /\ "rmDirs" \in RollbackPcs /\ mem \in Transaction /\ Knows(mem)
  BY Running DEF RollbackPcs
<1>2. mem.created_directories \in Seq(Dirs)
  BY <1>1 DEF Transaction
<1>3. rest \in Seq(Dirs) /\ Range(rest) \subseteq Range(mem.created_directories)
  BY <1>2, ReverseRange
<1>4. /\ TodoOK(mem, "rmDirs", rest) /\ RollbackOK(mem, "rmDirs", rest, mem)
      /\ RollbackOK(mem, "rmDirs", rest, journal)
  BY <1>3, RollbackRunning DEF TodoOK, RollbackOK, DirPcs, FilePcs
<1> QED
  BY <1>1, <1>4, RollbackGoes

LEMMA InvRbAlreadyDone == OwnedInv /\ RbAlreadyDone => OwnedInv'
BY DirsAreNext DEF RbAlreadyDone, ToDirectories, RollbackPcs

LEMMA InvRbEnter == OwnedInv /\ RbEnter => OwnedInv'
<1> SUFFICES ASSUME OwnedInv, RbEnter PROVE OwnedInv'
  OBVIOUS
<1> DEFINE tx == WithState(mem, "RollingBack")
           rest == Reverse(Entries)
<1>1. pc = "rbEnter" /\ pc \in RollbackPcs /\ "rbLoop" \in RollbackPcs /\ pc # "idle"
  BY DEF RbEnter, RollbackPcs
<1>2. /\ tx \in Transaction /\ Knows(tx) /\ tx.state = "RollingBack" /\ tx.entry = mem.entry
      /\ tx.created_directories = mem.created_directories
  BY <1>1, Running, StateUpdate DEF TransactionState, EntryState
<1>3. rest \in Seq(Files)
  BY OwnedMovesAssumption, ReverseRange
<1>4. Save(tx, "rbLoop", rest)
  BY DEF RbEnter
<1> HIDE DEF tx, rest
<1>5. TodoOK(tx, "rbLoop", rest) /\ RollbackOK(tx, "rbLoop", rest, tx)
  BY <1>1, <1>2, <1>3, RollbackRunning DEF TodoOK, RollbackOK, DirPcs, FilePcs
<1> QED
  BY <1>1, <1>2, <1>4, <1>5, RollbackGoes

LEMMA InvRbSkip == OwnedInv /\ RbSkip => OwnedInv'
<1> SUFFICES ASSUME OwnedInv, RbSkip PROVE OwnedInv'
  OBVIOUS
<1>1. pc = "rbLoop" /\ pc \in RollbackPcs /\ pc # "idle" /\ todo # <<>>
  BY DEF RbSkip, RollbackPcs
<1>2. Tail(todo) \in Seq(Files)
  BY <1>1, RollbackRunning, TailRange DEF TodoOK, FilePcs
<1>3. TodoOK(mem, "rbLoop", Tail(todo)) /\ RollbackOK(mem, "rbLoop", Tail(todo), journal)
  BY <1>1, <1>2, RollbackRunning DEF TodoOK, RollbackOK, DirPcs, FilePcs
<1> QED
  BY <1>1, <1>3, Running, RollbackGoes DEF RbSkip

LEMMA InvRbCheckpoint == OwnedInv /\ RbCheckpoint => OwnedInv'
<1> SUFFICES ASSUME OwnedInv, RbCheckpoint PROVE OwnedInv'
  OBVIOUS
<1> DEFINE tx == WithEntry(mem, Head(todo), "RollingBack")
<1>1. /\ pc = "rbLoop" /\ pc \in RollbackPcs /\ "rbMove" \in RollbackPcs /\ pc # "idle"
      /\ todo # <<>>
  BY DEF RbCheckpoint, RollbackPcs
<1>2. todo \in Seq(Files) /\ Head(todo) \in Files /\ mem.state = "RollingBack"
  BY <1>1, RollbackRunning, TailRange DEF TodoOK, RollbackOK, FilePcs
<1>3. /\ tx \in Transaction /\ Knows(tx) /\ tx.state = mem.state
      /\ tx.entry[Head(todo)] = "RollingBack"
      /\ \A f \in Files : f # Head(todo) => tx.entry[f] = mem.entry[f]
      /\ tx.created_directories = mem.created_directories
  <2>1. mem \in Transaction /\ Knows(mem) /\ "RollingBack" \in EntryState
    BY <1>1, Running DEF EntryState
  <2> QED
    BY <1>2, <2>1, EntryUpdate, EntryKnows
<1>4. Save(tx, "rbMove", todo)
  BY DEF RbCheckpoint
<1> HIDE DEF tx
<1>5. TodoOK(tx, "rbMove", todo) /\ RollbackOK(tx, "rbMove", todo, tx)
  BY <1>1, <1>2, <1>3, RollbackRunning DEF TodoOK, RollbackOK, DirPcs, FilePcs
<1> QED
  BY <1>1, <1>3, <1>4, <1>5, RollbackGoes

LEMMA InvRbMoveFails == OwnedInv /\ RbMoveFails => OwnedInv'
<1> SUFFICES ASSUME OwnedInv, RbMoveFails PROVE OwnedInv'
  OBVIOUS
<1> DEFINE t1 == WithEntry(mem, Head(todo), "RollbackFailed")
           tx == WithState(t1, "RollbackFailed")
<1>1. /\ pc = "rbMove" /\ pc \in RollbackPcs /\ "rbFinal" \in RollbackPcs /\ pc # "idle"
  BY DEF RbMoveFails, RollbackPcs
<1>2. /\ todo \in Seq(Files) /\ todo # <<>> /\ Head(todo) \in Files /\ mem.state = "RollingBack"
      /\ journal.entry[Head(todo)] = "RollingBack"
  BY <1>1, RollbackRunning, TailRange DEF TodoOK, RollbackOK, FilePcs
<1>3. /\ t1 \in Transaction /\ Knows(t1) /\ t1.entry[Head(todo)] = "RollbackFailed"
      /\ \A f \in Files : f # Head(todo) => t1.entry[f] = mem.entry[f]
      /\ t1.created_directories = mem.created_directories
  <2>1. mem \in Transaction /\ Knows(mem) /\ "RollbackFailed" \in EntryState
    BY <1>1, Running DEF EntryState
  <2> QED
    BY <1>2, <2>1, EntryUpdate, EntryKnows
<1> HIDE DEF t1
<1>4. /\ tx \in Transaction /\ Knows(tx) /\ tx.state = "RollbackFailed" /\ tx.entry = t1.entry
      /\ tx.created_directories = mem.created_directories
  BY <1>3, StateUpdate DEF TransactionState, EntryState
<1>5. /\ Goto(tx, "rbFinal", todo)
      /\ UNCHANGED <<files, people, journal, held, own, cancel, late>>
  BY DEF RbMoveFails, t1
<1> HIDE DEF tx
<1>6. TodoOK(tx, "rbFinal", todo) /\ RollbackOK(tx, "rbFinal", todo, journal)
  BY <1>1, <1>2, <1>3, <1>4, RollbackRunning DEF TodoOK, RollbackOK, DirPcs, FilePcs
<1> QED
  BY <1>1, <1>4, <1>5, <1>6, RollbackGoes

LEMMA InvRbRecord == OwnedInv /\ RbRecord => OwnedInv'
<1> SUFFICES ASSUME OwnedInv, RbRecord PROVE OwnedInv'
  OBVIOUS
<1>1. pc = "rbRecord" /\ pc \in RollbackPcs /\ pc # "idle" /\ "rbLoop" \in RollbackPcs
  BY DEF RbRecord, RollbackPcs
<1>2. Tail(todo) \in Seq(Files)
  BY <1>1, RollbackRunning, TailRange DEF TodoOK, FilePcs
<1>3. TodoOK(mem, "rbLoop", Tail(todo)) /\ RollbackOK(mem, "rbLoop", Tail(todo), mem)
  BY <1>1, <1>2, RollbackRunning DEF TodoOK, RollbackOK, DirPcs, FilePcs
<1> QED
  BY <1>1, <1>3, Running, RollbackGoes DEF RbRecord

LEMMA InvRbDone == OwnedInv /\ RbDone => OwnedInv'
<1> SUFFICES ASSUME OwnedInv, RbDone PROVE OwnedInv'
  OBVIOUS
<1> DEFINE s == IF \E e \in Files : mem.entry[e] \in {"Applied", "RollingBack"}
                THEN "RollbackFailed" ELSE "RolledBack"
           tx == WithState(mem, s)
<1>1. pc = "rbLoop" /\ pc \in RollbackPcs /\ pc # "idle" /\ "rbFinal" \in RollbackPcs
  BY DEF RbDone, RollbackPcs
<1>2. /\ s \in {"RollbackFailed", "RolledBack"}
      /\ s = "RolledBack" => \A e \in Files : mem.entry[e] \notin {"Applied", "RollingBack"}
  OBVIOUS
<1>3. /\ Goto(tx, "rbFinal", <<>>)
      /\ UNCHANGED <<files, people, journal, held, own, cancel, late>>
  BY DEF RbDone
<1> HIDE DEF s
<1>4. /\ tx \in Transaction /\ tx.state = s /\ tx.entry = mem.entry
      /\ tx.created_directories = mem.created_directories
  BY <1>1, <1>2, Running, StateUpdate DEF TransactionState, EntryState
<1> HIDE DEF tx
<1>5. \A e \in Files : mem.entry[e] # "Applying"
  BY <1>1, RollbackRunning DEF RollbackOK
<1>6. Knows(tx)
  BY <1>1, <1>2, <1>4, <1>5, Running DEF Knows
<1>7. TodoOK(tx, "rbFinal", <<>>) /\ RollbackOK(tx, "rbFinal", <<>>, journal)
  BY <1>1, <1>4, RollbackRunning DEF TodoOK, RollbackOK, DirPcs, FilePcs
<1> QED
  BY <1>1, <1>2, <1>3, <1>4, <1>6, <1>7, RollbackGoes

LEMMA InvRbFinal == OwnedInv /\ RbFinal => OwnedInv'
<1> SUFFICES ASSUME OwnedInv, RbFinal PROVE OwnedInv'
  OBVIOUS
<1>1. pc \in RollbackPcs /\ pc # "idle"
  BY DEF RbFinal, RollbackPcs
<1>2. CASE own
  <2>1. Save(mem, "rmDirs", Reverse(mem.created_directories))
    BY <1>2 DEF RbFinal, Save, ToDirectories
  <2> QED
    BY <1>1, <2>1, DirsAreNext
<1>3. CASE ~own
  BY <1>1, <1>3, Running, SaveReturns DEF RbFinal
<1> QED
  BY <1>2, <1>3

LEMMA InvRollbackReturns == OwnedInv /\ RollbackReturns => OwnedInv'
BY Ends DEF RollbackReturns

LEMMA InvCrash == OwnedInv /\ Crash => OwnedInv'
BY Ends DEF Crash

LEMMA InvRbMove == OwnedInv /\ RbMove => OwnedInv'
<1> SUFFICES ASSUME OwnedInv, RbMove PROVE OwnedInv'
  OBVIOUS
<1> DEFINE e == Head(todo)
           tx == WithEntry(mem, Head(todo), "RolledBack")
<1>1. /\ pc = "rbMove" /\ pc \in RollbackPcs /\ pc # "idle"
      /\ at' = [at EXCEPT ![e] = "source"]
      /\ mem' = tx /\ pc' = "rbRecord" /\ todo' = todo /\ journal' = journal /\ held' = held
      /\ own' = own /\ cancel' = cancel /\ late' = late /\ dir' = dir /\ extra' = extra
      /\ UNCHANGED people /\ UNCHANGED <<survivor, user, remade, losses, kind>>
  BY DEF RbMove, Goto, people, RollbackPcs
<1>2. /\ mem \in Transaction /\ Knows(mem) /\ journal \in Transaction /\ journal # None
      /\ FilesOK /\ CopiesOK /\ PeopleOK /\ mem # None
  BY <1>1, Running, TypeParts DEF OwnedInv
<1>3. /\ RollbackOK(mem, "rbMove", todo, journal) /\ todo \in Seq(Files) /\ todo # <<>>
      /\ mem.state = "RollingBack" /\ mem.created_directories = journal.created_directories
  BY <1>1, RollbackRunning DEF RollbackOK, TodoOK, FilePcs
<1>4. e \in Files
  BY <1>3, TailRange
<1>5. /\ tx \in Transaction /\ tx.state = mem.state /\ tx.entry[e] = "RolledBack"
      /\ \A f \in Files : f # e => tx.entry[f] = mem.entry[f]
      /\ tx.created_directories = mem.created_directories
  <2>1. "RolledBack" \in EntryState
    BY DEF EntryState
  <2> QED
    BY <1>2, <1>4, <2>1, EntryUpdate
<1> HIDE DEF tx
<1>6. FilesOK' /\ Ours' = Ours /\ at'[e] = "source" /\ \A f \in Files : f # e => at'[f] = at[f]
  BY <1>1, <1>2, <1>4, FileMoved
<1>7. /\ tx # None /\ Claimed(tx) = Claimed(mem)
  BY <1>2, <1>5, NoneAssumption DEF Claimed
<1>8. TypeOK'
  <2>1. CopiesOK'
    BY <1>1, <1>2, <1>5, <1>7 DEF CopiesOK
  <2>2. PeopleOK'
    BY <1>1, <1>2 DEF PeopleOK
  <2> QED
    BY <1>6, <2>1, <2>2 DEF TypeOK, FilesOK, CopiesOK, PeopleOK
<1>9. RecordsInv'
  <2>1. Knows(journal)'
    BY <1>1, <1>2, <1>4, <1>6 DEF OwnedInv, RecordsInv, Knows
  <2>2. held # None => Knows(held)'
    BY <1>1, <1>4, <1>6 DEF OwnedInv, RecordsInv, Knows
  <2>3. Knows(mem)'
    BY <1>1, <1>2, <1>3, <1>5, <1>6 DEF Knows
  <2> QED
    BY <1>1, <1>2, <2>1, <2>2, <2>3 DEF OwnedInv, RecordsInv
<1>10. CallInv'
  <2>1. TodoOK(mem, pc, todo)'
    BY <1>1, <1>3 DEF TodoOK, DirPcs, FilePcs
  <2>2. RollbackOK(mem, pc, todo, journal)'
    BY <1>1, <1>3, <1>4, <1>5 DEF RollbackOK
  <2> QED
    BY <1>1, <1>2, <2>1, <2>2 DEF CallInv, CallOK, ApplyPcs, RollbackPcs
<1>11. UserInv'
  <2>1. Claims' \subseteq Claims
    BY <1>1, <1>7 DEF Claims, Claimed
  <2> QED
    BY <1>1, <2>1, UserStill
<1>12. OursInv'
  <2>1. CASE Abandoned
    BY <1>1, <1>3, <1>5, <2>1 DEF OursInv, Abandoned, RollbackPcs
  <2>2. CASE ~Abandoned
    BY <1>1, <1>6, <2>2 DEF OwnedInv, OursInv, Claimed
  <2> QED
    BY <2>1, <2>2
<1>13. LateInv'
  BY <1>1, LateStill DEF ProofFirst
<1> QED
  BY <1>8, <1>9, <1>10, <1>11, <1>12, <1>13 DEF OwnedInv

-----------------------------------------------------------------------------
(* The user and the cancel flag *)

\* The call, and what the invariant says of it, while the directories change
\* around it.
LEMMA CallsStay ==
    ASSUME OwnedInv, Ours' \subseteq Ours,
           UNCHANGED <<at, kind, journal, held, mem, pc, todo, own>>
    PROVE  CopiesOK' /\ RecordsInv' /\ CallInv' /\ OursInv'
<1>1. /\ at' = at /\ kind' = kind /\ journal' = journal /\ held' = held /\ mem' = mem
      /\ pc' = pc /\ todo' = todo /\ own' = own
  OBVIOUS
<1>2. CopiesOK'
  BY <1>1, TypeParts DEF OwnedInv, CopiesOK
<1>3. RecordsInv'
  BY <1>1 DEF OwnedInv, RecordsInv, Knows
<1>4. CallInv'
  <2>1. CASE pc = "idle"
    BY <1>1, <2>1 DEF CallInv
  <2>2. CASE pc # "idle"
    <3>1. CallOK(mem, pc, todo, journal)'
      BY <1>1, <2>2, Running, CallStill
    <3> QED
      BY <1>1, <2>2, <3>1, Running DEF CallInv
  <2> QED
    BY <2>1, <2>2
<1>5. OursInv'
  <2>1. CASE Abandoned
    BY <1>1, <2>1 DEF OursInv, Abandoned
  <2>2. CASE ~Abandoned
    BY <1>1, <2>2 DEF OwnedInv, OursInv, Claimed
  <2> QED
    BY <2>1, <2>2
<1> QED
  BY <1>2, <1>3, <1>4, <1>5

LEMMA InvCancel == OwnedInv /\ Cancel => OwnedInv'
<1> SUFFICES ASSUME OwnedInv, Cancel PROVE OwnedInv'
  OBVIOUS
<1>1. /\ UNCHANGED <<files, people, late>> /\ cancel' = TRUE
      /\ UNCHANGED <<at, kind, journal, held, mem, pc, todo, own>>
      /\ UNCHANGED <<dir, survivor, user, remade, losses>>
  BY DEF Cancel, files, people
<1>2. FilesOK /\ PeopleOK
  BY TypeParts DEF OwnedInv
<1>3. FilesOK' /\ Ours' = Ours
  BY <1>1, <1>2, FilesStill
<1>4. PeopleOK'
  BY <1>1, <1>2 DEF PeopleOK
<1>5. CopiesOK' /\ RecordsInv' /\ CallInv' /\ OursInv'
  BY <1>1, <1>3, CallsStay
<1>6. UserInv'
  BY <1>1, UserStill DEF Claims, Claimed
<1>7. LateInv'
  BY <1>1, LateStill DEF ProofFirst
<1>8. TypeOK'
  BY <1>3, <1>4, <1>5 DEF TypeOK, FilesOK, CopiesOK, PeopleOK
<1> QED
  BY <1>5, <1>6, <1>7, <1>8 DEF OwnedInv

\* Everything the user does, given what it does to the directories.
LEMMA UserSteps ==
    ASSUME OwnedInv, user < MaxUser, user' = user + 1, UNCHANGED <<kind, call, at>>,
           FilesOK', Ours' \subseteq Ours, UserInv', remade' \subseteq Dirs,
           \/ UNCHANGED <<survivor, losses>>
           \/ /\ survivor' = ~survivor
              /\ losses' = IF survivor THEN losses + 1 ELSE losses
    PROVE  OwnedInv'
<1>1. /\ UNCHANGED <<at, kind, journal, held, mem, pc, todo, own>> /\ late' = late
      /\ cancel' = cancel
  BY DEF call
<1>2. CopiesOK' /\ RecordsInv' /\ CallInv' /\ OursInv'
  BY <1>1, CallsStay
<1>3. /\ PeopleOK /\ LateInv /\ MaxUser \in Nat /\ user \in Nat /\ losses \in Nat
      /\ losses <= user /\ Cardinality(late) \in Nat
  BY TypeParts, FS_CardinalityType, OwnedMovesAssumption DEF OwnedInv, PeopleOK, LateInv
<1>4. /\ survivor' \in BOOLEAN /\ losses' \in Nat /\ losses <= losses' /\ losses' <= user + 1
      /\ survivor /\ ~survivor' => losses' = losses + 1
  <2>1. CASE UNCHANGED <<survivor, losses>>
    BY <1>3, <2>1 DEF PeopleOK
  <2>2. CASE /\ survivor' = ~survivor
             /\ losses' = IF survivor THEN losses + 1 ELSE losses
    <3>1. survivor' \in BOOLEAN
      BY <2>2, Zenon
    <3>2. losses' = losses + 1 \/ losses' = losses
      BY <2>2
    <3>3. survivor => losses' = losses + 1
      BY <2>2
    <3>4. losses' \in Nat /\ losses <= losses' /\ losses' <= user + 1
      BY <1>3, <3>2
    <3> QED
      BY <3>1, <3>3, <3>4
  <2> QED
    BY <2>1, <2>2
<1>5. PeopleOK'
  BY <1>1, <1>3, <1>4 DEF PeopleOK
<1>6. LateInv'
  BY <1>1, <1>3, <1>4 DEF LateInv
<1>7. TypeOK'
  BY <1>2, <1>5 DEF TypeOK, FilesOK, CopiesOK, PeopleOK
<1> QED
  BY <1>2, <1>6, <1>7 DEF OwnedInv

LEMMA InvUser == OwnedInv /\ User => OwnedInv'
<1> SUFFICES ASSUME OwnedInv, User PROVE OwnedInv'
  OBVIOUS
<1>1. /\ user < MaxUser /\ user' = user + 1 /\ UNCHANGED <<kind, call>> /\ kind' = kind
      /\ FilesOK /\ PeopleOK /\ CopiesOK
      /\ UNCHANGED <<journal, held, mem>>
  BY TypeParts DEF User, OwnedInv, call
<1>2. Claims' = Claims /\ remade \subseteq Dirs /\ Claims \subseteq Dirs
  BY <1>1 DEF Claims, Claimed, PeopleOK, CopiesOK, Transaction, Range
<1>3. ASSUME NEW d \in Dirs, UserMakesDir(d) PROVE OwnedInv'
  <2>1. /\ CanCreate(d) /\ dir' = [dir EXCEPT ![d] = "user"]
        /\ UNCHANGED <<at, extra, survivor, losses>>
        /\ remade' = IF d \in Claims THEN remade \cup {d} ELSE remade
    BY <1>3 DEF UserMakesDir, Claims
  <2>2. FilesOK' /\ dir'[d] = "user" /\ \A c \in Dirs : c # d => dir'[c] = dir[c]
    BY <1>1, <2>1, DirMade
  <2>3. Ours' \subseteq Ours
    BY <2>2 DEF Ours
  <2>4. UserInv'
    BY <1>2, <2>1, <2>2 DEF OwnedInv, UserInv, Claims
  <2> QED
    BY <1>1, <1>2, <2>1, <2>2, <2>3, <2>4, UserSteps
<1>4. ASSUME NEW d \in Dirs, UserRemovesDir(d) PROVE OwnedInv'
  <2>1. /\ dir[d] # "none" /\ Empty(d) /\ dir' = [dir EXCEPT ![d] = "none"]
        /\ UNCHANGED <<at, extra, survivor, remade, losses>>
    BY <1>4 DEF UserRemovesDir
  <2>2. FilesOK' /\ Ours' \subseteq Ours /\ \A c \in Dirs : dir'[c] = "user" => dir[c] = "user"
    BY <1>1, <2>1, DirRemoved
  <2>3. UserInv'
    BY <1>2, <2>1, <2>2 DEF OwnedInv, UserInv, Claims
  <2> QED
    BY <1>1, <1>2, <2>1, <2>2, <2>3, UserSteps
<1>5. ASSUME NEW d \in Dirs, UserPutsOrTakesFile(d) PROVE OwnedInv'
  <2>1. /\ dir[d] # "none" /\ extra' = IF d \in extra THEN extra \ {d} ELSE extra \cup {d}
        /\ UNCHANGED <<at, dir, survivor, remade, losses>>
    BY <1>5 DEF UserPutsOrTakesFile
  <2>2. /\ \A e \in Files : Home(e)' = Home(e)
        /\ \A c \in Dirs : Parents(c)' = Parents(c)
    BY <1>1 DEF Home, Parents
  <2>3. FilesOK'
    BY <1>1, <2>1, <2>2 DEF FilesOK
  <2>4. Ours' = Ours
    BY <2>1 DEF Ours
  <2>5. UserInv'
    BY <1>2, <2>1 DEF OwnedInv, UserInv, Claims
  <2> QED
    BY <1>1, <1>2, <2>1, <2>3, <2>4, <2>5, UserSteps
<1>6. ASSUME SurvivorChanges PROVE OwnedInv'
  <2>1. /\ UNCHANGED <<files, kind>> /\ UNCHANGED <<at, dir, remade>>
        /\ survivor' = ~survivor /\ losses' = IF survivor THEN losses + 1 ELSE losses
    BY <1>1, <1>6 DEF SurvivorChanges, files
  <2>2. FilesOK' /\ Ours' = Ours
    BY <1>1, <2>1, FilesStill
  <2>3. UserInv'
    BY <1>2, <2>1 DEF OwnedInv, UserInv, Claims
  <2> QED
    BY <1>1, <1>2, <2>1, <2>2, <2>3, UserSteps
<1> QED
  BY <1>3, <1>4, <1>5, <1>6 DEF User

-----------------------------------------------------------------------------
(* The invariant holds *)

LEMMA InvInit == Init => OwnedInv
<1> SUFFICES ASSUME Init PROVE OwnedInv
  OBVIOUS
<1>1. /\ journal = None /\ held = None /\ mem = None /\ pc = "idle" /\ own = FALSE
      /\ cancel = FALSE /\ survivor = TRUE /\ user = 0 /\ losses = 0 /\ remade = {} /\ late = {}
      /\ extra = {} /\ at = [e \in Files |-> "source"] /\ dir \in [Dirs -> {"none", "user"}]
      /\ kind \in {"organise", "quarantine"}
      /\ \A d \in Dirs : dir[d] # "none" => \A p \in Parents(d) : dir[p] # "none"
  BY DEF Init
<1>2. Ours = {}
  BY <1>1 DEF Ours
<1>3. TypeOK
  <2>1. FilesOK
    BY <1>1 DEF FilesOK
  <2>2. CopiesOK
    BY <1>1 DEF CopiesOK
  <2>3. PeopleOK
    <3>1. survivor \in BOOLEAN /\ own \in BOOLEAN /\ cancel \in BOOLEAN
      BY <1>1, Zenon
    <3>2. user \in 0 .. MaxUser /\ losses \in 0 .. MaxUser
      BY <1>1, OwnedMovesAssumption
    <3> QED
      BY <1>1, <3>1, <3>2 DEF PeopleOK
  <2> QED
    BY <2>1, <2>2, <2>3, TypeParts
<1>4. RecordsInv /\ CallInv
  BY <1>1, <1>2 DEF RecordsInv, CallInv
<1>5. UserInv
  BY <1>1 DEF UserInv, Claimed
<1>6. OursInv
  <2>1. Head(Planned) \in Dirs
    BY OwnedMovesAssumption, TailRange
  <2> QED
    BY <1>2, <2>1 DEF OursInv
<1>7. LateInv
  BY <1>1, FS_EmptySet DEF LateInv
<1> QED
  BY <1>3, <1>4, <1>5, <1>6, <1>7 DEF OwnedInv

LEMMA InvStutter == OwnedInv /\ UNCHANGED vars => OwnedInv'
<1> SUFFICES ASSUME OwnedInv, UNCHANGED vars PROVE OwnedInv'
  OBVIOUS
<1>1. /\ UNCHANGED <<files, people, late>> /\ cancel' = cancel
      /\ UNCHANGED <<at, kind, journal, held, mem, pc, todo, own>>
      /\ UNCHANGED <<dir, survivor, user, remade, losses>>
  BY DEF vars, files, people
<1>2. FilesOK /\ PeopleOK
  BY TypeParts DEF OwnedInv
<1>3. FilesOK' /\ Ours' = Ours
  BY <1>1, <1>2, FilesStill
<1>4. PeopleOK'
  BY <1>1, <1>2 DEF PeopleOK
<1>5. CopiesOK' /\ RecordsInv' /\ CallInv' /\ OursInv'
  BY <1>1, <1>3, CallsStay
<1>6. UserInv'
  BY <1>1, UserStill DEF Claims, Claimed
<1>7. LateInv'
  BY <1>1, LateStill DEF ProofFirst
<1>8. TypeOK'
  BY <1>3, <1>4, <1>5 DEF TypeOK, FilesOK, CopiesOK, PeopleOK
<1> QED
  BY <1>5, <1>6, <1>7, <1>8 DEF OwnedInv

LEMMA InvApply == OwnedInv /\ Apply => OwnedInv'
BY InvBeginApply, InvBatchProof, InvMakeDir, InvClaimDir, InvDirExists, InvMakeDirFails,
   InvDirsDone, InvPreflightPasses, InvPreflightConflict, InvCleanUpDir, InvDropClaims,
   InvExecutorRefuses, InvExecutorStarts, InvEntryCancelled, InvCheckEntry, InvCheckpoint,
   InvMove, InvMoveFails, InvRecord, InvRecordFailure, InvFinishApply
DEF Apply

LEMMA InvRollback == OwnedInv /\ Rollback => OwnedInv'
BY InvRollbackFromHistory, InvRollbackOwn, InvRbReconcile, InvRbAlreadyDone, InvRbEnter,
   InvRbSkip, InvRbCheckpoint, InvRbMove, InvRbMoveFails, InvRbRecord, InvRbDone, InvRbFinal,
   InvRemoveOwnedDir, InvRollbackReturns
DEF Rollback

LEMMA Invariance == Spec => []OwnedInv
<1>1. OwnedInv /\ [Next]_vars => OwnedInv'
  BY InvApply, InvRollback, InvCrash, InvCancel, InvUser, InvStutter DEF Next
<1> QED
  BY InvInit, <1>1, PTL DEF Spec

-----------------------------------------------------------------------------
(* The theorems *)

\* For every batch and every list of directories, the copies of the transaction
\* stay well formed, and no directory is ever missing around a file or a
\* directory that is in it.
THEOREM TypeCorrect == Spec => []TypeOK
BY Invariance, PTL DEF OwnedInv

\* Whatever fails, crashes or is cancelled around the checkpoints, and however
\* often a rollback is repeated: a file that is away from its source is known to
\* the journal, which is offered for rollback when no call runs, unless undoing
\* that entry was tried and failed.
THEOREM MovedAlwaysUndoable == Spec => []MovedIsUndoable
<1>1. OwnedInv => MovedIsUndoable
  <2> SUFFICES ASSUME OwnedInv, NEW e \in Files, at[e] = "home"
               PROVE  /\ journal # None
                      /\ \/ journal.entry[e] = "RollbackFailed"
                         \/ /\ journal.entry[e] \in {"Applying", "Applied", "RollingBack"}
                            /\ pc = "idle" => is_rollbackable(Reconciled(journal))
    BY DEF MovedIsUndoable
  <2>1. journal # None /\ journal \in Transaction /\ Knows(journal) /\ FilesOK
    BY TypeParts DEF OwnedInv, RecordsInv, CopiesOK
  <2>2. CASE journal.entry[e] = "RollbackFailed"
    BY <2>1, <2>2
  <2>3. CASE journal.entry[e] # "RollbackFailed"
    <3>1. journal.entry[e] \in {"Applying", "Applied", "RollingBack"}
      BY <2>1, <2>3 DEF Knows
    <3>2. Reconciled(journal).entry[e] = "Applied"
      BY <2>1, <3>1 DEF Reconciled, ReconciledEntry, Transaction
    <3>3. Reconciled(journal) \in Transaction /\ Knows(Reconciled(journal))
      BY <2>1, Reconciling
    <3>4. Reconciled(journal).state \in TransactionState \ {"RolledBack"}
      BY <3>2, <3>3 DEF Knows, Transaction
    <3>5. is_rollbackable(Reconciled(journal))
      BY <3>2, <3>4 DEF is_rollbackable, needs_recovery, TransactionState, EntryState
    <3> QED
      BY <2>1, <3>1, <3>5
  <2> QED
    BY <2>2, <2>3
<1> QED
  BY Invariance, <1>1, PTL

\* For every batch: each time the survivor is lost, at most the one duplicate
\* that was already proved against it is moved away without it.
THEOREM LossCostsOneDuplicate == Spec => []OneDuplicatePerLoss
<1>1. OwnedInv => OneDuplicatePerLoss
  BY DEF OwnedInv, LateInv, OneDuplicatePerLoss
<1> QED
  BY Invariance, <1>1, PTL

\* For every list of directories: between the creation of a directory and the
\* write that claims it lies the only one the journal does not know of, unless
\* a refused organisation gave up its claims.
THEOREM OneUnclaimedAtMost == Spec => []AtMostOneUnclaimed
<1>1. OwnedInv => AtMostOneUnclaimed
  <2> SUFFICES ASSUME OwnedInv PROVE AtMostOneUnclaimed
    OBVIOUS
  <2>1. CASE Abandoned
    <3>1. Claimed(journal) = {}
      BY <2>1, EmptyRange DEF Abandoned, Claimed
    <3> QED
      BY <2>1, <3>1 DEF Abandoned, AtMostOneUnclaimed
  <2>2. CASE ~Abandoned
    <3>1. PICK x \in Dirs : Ours \subseteq Claimed(journal) \cup {x}
      BY <2>2 DEF OwnedInv, OursInv
    <3>2. Ours \ Claimed(journal) \subseteq {x} /\ IsFiniteSet({x}) /\ Cardinality({x}) = 1
      BY <3>1, FS_Singleton
    <3>3. Cardinality(Ours \ Claimed(journal)) <= 1
      BY <3>2, FS_Subset
    <3> QED
      BY <3>3 DEF AtMostOneUnclaimed, Ours
  <2> QED
    BY <2>1, <2>2
<1> QED
  BY Invariance, <1>1, PTL

\* The only steps of the program that remove a directory.
LEMMA Removals ==
    ASSUME OwnedInv, [Next]_vars, user' = user, NEW d \in Dirs, dir[d] = "user", dir'[d] = "none"
    PROVE  /\ pc \in {"cleanUp", "rmDirs"} /\ todo # <<>>
           /\ dir' = [dir EXCEPT ![Head(todo)] = "none"]
<1>1. dir' # dir
  OBVIOUS
<1>2. user \in Nat /\ ~User
  BY OwnedMovesAssumption DEF OwnedInv, TypeOK, User
<1>3. dir \in [Dirs -> {"none", "user", "ours"}]
  BY DEF OwnedInv, TypeOK
<1>4. CASE Apply
  <2>1. ~MakeDir
    BY <1>3 DEF MakeDir
  <2>2. CleanUpDir
    BY <1>1, <1>4, <2>1
    DEF Apply, BeginApply, BatchProof, ClaimDir, DirExists, MakeDirFails, DirsDone,
        PreflightPasses, PreflightConflict, DropClaims, ExecutorRefuses, ExecutorStarts,
        EntryCancelled, CheckEntry, Checkpoint, Move, MoveFails, Record, RecordFailure,
        FinishApply, Save, SaveAndReturn, files
  <2> QED
    BY <1>1, <2>2 DEF CleanUpDir
<1>5. CASE Rollback
  <2>1. RemoveOwnedDir
    BY <1>1, <1>5
    DEF Rollback, RollbackFromHistory, RollbackOwn, RbReconcile, RbAlreadyDone, RbEnter, RbSkip,
        RbCheckpoint, RbMove, RbMoveFails, RbRecord, RbDone, RbFinal, RollbackReturns, Save,
        SaveAndReturn, files
  <2> QED
    BY <1>1, <2>1 DEF RemoveOwnedDir
<1> QED
  BY <1>1, <1>2, <1>4, <1>5 DEF Next, Crash, Cancel, files, vars

\* For every list of directories: a rollback and a clean-up remove no directory
\* of the user, except one made under a name that was already claimed.
THEOREM UserDirsAlwaysKept == Spec => UserDirsKept
<1>1. ASSUME OwnedInv, [Next]_vars, user' = user, NEW d \in Dirs, dir[d] = "user",
             dir'[d] = "none"
      PROVE  d \in remade
  <2>1. /\ pc \in {"cleanUp", "rmDirs"} /\ todo # <<>> /\ pc # "idle"
        /\ dir' = [dir EXCEPT ![Head(todo)] = "none"] /\ dir \in [Dirs -> {"none", "user", "ours"}]
    BY <1>1, Removals DEF OwnedInv, TypeOK
  <2>2. /\ todo \in Seq(Dirs) /\ Range(todo) \subseteq Range(mem.created_directories)
        /\ mem # None
    BY <1>1, <2>1, Running DEF CallOK, TodoOK, DirPcs
  <2>3. Head(todo) \in Claimed(mem)
    BY <2>1, <2>2, TailRange DEF Claimed
  <2>4. d = Head(todo)
    BY <1>1, <2>1
  <2> QED
    BY <1>1, <2>3, <2>4 DEF OwnedInv, UserInv
<1>2. OwnedInv /\ [Next]_vars =>
        [\A d \in Dirs : dir[d] = "user" /\ dir'[d] = "none" /\ user' = user => d \in remade]_vars
  BY <1>1
<1> QED
  BY Invariance, <1>2, PTL DEF Spec, UserDirsKept

\* For every batch: the journal never takes back that an entry was undone; the
\* organisation page alone can make it do so.
THEOREM UndoneAlwaysStays == Spec => UndoneStaysUndone
<1>1. ASSUME OwnedInv, [Next]_vars, NEW e \in Files, journal # None,
             journal.entry[e] = "RolledBack", journal'.entry[e] # "RolledBack"
      PROVE  own /\ kind = "organise"
  <2>1. journal' # journal
    BY <1>1
  <2>2. journal \in Transaction /\ Knows(journal) /\ FilesOK
    BY <1>1, TypeParts DEF OwnedInv, RecordsInv, CopiesOK
  <2>3. Reconciled(journal).entry[e] = "RolledBack"
    BY <1>1, <2>2, Reconciling
  <2>4. pc # "idle" /\ pc \notin ApplyPcs
    <3>1. pc # "idle"
      BY <1>1, <2>1, <2>3
      DEF Next, Apply, Rollback, BeginApply, BatchProof, MakeDir, ClaimDir, DirExists,
          MakeDirFails, DirsDone, PreflightPasses, PreflightConflict, CleanUpDir, DropClaims,
          ExecutorRefuses, ExecutorStarts, EntryCancelled, CheckEntry, Checkpoint, Move,
          MoveFails, Record, RecordFailure, FinishApply, RollbackFromHistory, RollbackOwn,
          RbReconcile, RbAlreadyDone, RbEnter, RbSkip, RbCheckpoint, RbMove, RbMoveFails,
          RbRecord, RbDone, RbFinal, RemoveOwnedDir, RollbackReturns, Crash, Cancel, User,
          call, vars
    <3>2. pc \notin ApplyPcs
      BY <1>1, ApplyRunning DEF ApplyOK
    <3> QED
      BY <3>1, <3>2
  <2>5. pc \in RollbackPcs
    BY <1>1, <2>4, Running DEF CallOK
  <2>6. SUFFICES ASSUME ~(own /\ kind = "organise") PROVE FALSE
    OBVIOUS
  <2>7. mem.entry[e] = "RolledBack" /\ mem \in Transaction /\ Knows(mem)
    BY <1>1, <2>5, <2>6, RollbackRunning, Running DEF RollbackOK
  <2>8. Reconciled(mem).entry[e] = "RolledBack"
    BY <2>2, <2>7, Reconciling
  <2>9. WithState(mem, "RollingBack").entry[e] = "RolledBack"
    BY <2>7, StateUpdate DEF TransactionState, EntryState
  <2>10. ASSUME RbCheckpoint, journal' = WithEntry(mem, Head(todo), "RollingBack") PROVE FALSE
    <3>1. mem.entry[Head(todo)] = "Applied" /\ todo # <<>> /\ pc = "rbLoop"
      BY <2>10 DEF RbCheckpoint
    <3>2. Head(todo) \in Files /\ Head(todo) # e
      BY <1>1, <2>5, <2>7, <3>1, RollbackRunning, TailRange DEF TodoOK, FilePcs
    <3>3. journal'.entry[e] = mem.entry[e]
      <4>1. "RollingBack" \in EntryState
        BY DEF EntryState
      <4> QED
        BY <2>7, <2>10, <3>2, <4>1, EntryUpdate
    <3> QED
      BY <1>1, <2>7, <3>3
  <2>11. Rollback
    BY <1>1, <2>1, <2>4, <2>5
    DEF Next, Apply, ApplyPcs, BeginApply, BatchProof, MakeDir, ClaimDir, DirExists, MakeDirFails,
        DirsDone, PreflightPasses, PreflightConflict, CleanUpDir, DropClaims, ExecutorRefuses,
        ExecutorStarts, EntryCancelled, CheckEntry, Checkpoint, Move, MoveFails, Record,
        RecordFailure, FinishApply, Crash, Cancel, User, call, vars
  <2>12. journal' \in {mem, Reconciled(mem), WithState(mem, "RollingBack")}
    BY <2>1, <2>4, <2>10, <2>11
    DEF Rollback, RollbackFromHistory, RollbackOwn, RbReconcile, RbAlreadyDone, RbEnter, RbSkip,
        RbCheckpoint, RbMove, RbMoveFails, RbRecord, RbDone, RbFinal, RemoveOwnedDir,
        RollbackReturns, Save, SaveAndReturn, WriteFails
  <2> QED
    BY <1>1, <2>7, <2>8, <2>9, <2>12
<1>2. OwnedInv /\ [Next]_vars =>
        [\A e \in Files :
            /\ journal # None /\ journal.entry[e] = "RolledBack"
            /\ journal'.entry[e] # "RolledBack"
            => own /\ kind = "organise"]_vars
  BY <1>1
<1> QED
  BY Invariance, <1>2, PTL DEF Spec, UndoneStaysUndone
=============================================================================
