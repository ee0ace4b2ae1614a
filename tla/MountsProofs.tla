---------------------------- MODULE MountsProofs ----------------------------
(***************************************************************************)
(* The mount lifecycle, for any number of processes and archives.  No lock *)
(* orders the calls: what holds rests on what each call has looked at      *)
(* before it acts, and on the kernel's own refusals.                       *)
(***************************************************************************)
EXTENDS Mounts, FiniteSetTheorems, TLAPS

\* The calls that have found target t free, or their programs, that may still cover it.
Covering(t) ==
  {p \in Runners : /\ proc[p].pc \in {"prepare", "revalidate", "command"}
                 /\ proc[p].op = "mount" /\ proc[p].path = t}

\* One for each process and for each program that has outlived its call.
Bound == Cardinality(Procs \cup used)

\* A mount on t uses up the one chance its call had, and a call gets that chance only
\* while nothing is mounted on t.
PileInv ==
  \A t \in Targets : Len(table[t]) + Cardinality(Covering(t)) <= Bound

\* A target that the last check found uncovered held no file, and still holds none
\* unless the call is late.
LateInv ==
  \A p \in Runners :
    /\ proc[p].pc = "command" /\ proc[p].op = "mount"
    /\ ~proc[p].late /\ proc[p].path \notin Mounted
    => proc[p].path \notin files

\* While the library does not change, a path belongs to one archive: for the calls
\* that have planned it and for what is mounted on it.
PlanInv ==
  changes = 0 =>
    /\ \A p \in Runners : InCall(p) => proc[p].a \in library /\ proc[p].path = Plan(proc[p].a)
    /\ \A t \in Targets : \A i \in 1 .. Len(table[t]) :
         table[t][i] \in library /\ Plan(table[t][i]) = t

MountsInv == TypeOK /\ PileInv /\ LateInv /\ PlanInv

-----------------------------------------------------------------------------
(* Calls and plans *)

\* A process in a call has a call's record.
LEMMA CallFacts ==
  ASSUME TypeOK, NEW p \in Runners
  PROVE  /\ proc[p] \in Call \cup Rest
         /\ InCall(p) => proc[p] \in Call
         /\ proc[p] \in Call => InCall(p)
  BY DEF TypeOK, InCall, Call, Rest

\* The fields of a call, one by one.
LEMMA CallFields ==
  ASSUME NEW c \in Call
  PROVE  /\ c.pc \in {"planned", "prepare", "revalidate", "command", "verify", "check",
                      "remove"}
         /\ c.op \in Ops /\ c.a \in Archives /\ c.path \in Targets /\ c.dir \in Dirs
         /\ c.tries \in 0 .. 2 /\ c.kept \in BOOLEAN /\ c.under \in Seq(Archives)
         /\ c.late \in BOOLEAN
  BY DEF Call

\* Processes and the programs that outlive them are different runners, finitely many.
LEMMA RunnerFacts ==
  /\ Procs \subseteq Runners /\ Orphans \subseteq Runners /\ Procs \cap Orphans = {}
  /\ IsFiniteSet(Runners)
  BY MountsAssumption, FS_Union DEF Runners

LEMMA RestFacts ==
  ASSUME NEW s \in {"mounted", "other"}
  PROVE  [pc |-> "idle", said |-> s] \in Call \cup Rest
  BY DEF Rest

LEMMA PlanFacts ==
  /\ \A a \in Archives : Plan(a) \in Targets
  /\ \A a, b \in library : Plan(a) = Plan(b) => a = b
  BY DEF Plan, Targets

\* A process in one call and a target: what another process does to the target leaves
\* the call where it was.
Nudged(q) ==
  /\ proc'[q] \in Call \cup Rest
  /\ proc'[q].pc = proc[q].pc
  /\ InCall(q) => /\ proc'[q].op = proc[q].op /\ proc'[q].a = proc[q].a
                  /\ proc'[q].path = proc[q].path
                  /\ proc[q].late => proc'[q].late

LEMMA OthersFacts ==
  ASSUME TypeOK, NEW p \in Runners, NEW next \in Call \cup Rest, NEW target,
         NEW removed \in BOOLEAN, Others(p, next, target, removed)
  PROVE  /\ proc' \in [Runners -> Call \cup Rest] /\ proc'[p] = next
         /\ \A q \in Runners \ {p} : /\ Nudged(q)
                                     /\ Starting(q) /\ proc[q].path = target => proc'[q].late
  <1>1. proc'[p] = next
    BY DEF Others
  <1>2. ASSUME NEW q \in Runners \ {p}
        PROVE  Nudged(q) /\ (Starting(q) /\ proc[q].path = target => proc'[q].late)
    <2>1. CASE InCall(q) /\ proc[q].path = target
      <3>1. proc'[q] = [proc[q] EXCEPT !.late = @ \/ Starting(q), !.kept = @ /\ ~removed]
        BY <2>1 DEF Others
      <3>2. proc[q] \in Call
        BY <2>1, CallFacts
      <3> DEFINE k == proc[q].kept /\ ~removed
                 l == proc[q].late \/ Starting(q)
      <3>3. k \in BOOLEAN /\ l \in BOOLEAN
        BY DEF Starting
      <3>4. proc'[q] = [proc[q] EXCEPT !.late = l, !.kept = k]
        BY <3>1
      <3>5. (Starting(q) => l) /\ (proc[q].late => l)
        OBVIOUS
      <3> HIDE DEF k, l
      <3>6. proc'[q] \in Call /\ proc'[q].late = l /\ proc'[q].pc = proc[q].pc
            /\ proc'[q].op = proc[q].op /\ proc'[q].a = proc[q].a
            /\ proc'[q].path = proc[q].path
        BY <3>2, <3>3, <3>4 DEF Call
      <3> QED
        BY <3>5, <3>6 DEF Nudged
    <2>2. CASE ~(InCall(q) /\ proc[q].path = target)
      <3>1. proc'[q] = proc[q]
        BY <2>2 DEF Others
      <3> QED
        BY <2>2, <3>1, CallFacts DEF Nudged, Starting, InCall
    <2> QED
      BY <2>1, <2>2
  <1>3. proc' \in [Runners -> Call \cup Rest]
    <2>1. \A q \in Runners : proc'[q] \in Call \cup Rest
      BY <1>1, <1>2 DEF Nudged
    <2>2. proc' = [q \in Runners |-> proc'[q]]
      BY DEF Others
    <2> QED
      BY <2>1, <2>2
  <1> QED
    BY <1>1, <1>2, <1>3

\* The calls and programs that may cover a target are at most one per process and per
\* program that has outlived its call.
LEMMA CoveringFinite ==
  ASSUME TypeOK, NEW t \in Targets
  PROVE  /\ IsFiniteSet(Covering(t)) /\ Cardinality(Covering(t)) \in Nat
         /\ Bound \in Nat /\ Cardinality(Covering(t)) <= Bound
  <1>1. Covering(t) \subseteq Procs \cup used
    BY DEF Covering, TypeOK, InCall, Runners
  <1>2. Procs \cup used \subseteq Runners
    BY DEF TypeOK, Runners
  <1>3. IsFiniteSet(Procs \cup used)
    BY <1>2, RunnerFacts, FS_Subset
  <1> QED
    BY <1>1, <1>3, FS_Subset, FS_CardinalityType DEF Bound

\* A step of p moves no other call towards covering t.
LEMMA CoveringShrinks ==
  ASSUME TypeOK, NEW p \in Runners, NEW t \in Targets,
         \A q \in Runners \ {p} : Nudged(q),
         p \in Covering(t)' => p \in Covering(t)
  PROVE  /\ Covering(t)' \subseteq Covering(t)
         /\ IsFiniteSet(Covering(t)') /\ Cardinality(Covering(t)') \in Nat
         /\ Cardinality(Covering(t)') <= Cardinality(Covering(t))
         /\ p \in Covering(t) /\ p \notin Covering(t)'
              => Cardinality(Covering(t)') <= Cardinality(Covering(t)) - 1
  <1>1. Covering(t)' \subseteq Covering(t)
    <2> SUFFICES ASSUME NEW q \in Covering(t)', q # p PROVE q \in Covering(t)
      OBVIOUS
    <2>1. q \in Runners /\ Nudged(q)
      BY DEF Covering
    <2>2. proc'[q].pc \in {"prepare", "revalidate", "command"}
          /\ proc'[q].op = "mount" /\ proc'[q].path = t
      BY DEF Covering
    <2>3. InCall(q)
      BY <2>1, <2>2 DEF Nudged, InCall
    <2> QED
      BY <2>1, <2>2, <2>3 DEF Nudged, Covering
  <1>2. IsFiniteSet(Covering(t)) /\ Cardinality(Covering(t)) \in Nat
    BY CoveringFinite
  <1>3. IsFiniteSet(Covering(t)') /\ Cardinality(Covering(t)') \in Nat
        /\ Cardinality(Covering(t)') <= Cardinality(Covering(t))
    BY <1>1, <1>2, FS_Subset, FS_CardinalityType
  <1>4. ASSUME p \in Covering(t), p \notin Covering(t)'
        PROVE  Cardinality(Covering(t)') <= Cardinality(Covering(t)) - 1
    <2>1. Covering(t)' \subseteq Covering(t) \ {p}
      BY <1>1, <1>4
    <2>2. /\ IsFiniteSet(Covering(t) \ {p})
          /\ Cardinality(Covering(t) \ {p}) = Cardinality(Covering(t)) - 1
      BY <1>2, <1>4, FS_RemoveElement
    <2> QED
      BY <2>1, <2>2, FS_Subset
  <1> QED
    BY <1>1, <1>3, <1>4

-----------------------------------------------------------------------------
(* The steps *)

\* The directories below the mount root, after a step that mounts nothing.
DirsOK(d) ==
  /\ d \subseteq Dirs /\ files \subseteq d /\ Mounted \subseteq d
  /\ d \cap Targets # {} => Platform \in d

\* A call goes on to r and neither the mount table nor the files change.
LEMMA CallStep ==
  ASSUME MountsInv, NEW p \in Procs, NEW r \in Call \cup Rest,
         proc' = [proc EXCEPT ![p] = r],
         UNCHANGED <<library, table, files, used, changes, puts>>, DirsOK(dirs'),
         r.pc # "idle" => r \in Call,
         r.pc # "idle" /\ changes = 0 => r.a \in library /\ r.path = Plan(r.a),
         r.pc \in {"prepare", "revalidate", "command"} /\ r.op = "mount"
           => p \in Covering(r.path) \/ table[r.path] = <<>>,
         r.pc = "command" /\ r.op = "mount" /\ ~r.late /\ r.path \notin Mounted
           => r.path \notin files
  PROVE  MountsInv'
  <1> USE DEF MountsInv
  <1>0. p \in Runners /\ p \notin Orphans
    BY RunnerFacts
  <1>1. /\ proc' \in [Runners -> Call \cup Rest] /\ proc'[p] = r
        /\ \A q \in Runners \ {p} : proc'[q] = proc[q]
    BY <1>0 DEF TypeOK
  <1>2. Mounted' = Mounted /\ \A a : Plan(a)' = Plan(a)
    BY DEF Mounted, Plan
  <1>3. TypeOK'
    <2>1. \A o \in Orphans : InCall(o)' => o \in used' /\ proc'[o].pc = "command"
      BY <1>0, <1>1, RunnerFacts DEF TypeOK, InCall
    <2> QED
      BY <1>1, <1>2, <2>1 DEF TypeOK, DirsOK
  <1>4. PileInv'
    <2> SUFFICES ASSUME NEW t \in Targets
                 PROVE  Len(table[t]) + Cardinality(Covering(t)') <= Bound
      BY DEF PileInv, Bound
    <2>1. Len(table[t]) \in Nat /\ Len(table[t]) + Cardinality(Covering(t)) <= Bound
      BY DEF TypeOK, PileInv
    <2>2. Cardinality(Covering(t)) \in Nat /\ Bound \in Nat
      BY CoveringFinite
    <2>3. CASE p \in Covering(t)' => p \in Covering(t)
      <3>1. \A q \in Runners \ {p} : Nudged(q)
        BY <1>1, CallFacts DEF Nudged
      <3>2. /\ Cardinality(Covering(t)') \in Nat
            /\ Cardinality(Covering(t)') <= Cardinality(Covering(t))
        BY <1>0, <2>3, <3>1, CoveringShrinks
      <3> QED
        BY <2>1, <2>2, <3>2
    <2>4. CASE p \in Covering(t)' /\ p \notin Covering(t)
      <3>1. r.pc \in {"prepare", "revalidate", "command"} /\ r.op = "mount" /\ r.path = t
        BY <1>1, <2>4 DEF Covering
      <3>2. Len(table[t]) = 0
        BY <2>4, <3>1
      <3>3. Covering(t)' \subseteq Procs \cup used
        BY <1>3 DEF Covering, TypeOK, InCall, Runners
      <3>4. Procs \cup used \subseteq Runners
        BY DEF TypeOK, Runners
      <3>5. IsFiniteSet(Procs \cup used)
        BY <3>4, RunnerFacts, FS_Subset
      <3>6. Cardinality(Covering(t)') \in Nat /\ Cardinality(Covering(t)') <= Bound
        BY <3>3, <3>5, FS_Subset, FS_CardinalityType DEF Bound
      <3> QED
        BY <2>2, <3>2, <3>6
    <2> QED
      BY <2>3, <2>4
  <1>5. LateInv'
    BY <1>1, <1>2 DEF LateInv
  <1>6. PlanInv'
    BY <1>1, <1>2 DEF PlanInv, InCall
  <1> QED
    BY <1>3, <1>4, <1>5, <1>6

\* A call that returns.
LEMMA ReturnStep ==
  ASSUME MountsInv, NEW p \in Procs,
         NEW said \in {"mounted", "other"},
         Return(p, said), UNCHANGED <<library, table, dirs, files, used, changes, puts>>
  PROVE  MountsInv'
  <1> DEFINE r == [pc |-> "idle", said |-> said]
  <1>1. r \in Call \cup Rest /\ r.pc = "idle"
    BY RestFacts
  <1>2. proc' = [proc EXCEPT ![p] = r]
    BY DEF Return
  <1>3. DirsOK(dirs')
    BY DEF MountsInv, TypeOK, DirsOK
  <1> HIDE DEF r
  <1> QED
    BY <1>1, <1>2, <1>3, CallStep

\* A call that changes only where it is.
LEMMA GotoStep ==
  ASSUME MountsInv, NEW p \in Procs, InCall(p),
         NEW pc \in {"prepare", "command", "remove"}, Goto(p, pc),
         UNCHANGED <<library, table, dirs, files, used, changes, puts>>,
         pc \in {"prepare", "command"} /\ proc[p].op = "mount"
           => pc = "prepare" /\ proc[p].path \notin Mounted
  PROVE  MountsInv'
  <1> USE DEF MountsInv
  <1> DEFINE r == [proc[p] EXCEPT !.pc = pc]
  <1>1. proc[p] \in Call
    BY CallFacts, RunnerFacts
  <1>2. /\ r \in Call /\ r.pc = pc /\ r.op = proc[p].op /\ r.a = proc[p].a
        /\ r.path = proc[p].path
    BY <1>1 DEF Call
  <1>3. proc' = [proc EXCEPT ![p] = r]
    BY DEF Goto
  <1>4. DirsOK(dirs')
    BY DEF TypeOK, DirsOK
  <1>5. changes = 0 => r.a \in library /\ r.path = Plan(r.a)
    BY <1>2, RunnerFacts DEF PlanInv
  <1>6. r.path \in Targets /\ (r.path \notin Mounted => table[r.path] = <<>>)
    BY <1>2, CallFields DEF Mounted
  <1> HIDE DEF r
  <1> QED
    BY <1>2, <1>3, <1>4, <1>5, <1>6, CallStep

LEMMA BeginKeeps ==
  ASSUME MountsInv, NEW p \in Procs, NEW op \in Ops, NEW a \in Archives, Begin(p, op, a)
  PROVE  MountsInv'
  <1> DEFINE r == [pc |-> "planned", op |-> op, a |-> a, path |-> Plan(a),
                   dir |-> Platform, kept |-> FALSE, under |-> <<>>, tries |-> 0,
                   late |-> FALSE]
  <1>1. r \in Call /\ r.pc = "planned" /\ r.a = a /\ r.path = Plan(a)
    <2>1. Plan(a) \in Targets /\ Platform \in Dirs /\ <<>> \in Seq(Archives)
      BY PlanFacts DEF Dirs
    <2> QED
      BY <2>1 DEF Call
  <1>2. proc' = [proc EXCEPT ![p] = r] /\ a \in library
        /\ UNCHANGED <<library, table, dirs, files, used, changes, puts>>
    BY DEF Begin
  <1>3. DirsOK(dirs')
    BY <1>2 DEF MountsInv, TypeOK, DirsOK
  <1> HIDE DEF r
  <1> QED
    BY <1>1, <1>2, <1>3, CallStep

LEMMA TableReadsKeep ==
  ASSUME MountsInv, NEW p \in Procs,
         ReadMountTable(p) \/ ReadTableForUnmount(p) \/ VerifyMounted(p) \/ CheckDir(p)
  PROVE  MountsInv'
  <1> USE DEF InCall
  <1>1. CASE ReadMountTable(p)
    <2>1. CASE proc[p].path \in Mounted
      BY <1>1, <2>1, ReturnStep DEF ReadMountTable
    <2>2. CASE proc[p].path \notin Mounted
      BY <1>1, <2>2, GotoStep DEF ReadMountTable
    <2> QED
      BY <2>1, <2>2
  <1>2. CASE ReadTableForUnmount(p)
    <2>1. CASE proc[p].path \in Mounted
      BY <1>2, <2>1, GotoStep DEF ReadTableForUnmount
    <2>2. CASE proc[p].path \notin Mounted
      BY <1>2, <2>2, ReturnStep DEF ReadTableForUnmount
    <2> QED
      BY <2>1, <2>2
  <1>3. CASE VerifyMounted(p)
    BY <1>3, ReturnStep DEF VerifyMounted
  <1>4. CASE CheckDir(p)
    BY <1>4, ReturnStep, GotoStep DEF CheckDir
  <1> QED
    BY <1>1, <1>2, <1>3, <1>4

\* The process is killed: what it waited for, if anything, runs on in its place.
LEMMA KilledKeeps ==
  ASSUME MountsInv, NEW p \in Procs, Killed(p)
  PROVE  MountsInv'
  <1> USE DEF MountsInv
  <1>0. InCall(p) /\ p \in Runners /\ p \notin Orphans
        /\ UNCHANGED <<library, table, dirs, files, changes, puts>>
    BY RunnerFacts DEF Killed
  <1>1. CASE Return(p, "other") /\ UNCHANGED used
    BY <1>0, <1>1, ReturnStep
  <1>2. CASE proc[p].pc = "command" /\ ~UNCHANGED used
    <2> DEFINE i == [pc |-> "idle", said |-> "other"]
               r == [proc[p] EXCEPT !.tries = 0]
    <2>1. PICK o \in Orphans \ used : /\ proc' = [proc EXCEPT ![p] = i, ![o] = r]
                                      /\ used' = used \cup {o}
      BY <1>2 DEF Killed
    <2>2. proc[p] \in Call /\ i \in Call \cup Rest /\ i.pc = "idle"
      BY <1>0, CallFacts, RestFacts
    <2>3. r \in Call /\ r.pc = proc[p].pc /\ r.op = proc[p].op /\ r.a = proc[p].a
          /\ r.path = proc[p].path /\ r.late = proc[p].late
      BY <2>2 DEF Call
    <2> HIDE DEF i, r
    <2>4. o \in Runners /\ o # p /\ proc[o].pc = "idle"
      BY <1>0, <2>1, RunnerFacts DEF TypeOK, InCall
    <2>5. /\ proc' \in [Runners -> Call \cup Rest] /\ proc'[p] = i /\ proc'[o] = r
          /\ \A q \in Runners \ {p, o} : proc'[q] = proc[q]
      BY <1>0, <2>1, <2>2, <2>3, <2>4 DEF TypeOK
    <2>6. Mounted' = Mounted /\ \A a : Plan(a)' = Plan(a)
      BY <1>0 DEF Mounted, Plan
    <2>7. TypeOK'
      <3>1. ASSUME NEW x \in Orphans, InCall(x)' PROVE x \in used' /\ proc'[x].pc = "command"
        <4>1. CASE x = o
          BY <1>2, <2>1, <2>3, <2>5, <4>1
        <4>2. CASE x # o
          BY <1>0, <2>1, <2>5, <3>1, <4>2, RunnerFacts DEF TypeOK, InCall
        <4> QED
          BY <4>1, <4>2
      <3> QED
        BY <1>0, <2>1, <2>5, <2>6, <3>1 DEF TypeOK
    <2>8. PileInv'
      <3> SUFFICES ASSUME NEW t \in Targets
                   PROVE  Len(table[t]) + Cardinality(Covering(t)') <= Bound'
        BY <1>0 DEF PileInv
      <3>1. Len(table[t]) \in Nat /\ Len(table[t]) + Cardinality(Covering(t)) <= Bound
        BY DEF TypeOK, PileInv
      <3>2. IsFiniteSet(Covering(t)) /\ Cardinality(Covering(t)) \in Nat /\ Bound \in Nat
        BY CoveringFinite
      <3>3. Covering(t)' \subseteq Covering(t) \cup {o}
        BY <2>2, <2>5 DEF Covering
      <3>4. /\ IsFiniteSet(Covering(t) \cup {o})
            /\ Cardinality(Covering(t) \cup {o}) <= Cardinality(Covering(t)) + 1
            /\ Cardinality(Covering(t) \cup {o}) \in Nat
        BY <3>2, FS_AddElement, FS_CardinalityType
      <3>5. Cardinality(Covering(t)') \in Nat
            /\ Cardinality(Covering(t)') <= Cardinality(Covering(t) \cup {o})
        BY <3>3, <3>4, FS_Subset, FS_CardinalityType
      <3>6. Bound' = Bound + 1
        <4>1. Procs \cup used \subseteq Runners /\ o \notin Procs \cup used
          BY <2>1, RunnerFacts DEF TypeOK, Runners
        <4>2. IsFiniteSet(Procs \cup used)
          BY <4>1, RunnerFacts, FS_Subset
        <4>3. Procs \cup used' = (Procs \cup used) \cup {o}
          BY <2>1
        <4> QED
          BY <4>1, <4>2, <4>3, FS_AddElement DEF Bound
      <3> QED
        BY <3>1, <3>2, <3>4, <3>5, <3>6
    <2>9. LateInv'
      BY <1>0, <2>2, <2>3, <2>5, <2>6 DEF LateInv
    <2>10. PlanInv'
      BY <1>0, <2>2, <2>3, <2>5, <2>6 DEF PlanInv, InCall
    <2> QED
      BY <2>7, <2>8, <2>9, <2>10
  <1> QED
    BY <1>1, <1>2 DEF Killed

\* The target is made and looked at; what the call may cover is settled already.
LEMMA PrepareKeeps ==
  ASSUME MountsInv, NEW p \in Procs, Prepare(p)
  PROVE  MountsInv'
  <1> USE DEF MountsInv
  <1>1. CASE Return(p, "other") /\ UNCHANGED dirs
    BY <1>1, ReturnStep DEF Prepare
  <1>2. CASE /\ dirs' = dirs \cup {proc[p].path, Platform}
             /\ proc' = [proc EXCEPT ![p].pc = "revalidate", ![p].kept = TRUE,
                                     ![p].under = table[proc[p].path]]
    <2> DEFINE r == [proc[p] EXCEPT !.pc = "revalidate", !.kept = TRUE,
                                    !.under = table[proc[p].path]]
    <2>1. proc[p] \in Call /\ proc[p].pc = "prepare" /\ InCall(p)
      BY CallFacts, RunnerFacts DEF Prepare, InCall
    <2>2. table[proc[p].path] \in Seq(Archives) /\ proc[p].path \in Targets
      BY <2>1, CallFields DEF TypeOK
    <2>3. /\ r \in Call /\ r.pc = "revalidate" /\ r.op = proc[p].op /\ r.a = proc[p].a
          /\ r.path = proc[p].path
      BY <2>1, <2>2 DEF Call
    <2>4. proc' = [proc EXCEPT ![p] = r]
      BY <1>2
    <2>5. UNCHANGED <<library, table, files, used, changes, puts>>
      BY DEF Prepare
    <2>6. DirsOK(dirs')
      BY <1>2, <2>2 DEF TypeOK, DirsOK, Dirs
    <2>7. changes = 0 => r.a \in library /\ r.path = Plan(r.a)
      BY <2>1, <2>3, RunnerFacts DEF PlanInv
    <2>8. r.op = "mount" => p \in Covering(r.path)
      BY <2>1, <2>3, RunnerFacts DEF Covering
    <2> HIDE DEF r
    <2> QED
      BY <2>3, <2>4, <2>5, <2>6, <2>7, <2>8, CallStep
  <1> QED
    BY <1>1, <1>2 DEF Prepare

\* The target is looked at again: an uncovered one that looks empty holds no file.
LEMMA RevalidateKeeps ==
  ASSUME MountsInv, NEW p \in Procs, Revalidate(p)
  PROVE  MountsInv'
  <1> USE DEF MountsInv
  <1>1. CASE Return(p, "other")
    BY <1>1, ReturnStep DEF Revalidate
  <1>2. CASE /\ LooksEmpty(proc[p].path)
             /\ proc' = [proc EXCEPT ![p].pc = "command", ![p].kept = FALSE, ![p].under = <<>>]
    <2> DEFINE r == [proc[p] EXCEPT !.pc = "command", !.kept = FALSE, !.under = <<>>]
    <2>1. proc[p] \in Call /\ proc[p].pc = "revalidate" /\ InCall(p)
      BY CallFacts, RunnerFacts DEF Revalidate, InCall
    <2>0. <<>> \in Seq(Archives)
      OBVIOUS
    <2>2. /\ r \in Call /\ r.pc = "command" /\ r.op = proc[p].op /\ r.a = proc[p].a
          /\ r.path = proc[p].path
      BY <2>0, <2>1 DEF Call
    <2>3. proc' = [proc EXCEPT ![p] = r]
      BY <1>2
    <2>4. UNCHANGED <<library, table, dirs, files, used, changes, puts>>
      BY DEF Revalidate
    <2>5. DirsOK(dirs')
      BY <2>4 DEF TypeOK, DirsOK
    <2>6. changes = 0 => r.a \in library /\ r.path = Plan(r.a)
      BY <2>1, <2>2, RunnerFacts DEF PlanInv
    <2>7. r.op = "mount" => p \in Covering(r.path)
      BY <2>1, <2>2, RunnerFacts DEF Covering
    <2>8. r.path \notin Mounted => r.path \notin files
      BY <1>2, <2>2 DEF LooksEmpty
    <2> HIDE DEF r
    <2> QED
      BY <2>2, <2>3, <2>4, <2>5, <2>6, <2>7, <2>8, CallStep
  <1> QED
    BY <1>1, <1>2 DEF Revalidate

LEMMA CleanStepsKeep ==
  ASSUME MountsInv, NEW p \in Procs, VerifyUnmounted(p) \/ BeginClean(p)
  PROVE  MountsInv'
  <1> USE DEF MountsInv
  <1>0. InCall(p) /\ proc[p] \in Call /\ DirsOK(dirs)
    BY CallFacts, RunnerFacts DEF VerifyUnmounted, BeginClean, InCall, TypeOK, DirsOK
  <1>1. Return(p, "other") /\ UNCHANGED <<library, table, dirs, files, used, changes, puts>> => MountsInv'
    BY ReturnStep
  <1>2. CASE VerifyUnmounted(p) /\ proc' = [proc EXCEPT ![p].pc = "planned", ![p].op = "clean"]
    <2> DEFINE r == [proc[p] EXCEPT !.pc = "planned", !.op = "clean"]
    <2>1. r \in Call /\ r.pc = "planned" /\ r.a = proc[p].a /\ r.path = proc[p].path
      BY <1>0 DEF Call, Ops
    <2>2. proc' = [proc EXCEPT ![p] = r]
      BY <1>2
    <2>3. UNCHANGED <<library, table, dirs, files, used, changes, puts>>
      BY <1>2 DEF VerifyUnmounted
    <2>4. changes = 0 => r.a \in library /\ r.path = Plan(r.a)
      BY <1>0, <2>1, RunnerFacts DEF PlanInv
    <2> HIDE DEF r
    <2> QED
      BY <1>0, <2>1, <2>2, <2>3, <2>4, CallStep
  <1>3. CASE BeginClean(p) /\ proc' = [proc EXCEPT ![p].pc = "check", ![p].dir = proc[p].path]
    <2> DEFINE r == [proc[p] EXCEPT !.pc = "check", !.dir = proc[p].path]
    <2>1. r \in Call /\ r.pc = "check" /\ r.a = proc[p].a /\ r.path = proc[p].path
      BY <1>0 DEF Call, Dirs, Mounted
    <2>2. proc' = [proc EXCEPT ![p] = r]
      BY <1>3
    <2>3. UNCHANGED <<library, table, dirs, files, used, changes, puts>>
      BY <1>3 DEF BeginClean
    <2>4. changes = 0 => r.a \in library /\ r.path = Plan(r.a)
      BY <1>0, <2>1, RunnerFacts DEF PlanInv
    <2> HIDE DEF r
    <2> QED
      BY <1>0, <2>1, <2>2, <2>3, <2>4, CallStep
  <1> QED
    BY <1>1, <1>2, <1>3 DEF VerifyUnmounted, BeginClean

\* Where a command of p goes on: to its check, out of the call, or to the next unmount
\* program.
GoesOn(p, next) ==
  next \in Reported(p) \/ (proc[p].op = "unmount" /\ next \in TryNext(p))

LEMMA GoesOnFacts ==
  ASSUME TypeOK, NEW p \in Runners, proc[p].pc = "command", NEW next, GoesOn(p, next)
  PROVE  /\ next \in Call \cup Rest /\ next.pc \in {"verify", "idle", "command"}
         /\ next.pc = "command" => next.op = "unmount"
         /\ next.pc = "idle" => next.said = "other"
         /\ p \in Orphans => next.pc = "idle"
         /\ next.pc # "idle" => /\ next \in Call /\ next.a = proc[p].a
                                /\ next.path = proc[p].path /\ next.op = proc[p].op
  <1>1. proc[p] \in Call
    BY CallFacts DEF InCall
  <1>2. CASE next = [proc[p] EXCEPT !.pc = "verify", !.tries = 0, !.late = FALSE]
             /\ p \notin Orphans
    <2>1. 0 \in 0 .. 2 /\ FALSE \in BOOLEAN
      OBVIOUS
    <2>2. next \in Call
      BY <1>1, <1>2, <2>1 DEF Call
    <2>3. next.pc = "verify" /\ next.a = proc[p].a /\ next.path = proc[p].path
          /\ next.op = proc[p].op
      BY <1>1, <1>2 DEF Call
    <2> QED
      BY <1>2, <2>2, <2>3
  <1>3. CASE next = [pc |-> "idle", said |-> "other"]
    BY <1>3, RestFacts
  <1>4. CASE proc[p].op = "unmount" /\ next \in TryNext(p)
    <2>1. PICK n \in 1 .. 2 : p \notin Orphans /\ next = [proc[p] EXCEPT !.tries = n]
      BY <1>4 DEF TryNext
    <2> QED
      BY <1>1, <1>4, <2>1 DEF Call
  <1> QED
    BY <1>2, <1>3, <1>4 DEF GoesOn, Reported

\* A command changes what is mounted on its target: it adds a mount of its own archive,
\* and uses up its chance to, or takes mounts away.
LEMMA CommandStep ==
  ASSUME MountsInv, NEW p \in Runners, proc[p].pc = "command", NEW next, GoesOn(p, next),
         Others(p, next, proc[p].path, FALSE),
         NEW s \in Seq(Archives), table' = [table EXCEPT ![proc[p].path] = s],
         s # <<>> => proc[p].path \in dirs,
         \/ Len(s) <= Len(table[proc[p].path])
         \/ proc[p].op = "mount" /\ Len(s) <= Len(table[proc[p].path]) + 1,
         changes = 0 => \A i \in 1 .. Len(s) : s[i] \in library /\ Plan(s[i]) = proc[p].path,
         UNCHANGED <<library, dirs, files, used, changes, puts>>
  PROVE  MountsInv'
  <1> USE DEF MountsInv
  <1> DEFINE t == proc[p].path
  <1>1. proc[p] \in Call /\ t \in Targets /\ InCall(p)
    BY CallFacts, CallFields DEF InCall
  <1>2. /\ next \in Call \cup Rest /\ next.pc \in {"verify", "idle", "command"}
        /\ next.pc = "command" => next.op = "unmount"
        /\ p \in Orphans => next.pc = "idle"
        /\ next.pc # "idle" => /\ next \in Call /\ next.a = proc[p].a
                               /\ next.path = proc[p].path /\ next.op = proc[p].op
    BY GoesOnFacts
  <1>3. /\ proc' \in [Runners -> Call \cup Rest] /\ proc'[p] = next
        /\ \A q \in Runners \ {p} : /\ Nudged(q)
                                    /\ Starting(q) /\ proc[q].path = t => proc'[q].late
    BY <1>2, OthersFacts
  <1>4. /\ table' \in [Targets -> Seq(Archives)] /\ table'[t] = s
        /\ \A u \in Targets \ {t} : table'[u] = table[u]
    BY <1>1 DEF TypeOK
  <1>5. TypeOK'
    <2>1. Mounted' \subseteq dirs
      BY <1>1, <1>4 DEF Mounted, TypeOK
    <2>2. \A o \in Orphans : InCall(o)' => o \in used' /\ proc'[o].pc = "command"
      BY <1>2, <1>3, RunnerFacts DEF TypeOK, InCall, Nudged
    <2> QED
      BY <1>3, <1>4, <2>1, <2>2 DEF TypeOK
  <1>6. PileInv'
    <2> SUFFICES ASSUME NEW u \in Targets
                 PROVE  Len(table'[u]) + Cardinality(Covering(u)') <= Bound
      BY DEF PileInv, Bound
    <2>1. /\ Len(table[u]) \in Nat /\ Len(table'[u]) \in Nat
          /\ Len(table[u]) + Cardinality(Covering(u)) <= Bound
      BY <1>4 DEF TypeOK, PileInv
    <2>2. Cardinality(Covering(u)) \in Nat /\ Bound \in Nat
      BY CoveringFinite
    <2>3. p \notin Covering(u)'
      BY <1>2, <1>3 DEF Covering
    <2>4. /\ Cardinality(Covering(u)') \in Nat
          /\ Cardinality(Covering(u)') <= Cardinality(Covering(u))
          /\ p \in Covering(u) => Cardinality(Covering(u)') <= Cardinality(Covering(u)) - 1
      BY <1>3, <2>3, CoveringShrinks
    <2>5. CASE Len(table'[u]) <= Len(table[u])
      BY <2>1, <2>2, <2>4, <2>5
    <2>6. CASE ~(Len(table'[u]) <= Len(table[u]))
      <3>1. u = t /\ proc[p].op = "mount" /\ Len(table'[u]) <= Len(table[u]) + 1
        BY <1>4, <2>1, <2>6
      <3>2. p \in Covering(u)
        BY <3>1 DEF Covering
      <3> QED
        BY <2>1, <2>2, <2>4, <3>1, <3>2
    <2> QED
      BY <2>5, <2>6
  <1>7. LateInv'
    <2> SUFFICES ASSUME NEW q \in Runners, proc'[q].pc = "command", proc'[q].op = "mount",
                        ~proc'[q].late, proc'[q].path \notin Mounted'
                 PROVE  proc'[q].path \notin files
      BY DEF LateInv
    <2>1. q # p /\ Nudged(q)
      BY <1>2, <1>3
    <2>2. InCall(q) /\ proc[q] \in Call /\ proc[q].path \in Targets
      BY <2>1, CallFacts, CallFields DEF Nudged, InCall
    <2>3. proc[q].path # t
      BY <1>3, <2>1, <2>2 DEF Starting, Nudged
    <2>4. proc[q].path \notin Mounted
      BY <1>4, <2>1, <2>2, <2>3 DEF Nudged, Mounted
    <2> QED
      BY <2>1, <2>2, <2>4 DEF LateInv, Nudged
  <1>8. PlanInv'
    <2> SUFFICES ASSUME changes = 0 PROVE PlanInv'
      BY DEF PlanInv
    <2>1. \A a : Plan(a)' = Plan(a)
      BY DEF Plan
    <2>2. ASSUME NEW q \in Runners, InCall(q)'
          PROVE  proc'[q].a \in library /\ proc'[q].path = Plan(proc'[q].a)
      <3>1. CASE q = p
        BY <1>1, <1>2, <1>3, <2>2, <3>1 DEF InCall, PlanInv
      <3>2. CASE q # p
        BY <1>3, <2>2, <3>2 DEF InCall, PlanInv, Nudged
      <3> QED
        BY <3>1, <3>2
    <2>3. ASSUME NEW u \in Targets, NEW i \in 1 .. Len(table'[u])
          PROVE  table'[u][i] \in library /\ Plan(table'[u][i]) = u
      <3>1. CASE u = t
        BY <1>4, <2>3, <3>1
      <3>2. CASE u # t
        BY <1>4, <2>3, <3>2 DEF PlanInv
      <3> QED
        BY <3>1, <3>2
    <2> QED
      BY <2>1, <2>2, <2>3 DEF PlanInv
  <1> QED
    BY <1>5, <1>6, <1>7, <1>8

LEMMA MountCommandKeeps ==
  ASSUME MountsInv, NEW p \in Runners, MountCommand(p)
  PROVE  MountsInv'
  <1> USE DEF MountsInv
  <1> DEFINE t == proc[p].path
  <1>1. /\ proc[p].pc = "command" /\ proc[p].op = "mount"
        /\ UNCHANGED <<library, dirs, files, used, changes, puts>>
    BY DEF MountCommand
  <1>2. proc[p] \in Call /\ t \in Targets /\ proc[p].a \in Archives /\ InCall(p)
    BY <1>1, CallFacts, CallFields DEF InCall
  <1>3. PICK next : GoesOn(p, next) /\ Others(p, next, t, FALSE)
    BY DEF MountCommand, GoesOn
  <1>4. table[t] \in Seq(Archives) /\ (table[t] # <<>> => t \in dirs)
    BY <1>2 DEF TypeOK, Mounted
  <1>5. changes = 0 => /\ proc[p].a \in library /\ Plan(proc[p].a) = t
                       /\ \A i \in 1 .. Len(table[t]) :
                            table[t][i] \in library /\ Plan(table[t][i]) = t
    BY <1>2 DEF PlanInv
  <1>6. CASE t \in dirs /\ table' = [table EXCEPT ![t] = Append(table[t], proc[p].a)]
    <2> DEFINE s == Append(table[t], proc[p].a)
    <2>1. s \in Seq(Archives) /\ Len(s) = Len(table[t]) + 1
          /\ \A i \in 1 .. Len(s) :
               s[i] = IF i = Len(table[t]) + 1 THEN proc[p].a ELSE table[t][i]
      BY <1>2, <1>4
    <2>2. changes = 0 => \A i \in 1 .. Len(s) : s[i] \in library /\ Plan(s[i]) = t
      BY <1>4, <1>5, <2>1
    <2>3. table' = [table EXCEPT ![t] = s] /\ Len(s) <= Len(table[t]) + 1
      BY <1>4, <1>6, <2>1
    <2> HIDE DEF s
    <2> QED
      BY <1>1, <1>3, <1>6, <2>1, <2>2, <2>3, CommandStep
  <1>7. CASE UNCHANGED table
    <2>1. table' = [table EXCEPT ![t] = table[t]] /\ Len(table[t]) <= Len(table[t])
      BY <1>4, <1>7 DEF TypeOK
    <2> QED
      BY <1>1, <1>3, <1>4, <1>5, <2>1, CommandStep
  <1> QED
    BY <1>6, <1>7 DEF MountCommand

LEMMA UnmountCommandKeeps ==
  ASSUME MountsInv, NEW p \in Runners, UnmountCommand(p)
  PROVE  MountsInv'
  <1> USE DEF MountsInv
  <1> DEFINE t == proc[p].path
  <1>1. proc[p].pc = "command" /\ UNCHANGED <<library, dirs, files, used, changes, puts>>
    BY DEF UnmountCommand
  <1>2. proc[p] \in Call /\ t \in Targets /\ InCall(p)
    BY <1>1, CallFacts, CallFields DEF InCall
  <1>3. PICK next : GoesOn(p, next) /\ Others(p, next, t, FALSE)
    BY DEF UnmountCommand, GoesOn
  <1>4. table[t] \in Seq(Archives) /\ Len(table[t]) \in Nat /\ (table[t] # <<>> => t \in dirs)
    BY <1>2 DEF TypeOK, Mounted
  <1>5. changes = 0 => \A i \in 1 .. Len(table[t]) : table[t][i] \in library /\ Plan(table[t][i]) = t
    BY <1>2 DEF PlanInv
  <1>6. CASE t \in Mounted /\ table' = [table EXCEPT ![t] = Front(@)]
    <2> DEFINE s == Front(table[t])
    <2>1. table[t] # <<>> /\ Len(table[t]) - 1 \in 0 .. Len(table[t])
      BY <1>2, <1>4, <1>6 DEF Mounted
    <2>2. s \in Seq(Archives) /\ Len(s) = Len(table[t]) - 1
          /\ \A i \in 1 .. Len(s) : s[i] = table[t][i] /\ i \in 1 .. Len(table[t])
      BY <1>4, <2>1 DEF Front
    <2>3. table' = [table EXCEPT ![t] = s]
      BY <1>6
    <2>4. s # <<>> => t \in dirs
      BY <1>4, <2>1
    <2>5. changes = 0 => \A i \in 1 .. Len(s) : s[i] \in library /\ Plan(s[i]) = t
      BY <1>5, <2>2
    <2>6. Len(s) <= Len(table[t])
      BY <1>4, <2>2
    <2> HIDE DEF s
    <2> QED
      BY <1>1, <1>3, <2>2, <2>3, <2>4, <2>5, <2>6, CommandStep
  <1>7. CASE UNCHANGED table
    <2>1. table' = [table EXCEPT ![t] = table[t]] /\ Len(table[t]) <= Len(table[t])
      BY <1>4, <1>7 DEF TypeOK
    <2> QED
      BY <1>1, <1>3, <1>4, <1>5, <2>1, CommandStep
  <1> QED
    BY <1>6, <1>7 DEF UnmountCommand

\* Only an empty directory is removed, and nothing but the directory goes.
LEMMA RemoveDirLosesNothing ==
  ASSUME TypeOK, NEW p \in Procs, RemoveDir(p)
  PROVE  UNCHANGED files
  <1>1. CASE /\ Removable(proc[p].dir)
             /\ files' = files \ Tree(proc[p].dir)
    <2>1. Tree(proc[p].dir) \cap dirs = {proc[p].dir} /\ proc[p].dir \notin files
      BY <1>1 DEF Removable
    <2>2. files \subseteq dirs
      BY DEF TypeOK
    <2> QED
      BY <1>1, <2>1, <2>2
  <1> QED
    BY <1>1 DEF RemoveDir

\* A directory is removed only while nothing is mounted on it and nothing is in it.
LEMMA RemoveDirKeeps ==
  ASSUME MountsInv, NEW p \in Procs, RemoveDir(p)
  PROVE  MountsInv'
  <1> USE DEF MountsInv
  <1>0. /\ proc[p].pc = "remove" /\ p \in Runners /\ p \notin Orphans
        /\ UNCHANGED <<library, table, files, used, changes, puts>>
    BY RemoveDirLosesNothing, RunnerFacts DEF RemoveDir
  <1>1. CASE Return(p, "other") /\ UNCHANGED dirs
    BY <1>0, <1>1, ReturnStep
  <1>2. CASE Removable(proc[p].dir) /\ dirs' = dirs \ Tree(proc[p].dir) /\ WalkOn(p)
    <2>0. /\ proc[p].dir \in dirs \ (Mounted \cup files)
          /\ dirs' = dirs \ {proc[p].dir}
          /\ proc[p].dir = Platform => dirs = {Platform}
      BY <1>2 DEF Removable, Tree, TypeOK
    <2>1. InCall(p) /\ proc[p] \in Call
      BY <1>0, CallFacts DEF InCall
    <2>2. PICK next \in {[pc |-> "idle", said |-> "other"],
                         [proc[p] EXCEPT !.pc = "check", !.dir = Platform]} :
            Others(p, next, proc[p].dir, TRUE)
      BY <1>2 DEF WalkOn
    <2>3. /\ next \in Call \cup Rest /\ next.pc \in {"check", "idle"}
          /\ next.pc # "idle" => next.a = proc[p].a /\ next.path = proc[p].path
      <3>1. CASE next = [pc |-> "idle", said |-> "other"]
        BY <3>1, RestFacts
      <3>2. CASE next = [proc[p] EXCEPT !.pc = "check", !.dir = Platform]
        BY <2>1, <3>2 DEF Call, Dirs
      <3> QED
        BY <2>2, <3>1, <3>2
    <2>4. /\ proc' \in [Runners -> Call \cup Rest] /\ proc'[p] = next
          /\ \A q \in Runners \ {p} : Nudged(q)
      BY <1>0, <2>2, <2>3, OthersFacts
    <2>5. Mounted' = Mounted /\ \A a : Plan(a)' = Plan(a)
      BY <1>0 DEF Mounted, Plan
    <2>6. TypeOK'
      <3>1. \A o \in Orphans : InCall(o)' => o \in used' /\ proc'[o].pc = "command"
        BY <1>0, <2>4, RunnerFacts DEF TypeOK, InCall, Nudged
      <3> QED
        BY <1>0, <2>0, <2>4, <2>5, <3>1 DEF TypeOK
    <2>7. PileInv'
      <3> SUFFICES ASSUME NEW t \in Targets
                   PROVE  Len(table[t]) + Cardinality(Covering(t)') <= Bound
        BY <1>0 DEF PileInv, Bound
      <3>1. Len(table[t]) \in Nat /\ Len(table[t]) + Cardinality(Covering(t)) <= Bound
        BY DEF TypeOK, PileInv
      <3>2. Cardinality(Covering(t)) \in Nat /\ Bound \in Nat
        BY CoveringFinite
      <3>3. p \notin Covering(t)'
        BY <2>3, <2>4 DEF Covering
      <3>4. /\ Cardinality(Covering(t)') \in Nat
            /\ Cardinality(Covering(t)') <= Cardinality(Covering(t))
        BY <1>0, <2>4, <3>3, CoveringShrinks
      <3> QED
        BY <3>1, <3>2, <3>4
    <2>8. LateInv'
      <3> SUFFICES ASSUME NEW q \in Runners, proc'[q].pc = "command", proc'[q].op = "mount",
                          ~proc'[q].late, proc'[q].path \notin Mounted'
                   PROVE  proc'[q].path \notin files'
        BY DEF LateInv
      <3>1. q # p /\ Nudged(q)
        BY <2>3, <2>4
      <3>2. InCall(q)
        BY <3>1 DEF Nudged, InCall
      <3> QED
        BY <1>0, <2>5, <3>1, <3>2 DEF LateInv, Nudged
    <2>9. PlanInv'
      BY <1>0, <2>1, <2>3, <2>4, <2>5 DEF PlanInv, InCall, Nudged
    <2> QED
      BY <2>6, <2>7, <2>8, <2>9
  <1> QED
    BY <1>1, <1>2 DEF RemoveDir

\* A change of the library is what PlanInv excludes.
LEMMA ChangeLibraryKeeps ==
  ASSUME MountsInv, NEW a \in Archives, ChangeLibrary(a)
  PROVE  MountsInv'
  <1> USE DEF MountsInv
  <1>1. /\ changes < MaxChanges /\ changes' = changes + 1
        /\ library' = IF a \in library THEN library \ {a} ELSE library \cup {a}
        /\ UNCHANGED <<table, dirs, files, proc, used, puts>>
    BY DEF ChangeLibrary
  <1>2. Mounted' = Mounted /\ \A t \in Targets : Covering(t)' = Covering(t)
    BY <1>1 DEF Mounted, Covering
  <1>3. TypeOK'
    BY <1>1, <1>2, MountsAssumption DEF TypeOK, InCall
  <1>4. PileInv' /\ LateInv'
    BY <1>1, <1>2 DEF PileInv, LateInv, Bound
  <1>5. changes' # 0
    BY <1>1 DEF TypeOK
  <1> QED
    BY <1>3, <1>4, <1>5 DEF PlanInv

\* A file that is put into a target makes the calls on that target late.
LEMMA PutFileKeeps ==
  ASSUME MountsInv, NEW d \in Dirs, PutFile(d)
  PROVE  MountsInv'
  <1> USE DEF MountsInv
  <1>1. /\ puts < MaxFiles /\ puts' = puts + 1 /\ d \in dirs /\ files' = files \cup {d}
        /\ proc' = [p \in Runners |->
                      IF Starting(p) /\ proc[p].path = d
                      THEN [proc[p] EXCEPT !.late = TRUE] ELSE proc[p]]
        /\ UNCHANGED <<library, table, dirs, used, changes>>
    BY DEF PutFile
  <1>2. ASSUME NEW q \in Runners
        PROVE  Nudged(q) /\ (Starting(q) /\ proc[q].path = d => proc'[q].late)
    <2>1. CASE Starting(q) /\ proc[q].path = d
      <3>1. proc'[q] = [proc[q] EXCEPT !.late = TRUE] /\ proc[q] \in Call
        BY <1>1, <2>1, CallFacts DEF Starting, InCall
      <3>2. proc'[q] \in Call /\ proc'[q].late = TRUE /\ proc'[q].pc = proc[q].pc
            /\ proc'[q].op = proc[q].op /\ proc'[q].a = proc[q].a
            /\ proc'[q].path = proc[q].path
        BY <3>1 DEF Call
      <3> QED
        BY <3>2 DEF Nudged
    <2>2. CASE ~(Starting(q) /\ proc[q].path = d)
      <3>1. proc'[q] = proc[q]
        BY <1>1, <2>2
      <3> QED
        BY <2>2, <3>1, CallFacts DEF Nudged
    <2> QED
      BY <2>1, <2>2
  <1>3. proc' \in [Runners -> Call \cup Rest]
    <2>1. \A q \in Runners : proc'[q] \in Call \cup Rest
      BY <1>2 DEF Nudged
    <2>2. proc' = [q \in Runners |-> proc'[q]]
      BY <1>1
    <2> QED
      BY <2>1, <2>2
  <1>4. Mounted' = Mounted /\ \A a : Plan(a)' = Plan(a)
    BY <1>1 DEF Mounted, Plan
  <1>6. \A q \in Runners : InCall(q)' <=> InCall(q)
    BY <1>2 DEF Nudged, InCall
  <1>5. TypeOK'
    <2>1. \A o \in Orphans : InCall(o)' => o \in used' /\ proc'[o].pc = "command"
      BY <1>1, <1>2, <1>6, RunnerFacts DEF TypeOK, Nudged
    <2> QED
      BY <1>1, <1>3, <1>4, <2>1, MountsAssumption DEF TypeOK
  <1>7. \A t \in Targets : Covering(t)' = Covering(t)
    <2> SUFFICES ASSUME NEW t \in Targets, NEW q \in Runners
                 PROVE  q \in Covering(t)' <=> q \in Covering(t)
      BY DEF Covering
    <2>1. Nudged(q)
      BY <1>2
    <2> QED
      BY <2>1 DEF Covering, Nudged, InCall
  <1>8. PileInv'
    BY <1>1, <1>7 DEF PileInv, Bound
  <1>9. LateInv'
    <2> SUFFICES ASSUME NEW q \in Runners, proc'[q].pc = "command", proc'[q].op = "mount",
                        ~proc'[q].late, proc'[q].path \notin Mounted'
                 PROVE  proc'[q].path \notin files'
      BY DEF LateInv
    <2>1. Nudged(q) /\ (Starting(q) /\ proc[q].path = d => proc'[q].late)
      BY <1>2
    <2>2. InCall(q)
      BY <2>1 DEF Nudged, InCall
    <2> QED
      BY <1>1, <1>4, <2>1, <2>2 DEF LateInv, Nudged, Starting
  <1>10. PlanInv'
    <2>1. \A q \in Runners : InCall(q) =>
            proc'[q].a = proc[q].a /\ proc'[q].path = proc[q].path
      BY <1>2 DEF Nudged
    <2> QED
      BY <1>1, <1>4, <1>6, <2>1 DEF PlanInv
  <1> QED
    BY <1>5, <1>8, <1>9, <1>10

-----------------------------------------------------------------------------
(* The inductive invariant *)

LEMMA InitEstablishes == Init => MountsInv
  <1> SUFFICES ASSUME Init PROVE MountsInv
    OBVIOUS
  <1>1. table = [t \in Targets |-> <<>>] /\ Mounted = {} /\ dirs = {} /\ files = {}
    BY DEF Init, Mounted
  <1>2. /\ proc \in [Runners -> Call \cup Rest] /\ \A p \in Runners : proc[p].pc = "idle"
        /\ used = {}
    BY RestFacts DEF Init
  <1>3. TypeOK
    <2>1. table \in [Targets -> Seq(Archives)]
      BY <1>1
    <2>2. changes \in 0 .. MaxChanges /\ puts \in 0 .. MaxFiles /\ library \subseteq Archives
      BY MountsAssumption DEF Init
    <2> QED
      BY <1>1, <1>2, <2>1, <2>2, RunnerFacts DEF TypeOK, InCall
  <1>4. PileInv
    <2> SUFFICES ASSUME NEW t \in Targets
                 PROVE  Len(table[t]) + Cardinality(Covering(t)) <= Bound
      BY DEF PileInv
    <2>1. Len(table[t]) = 0
      BY <1>1
    <2> QED
      BY <1>3, <2>1, CoveringFinite
  <1>5. LateInv /\ PlanInv
    BY <1>1, <1>2 DEF LateInv, PlanInv, InCall
  <1> QED
    BY <1>3, <1>4, <1>5 DEF MountsInv

LEMMA StepKeeps == MountsInv /\ [Next]_vars => MountsInv'
  <1> SUFFICES ASSUME MountsInv, [Next]_vars PROVE MountsInv'
    OBVIOUS
  <1>1. ASSUME NEW p \in Procs, Killed(p) \/ Step(p) PROVE MountsInv'
    BY <1>1, TableReadsKeep, PrepareKeeps, RevalidateKeeps, CleanStepsKeep, KilledKeeps,
       MountCommandKeeps, UnmountCommandKeeps, RemoveDirKeeps, RunnerFacts DEF Step
  <1>2. CASE UNCHANGED vars
    <2>1. Mounted' = Mounted /\ \A t \in Targets : Covering(t)' = Covering(t)
      BY <1>2 DEF vars, Mounted, Covering
    <2>2. \A a : Plan(a)' = Plan(a)
      BY <1>2 DEF vars, Plan
    <2>3. TypeOK'
      BY <1>2, <2>1 DEF vars, MountsInv, TypeOK, InCall
    <2>4. PileInv' /\ LateInv' /\ PlanInv'
      BY <1>2, <2>1, <2>2 DEF vars, MountsInv, PileInv, LateInv, PlanInv, InCall, Bound
    <2> QED
      BY <2>3, <2>4 DEF MountsInv
  <1> QED
    BY <1>1, <1>2, BeginKeeps, ChangeLibraryKeeps, PutFileKeeps, MountCommandKeeps,
       UnmountCommandKeeps, RunnerFacts DEF Next

LEMMA Invariance == Spec => []MountsInv
  BY InitEstablishes, StepKeeps, PTL DEF Spec

-----------------------------------------------------------------------------
(* What a step can have been *)

\* Only the mounting and unmounting programs change the mount table.
LEMMA TableChanges ==
  ASSUME [Next]_vars, table' # table
  PROVE  \E p \in Runners : MountCommand(p) \/ UnmountCommand(p)
  BY RunnerFacts DEF Next, Step, vars, ChangeLibrary, PutFile, Killed, Begin, ReadMountTable, Prepare,
     Revalidate, VerifyMounted, ReadTableForUnmount, VerifyUnmounted, BeginClean, CheckDir,
     RemoveDir

\* A command of p leaves every other call where it is and moves p on, or on to the next
\* unmount program.
LEMMA CommandMoves ==
  ASSUME TypeOK, NEW p \in Runners, MountCommand(p) \/ UnmountCommand(p)
  PROVE  /\ proc[p].pc = "command" /\ proc[p].path \in Targets
         /\ proc'[p].pc \in {"verify", "idle", "command"}
         /\ MountCommand(p) => proc'[p].pc # "command"
         /\ proc'[p].pc = "idle" => proc'[p].said = "other"
         /\ \A q \in Runners \ {p} : proc'[q].pc = proc[q].pc
         /\ \A t \in Targets \ {proc[p].path} : table'[t] = table[t]
  <1>1. proc[p].pc = "command"
    BY DEF MountCommand, UnmountCommand
  <1>2. PICK next : GoesOn(p, next) /\ Others(p, next, proc[p].path, FALSE)
    BY DEF MountCommand, UnmountCommand, GoesOn
  <1>3. /\ next \in Call \cup Rest /\ next.pc \in {"verify", "idle", "command"}
        /\ next.pc = "command" => next.op = "unmount"
        /\ next.pc = "idle" => next.said = "other"
        /\ next.pc # "idle" => next.op = proc[p].op
    BY <1>1, <1>2, GoesOnFacts
  <1>4. MountCommand(p) => next.pc # "command"
    BY <1>3 DEF MountCommand
  <1>5. proc'[p] = next /\ \A q \in Runners \ {p} : proc'[q].pc = proc[q].pc
    BY <1>2, <1>3, OthersFacts DEF Nudged
  <1>6. proc[p].path \in Targets
    BY <1>1, CallFacts, CallFields DEF InCall
  <1>7. \A t \in Targets \ {proc[p].path} : table'[t] = table[t]
    BY <1>6 DEF MountCommand, UnmountCommand, TypeOK
  <1> QED
    BY <1>1, <1>3, <1>4, <1>5, <1>6, <1>7

\* What is mounted on the path of a call is the call's archive, while the library is as
\* it was when the call planned.
LEMMA MountedIsServed ==
  ASSUME MountsInv, changes = 0, NEW p \in Runners, InCall(p), proc[p].path \in Mounted
  PROVE  Serves(p)
  <1> DEFINE t == proc[p].path
             n == Len(table[t])
  <1>1. t \in Targets /\ table[t] \in Seq(Archives) /\ table[t] # <<>>
    BY DEF Mounted, MountsInv, TypeOK
  <1>2. n \in 1 .. n
    BY <1>1
  <1>3. table[t][n] \in library /\ Plan(table[t][n]) = t
    BY <1>1, <1>2 DEF MountsInv, PlanInv
  <1>4. proc[p].a \in library /\ t = Plan(proc[p].a)
    BY DEF MountsInv, PlanInv
  <1>5. table[t][n] = proc[p].a
    BY <1>3, <1>4, PlanFacts
  <1> QED
    BY <1>5 DEF Serves, Last

\* A call says that its archive is mounted only when it has just read its path in the
\* mount table.
LEMMA SaysMountedFacts ==
  ASSUME MountsInv, [Next]_vars, NEW p \in Procs, SaysMounted(p)
  PROVE  proc[p].path \in Mounted
  <1> USE DEF MountsInv
  <1>1. InCall(p) /\ proc'[p].pc = "idle" /\ proc'[p].said = "mounted"
        /\ proc[p].pc # "idle" /\ p \in Runners
    BY RunnerFacts DEF SaysMounted, InCall
  <1>2. proc[p] \in Call
    BY <1>1, CallFacts
  <1>3. ASSUME NEW q \in Procs, NEW r, proc' = [proc EXCEPT ![q] = r],
               r.pc # "idle" \/ r.said # "mounted"
        PROVE  FALSE
    BY <1>1, <1>3 DEF TypeOK
  <1>4. ASSUME NEW q \in Procs, Return(q, "other") PROVE FALSE
    <2> DEFINE r == [pc |-> "idle", said |-> "other"]
    <2>1. proc' = [proc EXCEPT ![q] = r] /\ r.said # "mounted"
      BY <1>4 DEF Return
    <2> QED
      BY <1>3, <2>1
  <1>5. ASSUME NEW q \in Procs, NEW c, Goto(q, c), proc[q].pc # "idle", c # "idle"
        PROVE  FALSE
    <2>1. proc[q] \in Call
      BY <1>5, CallFacts, RunnerFacts DEF InCall
    <2>2. proc'[p].pc # "idle"
      BY <1>1, <1>5, <2>1 DEF Goto, TypeOK, Call
    <2> QED
      BY <1>1, <2>2
  <1>6. ASSUME NEW q \in Runners, MountCommand(q) \/ UnmountCommand(q) PROVE FALSE
    BY <1>1, <1>6, CommandMoves
  <1>7. ASSUME NEW q \in Procs, RemoveDir(q) PROVE FALSE
    <2>1. CASE Return(q, "other")
      BY <1>4, <2>1
    <2>2. CASE WalkOn(q)
      <3>1. proc[q] \in Call
        BY <1>7, CallFacts, RunnerFacts DEF RemoveDir, InCall
      <3>2. PICK next \in {[pc |-> "idle", said |-> "other"],
                           [proc[q] EXCEPT !.pc = "check", !.dir = Platform]} :
              Others(q, next, proc[q].dir, TRUE)
        BY <2>2 DEF WalkOn
      <3>3. next \in Call \cup Rest /\ (next.pc # "idle" \/ next.said = "other")
        <4>1. CASE next = [pc |-> "idle", said |-> "other"]
          BY <4>1, RestFacts
        <4>2. CASE next = [proc[q] EXCEPT !.pc = "check", !.dir = Platform]
          BY <3>1, <4>2 DEF Call, Dirs
        <4> QED
          BY <3>2, <4>1, <4>2
      <3>4. proc'[q] = next /\ \A x \in Runners \ {q} : proc'[x].pc = proc[x].pc
        BY <3>2, <3>3, OthersFacts, RunnerFacts DEF Nudged
      <3> QED
        BY <1>1, <3>3, <3>4
    <2> QED
      BY <1>7, <2>1, <2>2 DEF RemoveDir
  <1>8. ASSUME NEW q \in Procs,
               Killed(q) \/ Prepare(q) \/ Revalidate(q) \/ ReadTableForUnmount(q)
                 \/ VerifyUnmounted(q) \/ BeginClean(q) \/ CheckDir(q)
        PROVE  FALSE
    <2>1. proc[q] \in Call
      BY <1>8, CallFacts, RunnerFacts DEF InCall, Killed, Prepare, Revalidate, ReadTableForUnmount,
         VerifyUnmounted, BeginClean, CheckDir
    <2>2. CASE Return(q, "other")
      BY <1>4, <2>2
    <2>3. CASE Goto(q, "command") \/ Goto(q, "remove")
      BY <1>5, <2>1, <2>3 DEF Call
    <2>4. CASE proc' = [proc EXCEPT ![q].pc = "revalidate", ![q].kept = TRUE,
                                    ![q].under = table[proc[q].path]]
      <3> DEFINE r == [proc[q] EXCEPT !.pc = "revalidate", !.kept = TRUE,
                                      !.under = table[proc[q].path]]
      <3>1. r.pc = "revalidate" /\ proc' = [proc EXCEPT ![q] = r]
        BY <2>1, <2>4 DEF Call
      <3> HIDE DEF r
      <3> QED
        BY <1>3, <3>1
    <2>5. CASE proc' = [proc EXCEPT ![q].pc = "command", ![q].kept = FALSE, ![q].under = <<>>]
      <3> DEFINE r == [proc[q] EXCEPT !.pc = "command", !.kept = FALSE, !.under = <<>>]
      <3>1. r.pc = "command" /\ proc' = [proc EXCEPT ![q] = r]
        BY <2>1, <2>5 DEF Call
      <3> HIDE DEF r
      <3> QED
        BY <1>3, <3>1
    <2>6. CASE proc' = [proc EXCEPT ![q].pc = "planned", ![q].op = "clean"]
      <3> DEFINE r == [proc[q] EXCEPT !.pc = "planned", !.op = "clean"]
      <3>1. r.pc = "planned" /\ proc' = [proc EXCEPT ![q] = r]
        BY <2>1, <2>6 DEF Call
      <3> HIDE DEF r
      <3> QED
        BY <1>3, <3>1
    <2>7. CASE proc' = [proc EXCEPT ![q].pc = "check", ![q].dir = proc[q].path]
      <3> DEFINE r == [proc[q] EXCEPT !.pc = "check", !.dir = proc[q].path]
      <3>1. r.pc = "check" /\ proc' = [proc EXCEPT ![q] = r]
        BY <2>1, <2>7 DEF Call
      <3> HIDE DEF r
      <3> QED
        BY <1>3, <3>1
    <2>8. CASE \E o \in Orphans \ used :
                 proc' = [proc EXCEPT ![q] = [pc |-> "idle", said |-> "other"],
                                      ![o] = [proc[q] EXCEPT !.tries = 0]]
      <3> DEFINE i == [pc |-> "idle", said |-> "other"]
      <3>1. PICK o \in Orphans : proc' = [proc EXCEPT ![q] = i,
                                                     ![o] = [proc[q] EXCEPT !.tries = 0]]
        BY <2>8
      <3>2. o # p /\ i.said # "mounted"
        BY RunnerFacts
      <3> HIDE DEF i
      <3>3. proc'[p] = IF p = q THEN i ELSE proc[p]
        BY <1>1, <3>1, <3>2 DEF TypeOK
      <3> QED
        BY <1>1, <3>2, <3>3
    <2> QED
      BY <1>8, <2>2, <2>3, <2>4, <2>5, <2>6, <2>7, <2>8 DEF Killed, Prepare, Revalidate, ReadTableForUnmount,
         VerifyUnmounted, BeginClean, CheckDir
  <1>9. ASSUME NEW q \in Procs, NEW op \in Ops, NEW a \in Archives, Begin(q, op, a)
        PROVE  FALSE
    BY <1>1, <1>9 DEF Begin, TypeOK
  <1>10. ASSUME NEW d \in Dirs, PutFile(d) PROVE FALSE
    <2>1. proc'[p] = proc[p] \/ proc'[p] = [proc[p] EXCEPT !.late = TRUE]
      BY <1>1, <1>10 DEF PutFile
    <2>2. proc'[p].pc # "idle"
      BY <1>1, <1>2, <2>1 DEF Call
    <2> QED
      BY <1>1, <2>2
  <1>11. ~(\E a \in Archives : ChangeLibrary(a)) /\ proc' # proc
    BY <1>1 DEF ChangeLibrary
  <1>12. PICK q \in Procs : ReadMountTable(q) \/ VerifyMounted(q)
    BY <1>6, <1>7, <1>8, <1>9, <1>10, <1>11, RunnerFacts DEF Next, Step, vars
  <1>13. q = p
    BY <1>1, <1>5, <1>12 DEF ReadMountTable, VerifyMounted, Return, TypeOK
  <1>14. ~Return(p, "other") /\ ~Goto(p, "prepare")
    BY <1>1, <1>4, <1>5
  <1> QED
    BY <1>12, <1>13, <1>14 DEF ReadMountTable, VerifyMounted

-----------------------------------------------------------------------------
(* The theorems *)

\* Every variable keeps its type, a mount stands on a directory that exists and a
\* target stands in its platform directory, whatever the calls and the clean-ups do to
\* each other.
THEOREM TypeCorrect == Spec => []TypeOK
  <1>1. MountsInv => TypeOK
    BY DEF MountsInv
  <1> QED
    BY <1>1, Invariance, PTL

\* No mount path ever carries more mounts than there are processes and programs that
\* outlived a killed caller: mount_unmounted_plan starts one program for each time its
\* caller found the path free, and a program covers it at most once.
THEOREM MountsDoNotPileUp == Spec => []NoPileUp
  <1>1. ASSUME MountsInv PROVE NoPileUp
    <2> SUFFICES ASSUME NEW t \in Targets PROVE Len(table[t]) <= Bound
      BY DEF NoPileUp, Bound
    <2>1. Len(table[t]) \in Nat /\ Len(table[t]) + Cardinality(Covering(t)) <= Bound
      BY <1>1 DEF MountsInv, TypeOK, PileInv
    <2> QED
      BY <1>1, <2>1, CoveringFinite DEF MountsInv
  <1> QED
    BY <1>1, Invariance, PTL

\* No clean-up removes a directory with a file the user put below the mount root, not
\* even one put there after the clean-up found the directory empty.
THEOREM UserFilesAlwaysKept == Spec => UserFilesKept
  <1>1. ASSUME MountsInv, [Next]_vars PROVE [files \subseteq files']_vars
    <2>1. ASSUME NEW p \in Procs, RemoveDir(p) PROVE UNCHANGED files
      BY <1>1, <2>1, RemoveDirLosesNothing DEF MountsInv
    <2> QED
      BY <1>1, <2>1 DEF Next, Step, vars, ChangeLibrary, PutFile, Killed, Begin,
         ReadMountTable, Prepare, Revalidate, VerifyMounted, ReadTableForUnmount,
         VerifyUnmounted, BeginClean, CheckDir, MountCommand, UnmountCommand
  <1> QED
    BY <1>1, Invariance, PTL DEF Spec, UserFilesKept

\* A file that disappears under a mount was put there, or uncovered, after
\* mount_unmounted_plan's second look at the target, also when the mount program has
\* outlived its call.
THEOREM MountsHideOnlyLateFiles == Spec => HidesOnlyLateFiles
  <1>1. ASSUME MountsInv, [Next]_vars
        PROVE  [\A t \in files \cap Targets :
                  t \notin Mounted /\ table'[t] # <<>> =>
                    \E p \in Runners :
                      /\ proc[p].pc = "command" /\ proc'[p].pc # "command"
                      /\ proc[p].path = t /\ proc[p].late]_vars
    <2> SUFFICES ASSUME NEW t \in files \cap Targets, t \notin Mounted, table'[t] # <<>>
                 PROVE  \E p \in Runners :
                          /\ proc[p].pc = "command" /\ proc'[p].pc # "command"
                          /\ proc[p].path = t /\ proc[p].late
      OBVIOUS
    <2>1. table[t] = <<>> /\ table' # table
      BY DEF Mounted
    <2>2. PICK p \in Runners : MountCommand(p) \/ UnmountCommand(p)
      BY <1>1, <2>1, TableChanges
    <2>3. proc[p].pc = "command" /\ proc[p].path = t
      BY <1>1, <2>1, <2>2, CommandMoves DEF MountsInv
    <2>4. MountCommand(p)
      BY <2>1, <2>2, <2>3 DEF UnmountCommand
    <2>5. proc'[p].pc # "command"
      BY <1>1, <2>4, CommandMoves DEF MountsInv
    <2>6. proc[p].late
      BY <1>1, <2>3, <2>4 DEF MountsInv, LateInv, MountCommand
    <2> QED
      BY <2>3, <2>5, <2>6
  <1> QED
    BY <1>1, Invariance, PTL DEF Spec, HidesOnlyLateFiles

\* As long as the library does not change, mount_one_archive_path_outcome tells the
\* truth about its archive, and only an unmount of an archive takes its mount away,
\* although no lock protects what the calls read and a program may outlive its call.
THEOREM CallsActOnTheirArchive == Spec => ActsOnItsArchive
  <1> DEFINE Unmounts(t) == \E p \in Runners : /\ proc[p].pc = "command"
                                               /\ proc[p].op = "unmount"
                                               /\ proc[p].path = t
                                               /\ proc[p].a = Last(table[t])
  <1>1. ASSUME MountsInv, [Next]_vars
        PROVE  [changes = 0 =>
                  /\ \A p \in Procs : SaysMounted(p) => Serves(p)
                  /\ \A t \in Targets : Len(table'[t]) < Len(table[t]) => Unmounts(t)]_vars
    <2> SUFFICES ASSUME changes = 0
                 PROVE  /\ \A p \in Procs : SaysMounted(p) => Serves(p)
                        /\ \A t \in Targets : Len(table'[t]) < Len(table[t]) => Unmounts(t)
      OBVIOUS
    <2>1. ASSUME NEW p \in Procs, SaysMounted(p) PROVE Serves(p)
      BY <1>1, <2>1, SaysMountedFacts, MountedIsServed, RunnerFacts DEF SaysMounted
    <2>2. ASSUME NEW t \in Targets, Len(table'[t]) < Len(table[t]) PROVE Unmounts(t)
      <3>0. table[t] \in Seq(Archives) /\ Len(table[t]) \in Nat
        BY <1>1 DEF MountsInv, TypeOK
      <3>1. table' # table
        BY <2>2, <3>0
      <3>2. PICK p \in Runners : MountCommand(p) \/ UnmountCommand(p)
        BY <1>1, <3>1, TableChanges
      <3>3. proc[p].pc = "command" /\ InCall(p) /\ proc[p].path = t
        BY <1>1, <2>2, <3>0, <3>2, CommandMoves DEF MountsInv, InCall
      <3>4. ~MountCommand(p)
        <4> SUFFICES ASSUME MountCommand(p) PROVE FALSE
          OBVIOUS
        <4>1. table'[t] = table[t] \/ table'[t] = Append(table[t], proc[p].a)
          BY <1>1, <3>3 DEF MountCommand, MountsInv, TypeOK
        <4>2. proc[p].a \in Archives
          BY <1>1, <3>3, CallFacts, CallFields DEF MountsInv
        <4>3. Len(Append(table[t], proc[p].a)) = Len(table[t]) + 1
          BY <3>0, <4>2
        <4> QED
          BY <2>2, <3>0, <4>1, <4>3
      <3>5. UnmountCommand(p) /\ t \in Mounted
        BY <3>1, <3>2, <3>3, <3>4 DEF UnmountCommand
      <3>6. Serves(p)
        BY <1>1, <3>3, <3>5, MountedIsServed
      <3> QED
        BY <3>3, <3>5, <3>6 DEF UnmountCommand, Serves
    <2> QED
      BY <2>1, <2>2
  <1> QED
    BY <1>1, Invariance, PTL DEF Spec, ActsOnItsArchive
=============================================================================
