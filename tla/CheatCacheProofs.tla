-------------------------- MODULE CheatCacheProofs --------------------------
(***************************************************************************)
(* The cheat cache is safe for every number of processes and snapshots.    *)
(* What the guards of the code rely on between two steps of one operation  *)
(* stays true because only the holder of the lock changes the disk: Facts  *)
(* says what each step relies on, and Exclusive that it holds the lock.    *)
(***************************************************************************)
EXTENDS CheatCache, TLAPS

\* A process past its acquisition holds the lock.
Exclusive == \A p \in Procs : pc[p] \in Locked => lock = p

\* What process p has established by the step it is at.
Facts(p) ==
  /\ pc[p] = "verify" => got[p] = meta.current /\ got[p] # None
  /\ pc[p] \in {"publish", "manifest", "activate", "unlink"} => got[p] \in Shas
  /\ pc[p] \in {"manifest", "activate"} => dir[got[p]] = "whole"
  /\ pc[p] = "activate" => man[got[p]] # 0
  /\ pc[p] = "unlink" => dir[got[p]] = "none"
  /\ pc[p] = "handed" => got[p] \in Shas /\ got[p] = meta.current

\* The inductive invariant.
CacheInv ==
  /\ TypeOK
  /\ Exclusive
  /\ CurrentUsable
  /\ PinnedKept
  /\ OneWorkDir
  /\ \A p \in Procs : Facts(p)

----------------------------------------------------------------------------
USE CacheAssumption

LEMMA Initially == Init => CacheInv
<1> SUFFICES ASSUME Init PROVE CacheInv
  OBVIOUS
<1>1. TypeOK
  <2>1. meta \in [present : BOOLEAN, current : Shas \cup {None}, at : 0 .. MaxClock]
    BY DEF Init
  <2>2. NoPlan \in [snaps : SUBSET (Shas \X (0 .. MaxClock)), staging : SUBSET Procs]
    BY DEF NoPlan
  <2>3. clock \in 1 .. MaxClock /\ man \in [Shas -> 0 .. MaxClock]
    BY DEF Init
  <2> QED
    BY <2>1, <2>2, <2>3 DEF Init, TypeOK, Unlocked
<1>2. Exclusive /\ \A p \in Procs : Facts(p)
  BY DEF Init, Exclusive, Facts, Locked, Working
<1>3. CurrentUsable /\ PinnedKept /\ OneWorkDir
  BY DEF Init, CurrentUsable, PinnedKept, OneWorkDir, Working
<1> QED
  BY <1>1, <1>2, <1>3 DEF CacheInv

\* The end of a call keeps the types.
LEMMA ReturnTypes ==
  ASSUME TypeOK, NEW p \in Procs, Return(p)
  PROVE  /\ lock' \in Procs \cup {None}
         /\ pc' \in [Procs -> Unlocked \cup Locked]
         /\ op' \in [Procs -> Operations \cup {None}]
         /\ got' \in [Procs -> Shas \cup {None}]
         /\ plan' \in [Procs -> [snaps : SUBSET (Shas \X (0 .. MaxClock)),
                                 staging : SUBSET Procs]]
BY DEF TypeOK, Return, Goto, Unlocked, NoPlan

LEMMA Types ==
  ASSUME CacheInv, [Next]_vars
  PROVE  TypeOK'
<1> USE DEF CacheInv
<1>1. CASE UNCHANGED vars
  BY <1>1 DEF TypeOK, vars
<1>2. CASE Tick
  BY <1>2 DEF TypeOK, Tick, disk
<1>3. ASSUME NEW p \in Procs, Begin(p) PROVE TypeOK'
  BY <1>3 DEF TypeOK, Begin, WithRoot, Goto, Unlocked
<1>4. ASSUME NEW p \in Procs, Crash(p) PROVE TypeOK'
  BY <1>4, ReturnTypes DEF TypeOK, Crash, disk
<1>5. ASSUME NEW p \in Procs, SeeNothing(p) PROVE TypeOK'
  BY <1>5, ReturnTypes DEF TypeOK, SeeNothing, Goto, disk, Unlocked
<1>6. ASSUME NEW p \in Procs, Acquire(p) PROVE TypeOK'
  BY <1>6 DEF TypeOK, Acquire, Goto, disk, Locked, FirstStep
<1>7. ASSUME NEW p \in Procs, GiveUp(p) PROVE TypeOK'
  BY <1>7, ReturnTypes DEF TypeOK, GiveUp, disk
<1>8. ASSUME NEW p \in Procs, SelectCurrent(p) PROVE TypeOK'
  BY <1>8, ReturnTypes DEF TypeOK, SelectCurrent, Goto, disk, Locked
<1>9. ASSUME NEW p \in Procs, VerifyCurrent(p) PROVE TypeOK'
  <2>1. CASE Return(p)
    BY <1>9, <2>1, ReturnTypes DEF TypeOK, VerifyCurrent, disk
  <2>2. CASE ~Return(p)
    <3>1. pc' \in [Procs -> Unlocked \cup Locked]
      BY <1>9, <2>2 DEF TypeOK, VerifyCurrent, Goto, Locked
    <3>2. got' \in [Procs -> Shas \cup {None}]
      BY <1>9, <2>2 DEF TypeOK, VerifyCurrent
    <3> QED
      BY <1>9, <2>2, <3>1, <3>2 DEF TypeOK, VerifyCurrent, disk
  <2> QED
    BY <2>1, <2>2
<1>10. ASSUME NEW p \in Procs, HandOut(p) PROVE TypeOK'
  BY <1>10, ReturnTypes DEF TypeOK, HandOut, disk
<1>11. ASSUME NEW p \in Procs, Stage(p) PROVE TypeOK'
  <2>1. staging' \in SUBSET Procs
    BY <1>11 DEF TypeOK, Stage
  <2> DEFINE Plans == [snaps : SUBSET (Shas \X (0 .. MaxClock)), staging : SUBSET Procs]
  <2>2. plan' \in [Procs -> Plans]
    <3>1. ASSUME NEW q \in Procs
          PROVE  [plan[q] EXCEPT !.staging = @ \ {p}] \in Plans
      <4>1. plan[q] \in Plans
        BY DEF TypeOK
      <4> QED
        BY <4>1
    <3>2. CASE plan' = [q \in Procs |-> [plan[q] EXCEPT !.staging = @ \ {p}]]
      BY <3>1, <3>2
    <3>3. CASE plan' = plan
      BY <3>3 DEF TypeOK
    <3> QED
      BY <1>11, <3>2, <3>3 DEF Stage
  <2> QED
    BY <1>11, <2>1, <2>2 DEF TypeOK, Stage, Goto, Locked, Working
<1>12. ASSUME NEW p \in Procs, Download(p) PROVE TypeOK'
  <2>1. pc' \in [Procs -> Unlocked \cup Locked]
    BY <1>12 DEF TypeOK, Download, Goto, Locked, Working
  <2>2. got' \in [Procs -> Shas \cup {None}]
    BY <1>12 DEF TypeOK, Download
  <2> QED
    BY <1>12, <2>1, <2>2 DEF TypeOK, Download, disk
<1>13. ASSUME NEW p \in Procs, PublishSnapshot(p) PROVE TypeOK'
  BY <1>13 DEF TypeOK, PublishSnapshot, Goto, Locked, Working
<1>14. ASSUME NEW p \in Procs, WriteManifest(p) PROVE TypeOK'
  BY <1>14 DEF TypeOK, WriteManifest, Goto, Locked, Working
<1>15. ASSUME NEW p \in Procs, Activate(p) PROVE TypeOK'
  <2>1. pc' \in [Procs -> Unlocked \cup Locked]
    BY <1>15 DEF TypeOK, Activate, Goto, Locked, Working
  <2>2. got[p] \in Shas /\ man[got[p]] \in 0 .. MaxClock
    BY <1>15 DEF TypeOK, Activate, Facts
  <2>3. meta' \in [present : BOOLEAN, current : Shas \cup {None}, at : 0 .. MaxClock]
    <3>1. CASE meta' = meta
      BY <3>1 DEF TypeOK
    <3>2. CASE meta' = [present |-> TRUE, current |-> got[p], at |-> man[got[p]]]
      BY <2>2, <3>2
    <3> QED
      BY <1>15, <3>1, <3>2 DEF Activate
  <2>4. staging' \in SUBSET Procs
    BY <1>15 DEF TypeOK, Activate
  <2> QED
    BY <1>15, <2>1, <2>3, <2>4 DEF TypeOK, Activate
<1>16. ASSUME NEW p \in Procs, DropWork(p) PROVE TypeOK'
  BY <1>16 DEF TypeOK, DropWork, Goto, Locked
<1>17. ASSUME NEW p \in Procs, RecordFailure(p) PROVE TypeOK'
  BY <1>17, ReturnTypes DEF TypeOK, RecordFailure
<1>18. ASSUME NEW p \in Procs, SetPin(p) PROVE TypeOK'
  BY <1>18, ReturnTypes DEF TypeOK, SetPin
<1>19. ASSUME NEW p \in Procs, PlanPrune(p) PROVE TypeOK'
  <2>1. plan' \in [Procs -> [snaps : SUBSET (Shas \X (0 .. MaxClock)),
                             staging : SUBSET Procs]]
    BY <1>19 DEF TypeOK, PlanPrune
  <2> QED
    BY <1>19, <2>1 DEF TypeOK, PlanPrune, Goto, disk, Unlocked
<1>20. ASSUME NEW p \in Procs, Confirm(p) PROVE TypeOK'
  BY <1>20, ReturnTypes DEF TypeOK, Confirm, Goto, disk, Unlocked
<1>21. ASSUME NEW p \in Procs, RemoveSnapshot(p) PROVE TypeOK'
  <2>1. PICK c \in plan[p].snaps :
               /\ plan' = [plan EXCEPT ![p].snaps = @ \ {c}]
               /\ dir' \in {dir, [dir EXCEPT ![c[1]] = "none"],
                            [dir EXCEPT ![c[1]] = "torn"]}
               /\ got' \in {got, [got EXCEPT ![p] = c[1]]}
    BY <1>21 DEF RemoveSnapshot
  <2>2. c[1] \in Shas
    BY DEF TypeOK
  <2>3. plan' \in [Procs -> [snaps : SUBSET (Shas \X (0 .. MaxClock)),
                             staging : SUBSET Procs]]
    BY <2>1 DEF TypeOK
  <2>4. pc' \in [Procs -> Unlocked \cup Locked]
    BY <1>21 DEF RemoveSnapshot, TypeOK, Goto, Locked
  <2>5. dir' \in [Shas -> {"none", "whole", "torn"}]
    BY <2>1, <2>2 DEF TypeOK
  <2>6. got' \in [Procs -> Shas \cup {None}]
    BY <2>1, <2>2 DEF TypeOK
  <2> QED
    BY <1>21, <2>3, <2>4, <2>5, <2>6 DEF TypeOK, RemoveSnapshot
<1>22. ASSUME NEW p \in Procs, RemoveManifest(p) PROVE TypeOK'
  <2>1. pc' \in [Procs -> Unlocked \cup Locked]
    BY <1>22 DEF TypeOK, RemoveManifest, Goto, Locked
  <2>2. man' \in [Shas -> 0 .. MaxClock]
    BY <1>22 DEF TypeOK, RemoveManifest
  <2>3. got' \in [Procs -> Shas \cup {None}]
    BY <1>22 DEF TypeOK, RemoveManifest
  <2> QED
    BY <1>22, <2>1, <2>2, <2>3 DEF TypeOK, RemoveManifest
<1>23. ASSUME NEW p \in Procs, RemoveStaging(p) PROVE TypeOK'
  BY <1>23, ReturnTypes DEF TypeOK, RemoveStaging
<1> QED
  BY <1>1, <1>2, <1>3, <1>4, <1>5, <1>6, <1>7, <1>8, <1>9, <1>10, <1>11, <1>12,
     <1>13, <1>14, <1>15, <1>16, <1>17, <1>18, <1>19, <1>20, <1>21, <1>22, <1>23
  DEF Next, Step

\* The lock, and the step every other process is at, when process p moves.
LEMMA Alone ==
  ASSUME CacheInv, NEW p \in Procs, pc[p] \in Locked, NEW q \in Procs, q # p
  PROVE  pc[q] \in Unlocked /\ lock = p
BY DEF CacheInv, TypeOK, Exclusive

\* A call that ends leaves the lock to nobody else and relies on nothing.
LEMMA ReturnSafe ==
  ASSUME CacheInv, NEW p \in Procs, Return(p)
  PROVE  /\ Exclusive'
         /\ pc'[p] = "idle"
         /\ \A q \in Procs \ {p} : pc'[q] = pc[q] /\ got'[q] = got[q]
<1>1. /\ pc' = [pc EXCEPT ![p] = "idle"]
      /\ got' = [got EXCEPT ![p] = None]
      /\ lock' = IF lock = p THEN None ELSE lock
  BY DEF Return, Goto
<1>2. pc'[p] = "idle" /\ \A q \in Procs \ {p} : pc'[q] = pc[q] /\ got'[q] = got[q]
  BY <1>1 DEF CacheInv, TypeOK
<1>3. ASSUME NEW q \in Procs, pc'[q] \in Locked PROVE lock' = q
  <2>1. q # p
    BY <1>2, <1>3 DEF Locked, Working
  <2>2. lock = q
    BY <1>2, <1>3, <2>1 DEF CacheInv, Exclusive
  <2> QED
    BY <1>1, <2>1, <2>2
<1> QED
  BY <1>2, <1>3 DEF Exclusive

\* Nothing on disk changes and process p returns.
LEMMA QuietReturn ==
  ASSUME CacheInv, NEW p \in Procs, Return(p), UNCHANGED disk
  PROVE  /\ Exclusive' /\ CurrentUsable' /\ PinnedKept' /\ OneWorkDir'
         /\ \A q \in Procs : Facts(q)'
<1>1. Exclusive' /\ pc'[p] = "idle"
      /\ \A q \in Procs \ {p} : pc'[q] = pc[q] /\ got'[q] = got[q]
  BY ReturnSafe
<1>2. CurrentUsable' /\ PinnedKept'
  BY DEF CacheInv, disk, CurrentUsable, PinnedKept, Valid
<1>3. OneWorkDir'
  BY <1>1 DEF CacheInv, disk, OneWorkDir, Working
<1>4. \A q \in Procs : Facts(q)'
  BY <1>1 DEF CacheInv, disk, Facts
<1> QED
  BY <1>1, <1>2, <1>3, <1>4

\* While process p moves under the lock the others rely on nothing.
LEMMA OthersWait ==
  ASSUME CacheInv, NEW p \in Procs, pc[p] \in Locked,
         \A q \in Procs \ {p} : pc'[q] = pc[q]
  PROVE  \A q \in Procs \ {p} : /\ Facts(q)'
                                /\ pc'[q] \notin Locked /\ pc'[q] \notin Working
<1> SUFFICES ASSUME NEW q \in Procs \ {p}
             PROVE  Facts(q)' /\ pc'[q] \notin Locked /\ pc'[q] \notin Working
  OBVIOUS
<1>1. pc'[q] \in Unlocked
  BY Alone
<1> QED
  BY <1>1 DEF Facts, Unlocked, Locked, Working

\* A step of process p under the lock: what is left to show of it.
LEMMA LockedStep ==
  ASSUME CacheInv, NEW p \in Procs, pc[p] \in Locked, NEW step,
         pc' = [pc EXCEPT ![p] = step], lock' = lock,
         CurrentUsable', PinnedKept', Facts(p)',
         \A a, b \in staging' : a = b,
         step \in Working => p \in staging'
  PROVE  /\ Exclusive' /\ CurrentUsable' /\ PinnedKept' /\ OneWorkDir'
         /\ \A q \in Procs : Facts(q)'
<1>1. pc'[p] = step /\ \A q \in Procs \ {p} : pc'[q] = pc[q]
  BY DEF CacheInv, TypeOK
<1>2. \A q \in Procs \ {p} : /\ Facts(q)'
                             /\ pc'[q] \notin Locked /\ pc'[q] \notin Working
  BY <1>1, OthersWait
<1>3. lock' = p
  BY DEF CacheInv, Exclusive
<1>4. Exclusive'
  BY <1>2, <1>3 DEF Exclusive
<1>5. OneWorkDir'
  BY <1>1, <1>2 DEF OneWorkDir
<1> QED
  BY <1>2, <1>4, <1>5

\* Every step keeps the rest of the invariant.
LEMMA Safety ==
  ASSUME CacheInv, [Next]_vars
  PROVE  /\ Exclusive' /\ CurrentUsable' /\ PinnedKept' /\ OneWorkDir'
         /\ \A q \in Procs : Facts(q)'
<1> DEFINE Goal == /\ Exclusive' /\ CurrentUsable' /\ PinnedKept' /\ OneWorkDir'
                   /\ \A q \in Procs : Facts(q)'
<1> SUFFICES Goal
  OBVIOUS
<1> HIDE DEF Goal
<1>0. ASSUME UNCHANGED <<dir, man, meta, pins, staging, lock, pc, got>> PROVE Goal
  BY <1>0 DEF Goal, CacheInv, Exclusive, CurrentUsable, PinnedKept, OneWorkDir,
              Facts, Valid
<1>1. CASE UNCHANGED vars
  BY <1>0, <1>1 DEF vars
<1>2. CASE Tick
  BY <1>0, <1>2 DEF Tick, disk
<1>r. ASSUME NEW p \in Procs, Return(p), UNCHANGED disk PROVE Goal
  BY <1>r, QuietReturn DEF Goal
<1>k. ASSUME UNCHANGED disk
      PROVE  CurrentUsable' /\ PinnedKept' /\ \A a, b \in staging' : a = b
  BY <1>k DEF CacheInv, disk, CurrentUsable, PinnedKept, OneWorkDir, Valid
<1>u. ASSUME NEW p \in Procs, NEW step \in Unlocked, lock' = lock, got' = got,
             pc' = [pc EXCEPT ![p] = step],
             UNCHANGED <<dir, man, meta, pins, staging>>
      PROVE  Goal
  <2>1. pc'[p] = step /\ \A q \in Procs \ {p} : pc'[q] = pc[q]
    BY <1>u DEF CacheInv, TypeOK
  <2>2. step \notin Locked /\ step \notin Working
    BY <1>u DEF Unlocked, Locked, Working
  <2>3. Exclusive'
    BY <1>u, <2>1, <2>2 DEF CacheInv, Exclusive
  <2>4. CurrentUsable' /\ PinnedKept' /\ OneWorkDir'
    BY <1>u, <2>1, <2>2 DEF CacheInv, CurrentUsable, PinnedKept, OneWorkDir, Valid
  <2>5. \A q \in Procs : Facts(q)'
    BY <1>u, <2>1, <2>2 DEF CacheInv, Facts, Locked, Working
  <2> QED
    BY <2>3, <2>4, <2>5 DEF Goal
<1>3. ASSUME NEW p \in Procs, Begin(p) PROVE Goal
  <2>1. PICK step \in {"want", "absent"} : pc' = [pc EXCEPT ![p] = step]
    BY <1>3 DEF Begin, Goto
  <2> QED
    BY <1>3, <1>u, <2>1 DEF Begin, Unlocked
<1>4. ASSUME NEW p \in Procs, Crash(p) PROVE Goal
  BY <1>4, <1>r DEF Crash
<1>5. ASSUME NEW p \in Procs, SeeNothing(p) PROVE Goal
  <2>1. CASE Return(p)
    BY <1>5, <1>r, <2>1 DEF SeeNothing
  <2>2. CASE ~Return(p)
    BY <1>5, <1>u, <2>2 DEF SeeNothing, Goto, disk, Unlocked
  <2> QED
    BY <2>1, <2>2
<1>7. ASSUME NEW p \in Procs, GiveUp(p) PROVE Goal
  BY <1>7, <1>r DEF GiveUp
<1>10. ASSUME NEW p \in Procs, HandOut(p) PROVE Goal
  BY <1>10, <1>r DEF HandOut
<1>20. ASSUME NEW p \in Procs, Confirm(p) PROVE Goal
  <2>1. CASE Return(p)
    BY <1>20, <1>r, <2>1 DEF Confirm
  <2>2. CASE ~Return(p)
    BY <1>20, <1>u, <2>2 DEF Confirm, Goto, disk, Unlocked
  <2> QED
    BY <2>1, <2>2
<1>6. ASSUME NEW p \in Procs, Acquire(p) PROVE Goal
  <2>1. PICK step \in {"execute", "pin", "plan", "select"} : pc' = [pc EXCEPT ![p] = step]
    BY <1>6 DEF Acquire, Goto, FirstStep
  <2>2. pc'[p] = step /\ \A q \in Procs \ {p} : pc'[q] = pc[q]
    BY <2>1 DEF CacheInv, TypeOK
  <2>3. \A q \in Procs : pc[q] \notin Locked
    BY <1>6 DEF CacheInv, Exclusive, Acquire
  <2>4. Exclusive'
    BY <1>6, <2>2, <2>3 DEF Exclusive, Acquire
  <2>5. CurrentUsable' /\ PinnedKept' /\ \A a, b \in staging' : a = b
    BY <1>6, <1>k DEF Acquire
  <2>6. OneWorkDir'
    BY <1>6, <2>2, <2>5 DEF CacheInv, OneWorkDir, Working, Acquire, disk
  <2>7. \A q \in Procs : Facts(q)'
    BY <1>6, <2>2 DEF CacheInv, Facts, Acquire, disk
  <2> QED
    BY <2>4, <2>5, <2>6, <2>7 DEF Goal
<1>8. ASSUME NEW p \in Procs, SelectCurrent(p) PROVE Goal
  <2>0. CASE Return(p)
    BY <1>8, <1>r, <2>0 DEF SelectCurrent
  <2>1. CASE ~Return(p)
    <3>1. PICK step \in {"verify", "stage"} :
            /\ pc' = [pc EXCEPT ![p] = step]
            /\ step = "verify" => meta.current # None
                                  /\ got' = [got EXCEPT ![p] = meta.current]
      BY <1>8, <2>1 DEF SelectCurrent, Goto
    <3>2. Facts(p)'
      BY <1>8, <3>1 DEF CacheInv, TypeOK, Facts, SelectCurrent, disk
    <3>3. pc[p] \in Locked /\ lock' = lock /\ UNCHANGED disk /\ step \notin Working
      BY <1>8, <2>1 DEF SelectCurrent, Locked, Working
    <3> QED
      BY <1>k, <3>1, <3>2, <3>3, LockedStep DEF Goal
  <2> QED
    BY <2>0, <2>1
<1>9. ASSUME NEW p \in Procs, VerifyCurrent(p) PROVE Goal
  <2>0. CASE Return(p)
    BY <1>9, <1>r, <2>0 DEF VerifyCurrent
  <2>1. CASE ~Return(p)
    <3>1. PICK step \in {"handed", "stage"} :
            /\ pc' = [pc EXCEPT ![p] = step]
            /\ step = "handed" => got' = got
      BY <1>9, <2>1 DEF VerifyCurrent, Goto
    <3>2. Facts(p)'
      BY <1>9, <3>1 DEF CacheInv, TypeOK, Facts, VerifyCurrent, disk
    <3>3. pc[p] \in Locked /\ lock' = lock /\ UNCHANGED disk /\ step \notin Working
      BY <1>9, <2>1 DEF VerifyCurrent, Locked, Working
    <3> QED
      BY <1>k, <3>1, <3>2, <3>3, LockedStep DEF Goal
  <2> QED
    BY <2>0, <2>1
<1>11. ASSUME NEW p \in Procs, Stage(p) PROVE Goal
  <2>1. PICK step \in {"download", "record"} :
          /\ pc' = [pc EXCEPT ![p] = step]
          /\ step = "download" => staging' = {p}
          /\ step = "record" => staging' \in SUBSET staging
    BY <1>11 DEF Stage, Goto
  <2>2. pc[p] \in Locked /\ lock' = lock /\ UNCHANGED <<dir, man, meta, pins, got>>
    BY <1>11 DEF Stage, Locked
  <2>3. CurrentUsable' /\ PinnedKept' /\ Facts(p)'
    BY <2>1, <2>2 DEF CacheInv, TypeOK, CurrentUsable, PinnedKept, Valid, Facts
  <2>4. (\A a, b \in staging' : a = b) /\ (step \in Working => p \in staging')
    BY <2>1 DEF CacheInv, OneWorkDir, Working
  <2> QED
    BY <2>1, <2>2, <2>3, <2>4, LockedStep DEF Goal
<1>12. ASSUME NEW p \in Procs, Download(p) PROVE Goal
  <2>1. PICK step \in {"publish", "failed"} :
          /\ pc' = [pc EXCEPT ![p] = step]
          /\ step = "publish" => \E s \in Shas : got' = [got EXCEPT ![p] = s]
    BY <1>12 DEF Download, Goto
  <2>2. pc[p] \in Locked /\ pc[p] \in Working /\ lock' = lock /\ UNCHANGED disk
    BY <1>12 DEF Download, Locked, Working
  <2>3. Facts(p)'
    BY <2>1 DEF CacheInv, TypeOK, Facts
  <2>4. p \in staging'
    BY <2>2 DEF CacheInv, OneWorkDir, disk
  <2> QED
    BY <1>k, <2>1, <2>2, <2>3, <2>4, LockedStep DEF Goal
<1>13. ASSUME NEW p \in Procs, PublishSnapshot(p) PROVE Goal
  <2>1. PICK step \in {"manifest", "failed"} :
          /\ pc' = [pc EXCEPT ![p] = step]
          /\ dir' \in {dir, [dir EXCEPT ![got[p]] = "whole"]}
          /\ step = "manifest" => dir'[got[p]] = "whole"
    BY <1>13 DEF PublishSnapshot, Intact, Goto, CacheInv, TypeOK, Facts
  <2>2. /\ pc[p] \in Locked /\ pc[p] \in Working /\ lock' = lock
        /\ UNCHANGED <<man, meta, pins, staging, got>> /\ got[p] \in Shas
    BY <1>13 DEF PublishSnapshot, Locked, Working, CacheInv, Facts
  <2>3. \A s \in Shas : dir[s] = "whole" => dir'[s] = "whole"
    BY <2>1, <2>2 DEF CacheInv, TypeOK
  <2>4. CurrentUsable' /\ PinnedKept'
    BY <2>2, <2>3 DEF CacheInv, TypeOK, CurrentUsable, PinnedKept, Valid
  <2>5. Facts(p)'
    BY <2>1, <2>2 DEF CacheInv, TypeOK, Facts
  <2>6. (\A a, b \in staging' : a = b) /\ p \in staging'
    BY <2>2 DEF CacheInv, OneWorkDir
  <2> QED
    BY <2>1, <2>2, <2>4, <2>5, <2>6, LockedStep DEF Goal
<1>14. ASSUME NEW p \in Procs, WriteManifest(p) PROVE Goal
  <2>1. PICK step \in {"activate", "failed"} :
          /\ pc' = [pc EXCEPT ![p] = step]
          /\ \/ \E t \in 1 .. clock : man' = [man EXCEPT ![got[p]] = IF @ = 0 THEN t ELSE @]
             \/ step = "failed" /\ man' = man
    BY <1>14 DEF WriteManifest, Goto
  <2>2. /\ pc[p] \in Locked /\ pc[p] \in Working /\ lock' = lock
        /\ UNCHANGED <<dir, meta, pins, staging, got>>
        /\ got[p] \in Shas /\ dir[got[p]] = "whole"
    BY <1>14 DEF WriteManifest, Locked, Working, CacheInv, TypeOK, Facts
  <2>3. \A s \in Shas : man[s] # 0 => man'[s] = man[s]
    BY <2>1, <2>2 DEF CacheInv, TypeOK
  <2>4. step = "activate" => man'[got[p]] # 0
    BY <2>1, <2>2 DEF CacheInv, TypeOK
  <2>5. CurrentUsable' /\ PinnedKept'
    BY <2>2, <2>3 DEF CacheInv, TypeOK, CurrentUsable, PinnedKept, Valid
  <2>6. Facts(p)'
    BY <2>1, <2>2, <2>4 DEF CacheInv, TypeOK, Facts
  <2>7. (\A a, b \in staging' : a = b) /\ p \in staging'
    BY <2>2 DEF CacheInv, OneWorkDir
  <2> QED
    BY <2>1, <2>2, <2>5, <2>6, <2>7, LockedStep DEF Goal
<1>15. ASSUME NEW p \in Procs, Activate(p) PROVE Goal
  <2>1. PICK step \in {"handed", "failed"} :
          /\ pc' = [pc EXCEPT ![p] = step]
          /\ \/ meta' = [present |-> TRUE, current |-> got[p], at |-> man[got[p]]]
             \/ step = "failed" /\ meta' = meta
          /\ staging' \in {staging, staging \ {p}}
          /\ step = "failed" => staging' = staging
    BY <1>15 DEF Activate, Goto
  <2>2. /\ pc[p] \in Locked /\ pc[p] \in Working /\ lock' = lock
        /\ UNCHANGED <<dir, man, pins, got>>
        /\ got[p] \in Shas /\ Valid(got[p])
    BY <1>15 DEF Activate, Locked, Working, CacheInv, TypeOK, Facts, Valid
  <2>3. CurrentUsable'
    BY <2>1, <2>2 DEF CacheInv, CurrentUsable, Valid
  <2>4. PinnedKept'
    BY <2>2 DEF CacheInv, PinnedKept, Valid
  <2>5. Facts(p)'
    BY <2>1, <2>2 DEF CacheInv, TypeOK, Facts
  <2>6. (\A a, b \in staging' : a = b) /\ (step \in Working => p \in staging')
    BY <2>1, <2>2 DEF CacheInv, OneWorkDir, Working
  <2> QED
    BY <2>1, <2>2, <2>3, <2>4, <2>5, <2>6, LockedStep DEF Goal
<1>16. ASSUME NEW p \in Procs, DropWork(p) PROVE Goal
  <2>1. /\ pc' = [pc EXCEPT ![p] = "record"] /\ "record" \notin Working
        /\ pc[p] \in Locked /\ lock' = lock /\ UNCHANGED <<dir, man, meta, pins>>
        /\ staging' \in SUBSET staging
    BY <1>16 DEF DropWork, Goto, Locked, Working
  <2>2. CurrentUsable' /\ PinnedKept' /\ Facts(p)'
    BY <2>1 DEF CacheInv, TypeOK, CurrentUsable, PinnedKept, Valid, Facts
  <2>3. \A a, b \in staging' : a = b
    BY <2>1 DEF CacheInv, OneWorkDir
  <2> QED
    BY <2>1, <2>2, <2>3, LockedStep DEF Goal
<1>q. ASSUME NEW p \in Procs, Return(p), pc[p] \in Locked, staging' \in SUBSET staging,
             CurrentUsable', PinnedKept'
      PROVE  Goal
  <2>1. Exclusive' /\ pc'[p] = "idle"
        /\ \A q \in Procs \ {p} : pc'[q] = pc[q] /\ got'[q] = got[q]
    BY <1>q, ReturnSafe
  <2>2. \A q \in Procs \ {p} : Facts(q)' /\ pc'[q] \notin Working
    BY <1>q, <2>1, OthersWait
  <2>3. Facts(p)'
    BY <2>1 DEF Facts
  <2>4. OneWorkDir'
    BY <1>q, <2>1, <2>2 DEF CacheInv, OneWorkDir, Working
  <2> QED
    BY <1>q, <2>1, <2>2, <2>3, <2>4 DEF Goal
<1>17. ASSUME NEW p \in Procs, RecordFailure(p) PROVE Goal
  <2>1. /\ Return(p) /\ pc[p] \in Locked /\ staging' \in SUBSET staging
        /\ UNCHANGED <<dir, man, pins>>
        /\ meta'.current = meta.current /\ meta'.at = meta.at
    BY <1>17 DEF RecordFailure, Locked, CacheInv, TypeOK
  <2>2. CurrentUsable' /\ PinnedKept'
    BY <2>1 DEF CacheInv, CurrentUsable, PinnedKept, Valid
  <2> QED
    BY <1>q, <2>1, <2>2
<1>18. ASSUME NEW p \in Procs, SetPin(p) PROVE Goal
  <2>1. /\ Return(p) /\ pc[p] \in Locked /\ staging' \in SUBSET staging
        /\ UNCHANGED <<dir, man, meta>>
    BY <1>18 DEF SetPin, Locked
  <2>2. CurrentUsable'
    BY <2>1 DEF CacheInv, CurrentUsable, Valid
  <2>3. \A s \in pins' : s \in pins \/ Valid(s)
    BY <1>18 DEF SetPin
  <2>4. PinnedKept'
    BY <2>1, <2>3 DEF CacheInv, PinnedKept, Valid
  <2> QED
    BY <1>q, <2>1, <2>2, <2>4
<1>19. ASSUME NEW p \in Procs, PlanPrune(p) PROVE Goal
  <2>1. /\ pc' = [pc EXCEPT ![p] = "planned"] /\ pc[p] \in Locked
        /\ lock' = None /\ UNCHANGED disk /\ UNCHANGED got
    BY <1>19 DEF PlanPrune, Goto, Locked
  <2>2. pc'[p] = "planned" /\ \A q \in Procs \ {p} : pc'[q] = pc[q]
    BY <2>1 DEF CacheInv, TypeOK
  <2>3. \A q \in Procs \ {p} : /\ Facts(q)'
                               /\ pc'[q] \notin Locked /\ pc'[q] \notin Working
    BY <2>1, <2>2, OthersWait
  <2>4. Exclusive' /\ Facts(p)'
    BY <2>2, <2>3 DEF Exclusive, Facts, Locked, Working
  <2>5. CurrentUsable' /\ PinnedKept' /\ \A a, b \in staging' : a = b
    BY <1>k, <2>1
  <2>6. OneWorkDir'
    BY <2>2, <2>3, <2>5 DEF OneWorkDir, Working
  <2> QED
    BY <2>3, <2>4, <2>5, <2>6 DEF Goal
<1>21. ASSUME NEW p \in Procs, RemoveSnapshot(p) PROVE Goal
  <2>1. /\ pc[p] = "execute" /\ pc[p] \in Locked /\ lock' = lock
        /\ UNCHANGED <<man, meta, pins, staging>>
    BY <1>21 DEF RemoveSnapshot, Locked
  <2>2. PICK s \in Shas, step \in {"execute", "unlink"} :
          /\ pc' = [pc EXCEPT ![p] = step]
          /\ \/ dir' = dir /\ step = "execute"
             \/ /\ Unprotected(s)
                /\ dir' = [dir EXCEPT ![s] = "torn"] /\ step = "execute"
             \/ /\ Unprotected(s)
                /\ dir' = [dir EXCEPT ![s] = "none"]
                /\ got' = [got EXCEPT ![p] = s]
    <3>1. PICK c \in plan[p].snaps :
            \/ /\ StillCandidate(c)
               /\ dir' = [dir EXCEPT ![c[1]] = "none"]
               /\ got' = [got EXCEPT ![p] = c[1]]
               /\ Goto(p, "unlink")
            \/ /\ StillCandidate(c)
               /\ dir' = [dir EXCEPT ![c[1]] = "torn"]
               /\ UNCHANGED <<got, pc>>
            \/ UNCHANGED <<dir, got, pc>>
      BY <1>21 DEF RemoveSnapshot
    <3>2. c[1] \in Shas
      BY DEF CacheInv, TypeOK
    <3>3. pc = [pc EXCEPT ![p] = "execute"]
      BY <2>1 DEF CacheInv, TypeOK
    <3>4. CASE UNCHANGED <<dir, pc>>
      BY <3>2, <3>3, <3>4
    <3>5. CASE /\ StillCandidate(c) /\ UNCHANGED pc
               /\ dir' = [dir EXCEPT ![c[1]] = "torn"]
      BY <3>2, <3>3, <3>5 DEF StillCandidate
    <3>6. CASE /\ StillCandidate(c) /\ Goto(p, "unlink")
               /\ dir' = [dir EXCEPT ![c[1]] = "none"]
               /\ got' = [got EXCEPT ![p] = c[1]]
      BY <3>2, <3>6 DEF StillCandidate, Goto
    <3> QED
      BY <3>1, <3>4, <3>5, <3>6
  <2>3. \A t \in Shas : t = meta.current \/ t \in pins => dir'[t] = dir[t]
    BY <2>2 DEF Unprotected, CacheInv, TypeOK
  <2>4. CurrentUsable' /\ PinnedKept'
    BY <2>1, <2>3 DEF CacheInv, TypeOK, CurrentUsable, PinnedKept, Valid
  <2>5. Facts(p)'
    BY <2>2 DEF CacheInv, TypeOK, Facts
  <2>6. (\A a, b \in staging' : a = b) /\ step \notin Working
    BY <2>1 DEF CacheInv, OneWorkDir, Working
  <2> QED
    BY <2>1, <2>2, <2>4, <2>5, <2>6, LockedStep DEF Goal
<1>22. ASSUME NEW p \in Procs, RemoveManifest(p) PROVE Goal
  <2>1. /\ pc' = [pc EXCEPT ![p] = "execute"] /\ pc[p] \in Locked /\ lock' = lock
        /\ UNCHANGED <<dir, meta, pins, staging>> /\ "execute" \notin Working
        /\ man' \in {man, [man EXCEPT ![got[p]] = 0]}
        /\ got[p] \in Shas /\ dir[got[p]] = "none"
    BY <1>22 DEF RemoveManifest, Goto, Locked, Working, CacheInv, Facts
  <2>2. \A s \in Shas : dir[s] = "whole" => man'[s] = man[s]
    BY <2>1 DEF CacheInv, TypeOK
  <2>3. CurrentUsable' /\ PinnedKept'
    BY <2>1, <2>2 DEF CacheInv, TypeOK, CurrentUsable, PinnedKept, Valid
  <2>4. Facts(p)'
    BY <2>1 DEF CacheInv, TypeOK, Facts
  <2>5. \A a, b \in staging' : a = b
    BY <2>1 DEF CacheInv, OneWorkDir
  <2> QED
    BY <2>1, <2>3, <2>4, <2>5, LockedStep DEF Goal
<1>23. ASSUME NEW p \in Procs, RemoveStaging(p) PROVE Goal
  <2>1. /\ Return(p) /\ pc[p] \in Locked /\ staging' \in SUBSET staging
        /\ UNCHANGED <<dir, man, meta, pins>>
    BY <1>23 DEF RemoveStaging, Locked
  <2>2. CurrentUsable' /\ PinnedKept'
    BY <2>1 DEF CacheInv, CurrentUsable, PinnedKept, Valid
  <2> QED
    BY <1>q, <2>1, <2>2
<1> QED
  BY <1>1, <1>2, <1>3, <1>4, <1>5, <1>6, <1>7, <1>8, <1>9, <1>10, <1>11, <1>12,
     <1>13, <1>14, <1>15, <1>16, <1>17, <1>18, <1>19, <1>20, <1>21, <1>22, <1>23
  DEF Next, Step

----------------------------------------------------------------------------
LEMMA Invariance == Spec => []CacheInv
<1>1. CacheInv /\ [Next]_vars => CacheInv'
  BY Types, Safety DEF CacheInv
<1> QED
  BY Initially, <1>1, PTL DEF Spec

\* Every retrieval, plan, pin and lock holder stays within the states the cache's
\* code can leave it in.
THEOREM TypeCorrect == Spec => []TypeOK
BY Invariance, PTL DEF CacheInv

\* For every number of processes and snapshots: whatever crashes or fails
\* between the three publications of fetch_and_publish or inside a prune, and
\* whatever becomes current between a plan and its execution, metadata.json
\* names a snapshot that is whole and has its manifest.
THEOREM CurrentAlwaysUsable == Spec => []CurrentUsable
BY Invariance, PTL DEF CacheInv

\* No interleaving of pins, plans, executions and retrievals removes a pinned
\* snapshot or its manifest.
THEOREM PinsAlwaysKept == Spec => []PinnedKept
BY Invariance, PTL DEF CacheInv

\* A retrieval never loses its operation directory to a clean-up, and never
\* leaves more than one behind.
THEOREM StagingAlwaysOne == Spec => []OneWorkDir
BY Invariance, PTL DEF CacheInv

\* A snapshot that is handed to a caller is the current one, whole.
THEOREM HandedOutAlwaysCurrent == Spec => []HandedOutIsCurrent
<1>1. CacheInv => HandedOutIsCurrent
  BY DEF CacheInv, Facts, CurrentUsable, HandedOutIsCurrent
<1> QED
  BY Invariance, <1>1, PTL

\* The only steps that change a snapshot directory or a manifest.
LEMMA Writers ==
  ASSUME [Next]_vars
  PROVE  /\ dir' = dir \/ \E p \in Procs : PublishSnapshot(p) \/ RemoveSnapshot(p)
         /\ man' = man \/ \E p \in Procs : WriteManifest(p) \/ RemoveManifest(p)
BY DEF Next, vars, Step, Tick, Begin, Crash, SeeNothing, Acquire, GiveUp,
       SelectCurrent, VerifyCurrent, HandOut, Stage, Download, PublishSnapshot,
       WriteManifest, Activate, DropWork, RecordFailure, SetPin, PlanPrune,
       Confirm, RemoveSnapshot, RemoveManifest, RemoveStaging, disk

\* A directory that cannot be verified stays as it is: a retrieval only fills
\* an absent one, and a prune revalidates what it removes.
THEOREM UnverifiedAlwaysKept == Spec => UnverifiedKept
<1>1. ASSUME CacheInv, [Next]_vars, NEW s \in Shas, dir[s] # "none", ~Valid(s)
      PROVE  dir'[s] = dir[s]
  <2>1. ASSUME NEW p \in Procs, PublishSnapshot(p) PROVE dir'[s] = dir[s]
    BY <1>1, <2>1 DEF PublishSnapshot, CacheInv, TypeOK
  <2>2. ASSUME NEW p \in Procs, RemoveSnapshot(p) PROVE dir'[s] = dir[s]
    <3>1. PICK c \in plan[p].snaps :
            \/ dir' = dir
            \/ /\ Valid(c[1])
               /\ \E d : dir' = [dir EXCEPT ![c[1]] = d]
      BY <2>2 DEF RemoveSnapshot, StillCandidate, Unprotected
    <3> QED
      BY <1>1, <3>1 DEF CacheInv, TypeOK
  <2> QED
    BY <1>1, <2>1, <2>2, Writers
<1>2. CacheInv /\ [Next]_vars
        => [\A s \in Shas : dir[s] # "none" /\ ~Valid(s) => dir'[s] = dir[s]]_vars
  BY <1>1
<1> QED
  BY Invariance, <1>2, PTL DEF Spec, UnverifiedKept

\* A manifest is never rewritten, and outlives its snapshot.
THEOREM ManifestsAlwaysImmutable == Spec => ManifestsImmutable
<1>1. ASSUME CacheInv, [Next]_vars, NEW s \in Shas, man[s] # 0, man'[s] # man[s]
      PROVE  man'[s] = 0 /\ dir[s] = "none"
  <2>1. ASSUME NEW p \in Procs, WriteManifest(p) PROVE FALSE
    BY <1>1, <2>1 DEF WriteManifest, CacheInv, TypeOK
  <2>2. ASSUME NEW p \in Procs, RemoveManifest(p) PROVE man'[s] = 0 /\ dir[s] = "none"
    BY <1>1, <2>2 DEF RemoveManifest, CacheInv, TypeOK, Facts
  <2> QED
    BY <1>1, <2>1, <2>2, Writers
<1>2. CacheInv /\ [Next]_vars
        => [\A s \in Shas : man[s] # 0 /\ man'[s] # man[s]
                               => man'[s] = 0 /\ dir[s] = "none"]_vars
  BY <1>1
<1> QED
  BY Invariance, <1>2, PTL DEF Spec, ManifestsImmutable

=============================================================================
