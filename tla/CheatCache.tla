----------------------------- MODULE CheatCache -----------------------------
(***************************************************************************)
(* The cache of RetroArch cheat snapshots of one trusted source, and the   *)
(* processes that share it: retrieval (cheat_sources.rs), inspection,      *)
(* pinning and pruning (cheat_cache_maintenance.rs), all under the lock of *)
(* the cache root (cheat_cache_lock.rs), in                                *)
(* crates/archivefs-core/src/patch_manager/.                               *)
(*                                                                         *)
(* On disk a source has snapshots/<sha>, one directory per archive digest, *)
(* manifests/<sha>.json beside it, metadata.json with the current          *)
(* snapshot, pins.json, and .staging/ for the retrieval under way.  Every  *)
(* step below is one durable change; a process may die before each of      *)
(* them, and then the operating system releases its lock.                  *)
(***************************************************************************)
EXTENDS Naturals, FiniteSets

CONSTANTS
  Procs,       \* processes that use the cache
  Shas,        \* digests of the archives upstream may serve
  FreshFor,    \* FRESH_SECONDS, in ticks
  MaxClock,    \* bound: ticks of the clock
  None         \* no process, no snapshot

ASSUME CacheAssumption ==
  /\ None \notin Procs \cup Shas
  /\ FreshFor \in Nat
  /\ MaxClock \in Nat \ {0}

VARIABLES
  clock,    \* now_seconds
  root,     \* the cache root exists
  dir,      \* dir[s]: snapshots/<s> is missing, whole or torn
  man,      \* man[s]: the time in manifests/<s>.json, 0 when there is none
  meta,     \* metadata.json, without the record of the last failure
  pins,     \* pins.json
  staging,  \* the processes whose operation directory is in .staging
  lock,     \* the process that holds the lock of the root, or None
  pc,       \* pc[p]: the step process p is at
  op,       \* op[p]: the operation p is in, or None
  got,      \* got[p]: the snapshot p works on, or None
  plan      \* plan[p]: the candidates of p's prune plan

disk == <<root, dir, man, meta, pins, staging>>

vars == <<clock, root, dir, man, meta, pins, staging, lock, pc, op, got, plan>>

\* An offline fetch is an inspection that may turn its snapshot down.
Operations == {"fetch", "inspect", "pin", "prune"}

\* The steps of a process that holds no lock.
Unlocked == {"idle", "want", "absent", "planned", "confirm"}

\* The steps of fetch_and_publish between the creation of its operation
\* directory and the removal of that directory.
Working == {"download", "publish", "manifest", "activate", "failed"}

Locked == {"select", "verify", "stage", "record", "handed", "pin", "plan",
           "execute", "unlink"} \cup Working

NoPlan == [snaps |-> {}, staging |-> {}]

\* CHEAT_SOURCE_INACTIVE_STAGING_CLEANUP_LIMIT
CleanupLimit == 16

TypeOK ==
  /\ clock \in 1 .. MaxClock
  /\ root \in BOOLEAN
  /\ dir \in [Shas -> {"none", "whole", "torn"}]
  /\ man \in [Shas -> 0 .. MaxClock]
  /\ meta \in [present : BOOLEAN, current : Shas \cup {None},
               at : 0 .. MaxClock]
  /\ pins \in SUBSET Shas
  /\ staging \in SUBSET Procs
  /\ lock \in Procs \cup {None}
  /\ pc \in [Procs -> Unlocked \cup Locked]
  /\ op \in [Procs -> Operations \cup {None}]
  /\ got \in [Procs -> Shas \cup {None}]
  /\ plan \in [Procs -> [snaps : SUBSET (Shas \X (0 .. MaxClock)),
                         staging : SUBSET Procs]]

Init ==
  /\ clock = 1
  /\ root = FALSE
  /\ dir = [s \in Shas |-> "none"]
  /\ man = [s \in Shas |-> 0]
  /\ meta = [present |-> FALSE, current |-> None, at |-> 0]
  /\ pins = {}
  /\ staging = {}
  /\ lock = None
  /\ pc = [p \in Procs |-> "idle"]
  /\ op = [p \in Procs |-> None]
  /\ got = [p \in Procs |-> None]
  /\ plan = [p \in Procs |-> NoPlan]

----------------------------------------------------------------------------
(* What the code reads off the disk. *)

\* verify_catalogue_manifest: the files are exactly the ones recorded.
Intact(s) == dir[s] = "whole"

\* SnapshotInventoryEntry::valid: a manifest that binds to the directory and
\* lists exactly the files in it.
Valid(s) == dir[s] = "whole" /\ man[s] # 0

\* Neither current nor pinned, the metadata of the source readable, and every
\* pin the name of a directory that is there.
Unprotected(s) ==
  /\ meta.present
  /\ s # meta.current
  /\ s \notin pins
  /\ \A q \in pins : dir[q] # "none"
  /\ Valid(s)

\* manifest_freshness of the manifest in metadata.json.
Fresh == clock - meta.at <= FreshFor

----------------------------------------------------------------------------
(* Steps of a process. *)

Goto(p, step) == pc' = [pc EXCEPT ![p] = step]

\* The call ends: the guard is dropped with everything else it held.
Return(p) ==
  /\ Goto(p, "idle")
  /\ lock' = IF lock = p THEN None ELSE lock
  /\ got' = [got EXCEPT ![p] = None]
  /\ plan' = [plan EXCEPT ![p] = NoPlan]
  /\ op' = [op EXCEPT ![p] = None]

\* prepare_cache_root
WithRoot(o) == root \/ o = "fetch"

\* A public operation is called and looks for the cache root.  An online
\* fetch creates it, set_pin requires it, the others go on without a guard
\* when it is missing.
Begin(p) ==
  /\ pc[p] = "idle"
  /\ \E o \in Operations :
       /\ op' = [op EXCEPT ![p] = o]
       /\ o = "pin" => root
       /\ root' = WithRoot(o)
       /\ Goto(p, IF root' THEN "want" ELSE "absent")
  /\ UNCHANGED <<clock, dir, man, meta, pins, staging, lock, got, plan>>

\* Mutant: present_at_acquisition is not asked, and the root is there by now.
SeeWhatIsThere(p) ==
  /\ pc[p] = "absent"
  /\ \/ /\ op[p] = "prune"
        /\ Goto(p, "planned")
        /\ UNCHANGED <<lock, op, got, plan>>
     \/ /\ op[p] # "prune"
        /\ Goto(p, "select")
        /\ UNCHANGED <<lock, op, got, plan>>
  /\ UNCHANGED <<clock, disk>>

\* Without a guard every operation sees an empty cache: present_at_acquisition
\* is false, whatever has been created since.
SeeNothing(p) ==
  /\ pc[p] = "absent"
  /\ \/ /\ op[p] = "prune"
        /\ Goto(p, "planned")
        /\ UNCHANGED <<lock, op, got, plan>>
     \/ /\ op[p] # "prune"
        /\ Return(p)
  /\ UNCHANGED <<clock, disk>>

FirstStep(o) ==
  CASE o = "pin" -> "pin"
    [] o = "prune" -> "plan"
    [] OTHER -> "select"

\* try_lock_exclusive succeeds.
Acquire(p) ==
  /\ pc[p] \in {"want", "confirm"}
  /\ lock = None
  /\ lock' = p
  /\ Goto(p, IF pc[p] = "confirm" THEN "execute" ELSE FirstStep(op[p]))
  /\ UNCHANGED <<clock, disk, op, got, plan>>

\* cache_lock_timeout
GiveUp(p) ==
  /\ pc[p] \in {"want", "confirm"}
  /\ lock # None
  /\ Return(p)
  /\ UNCHANGED <<clock, disk>>

----------------------------------------------------------------------------
(* Inspection, and the selection a fetch starts with. *)

\* The current snapshot in metadata.json.
SelectCurrent(p) ==
  /\ pc[p] = "select"
  /\ \/ /\ meta.current # None
        /\ got' = [got EXCEPT ![p] = meta.current]
        /\ Goto(p, "verify")
        /\ UNCHANGED <<lock, op, plan>>
     \/ /\ meta.current = None
        /\ op[p] = "fetch"
        /\ Goto(p, "stage")
        /\ UNCHANGED <<lock, op, got, plan>>
     \/ /\ meta.current = None
        /\ op[p] # "fetch"
        /\ Return(p)
  /\ UNCHANGED <<clock, disk>>

\* verify_catalogue_manifest over its files; then an inspection, and a fetch that
\* finds the snapshot fresh, hands it out.  A forced refresh and a digest the
\* caller expects are the caller's choice.
VerifyCurrent(p) ==
  /\ pc[p] = "verify"
  /\ \/ /\ Intact(got[p])
        /\ op[p] = "fetch" => Fresh
        /\ Goto(p, "handed")
        /\ UNCHANGED <<lock, op, got, plan>>
     \/ /\ op[p] = "fetch"
        /\ got' = [got EXCEPT ![p] = None]
        /\ Goto(p, "stage")
        /\ UNCHANGED <<lock, op, plan>>
     \/ /\ op[p] # "fetch"
        /\ Return(p)
  /\ UNCHANGED <<clock, disk>>

\* The snapshot's path is returned and the guard dropped.
HandOut(p) ==
  /\ pc[p] = "handed"
  /\ Return(p)
  /\ UNCHANGED <<clock, disk>>

----------------------------------------------------------------------------
(* fetch_and_publish *)

\* Mutant: the inactive entries are left for the next prune.
StageOnly(p) ==
  /\ pc[p] = "stage"
  /\ \/ /\ staging' = staging \cup {p}
        /\ plan' = [q \in Procs |-> [plan[q] EXCEPT !.staging = @ \ {p}]]
        /\ Goto(p, "download")
     \/ /\ Goto(p, "record")
        /\ UNCHANGED <<staging, plan>>
  /\ UNCHANGED <<clock, root, dir, man, meta, pins, lock, op, got>>

\* cleanup_inactive_staging and the new operation directory, whose name (the
\* process and the time) is in no older plan.
Stage(p) ==
  /\ pc[p] = "stage"
  /\ \/ /\ Cardinality(staging) <= CleanupLimit
        /\ staging' = {p}
        /\ plan' = [q \in Procs |-> [plan[q] EXCEPT !.staging = @ \ {p}]]
        /\ Goto(p, "download")
     \/ /\ \/ staging' = staging
           \/ /\ Cardinality(staging) <= CleanupLimit
              /\ staging' \in SUBSET staging
        /\ Goto(p, "record")
        /\ UNCHANGED plan
  /\ UNCHANGED <<clock, root, dir, man, meta, pins, lock, op, got>>

\* Revision, download with its retries, validation and extraction, all inside
\* the operation directory; each may fail or be cancelled.
Download(p) ==
  /\ pc[p] = "download"
  /\ \/ \E s \in Shas : /\ got' = [got EXCEPT ![p] = s]
                        /\ Goto(p, "publish")
     \/ /\ Goto(p, "failed")
        /\ UNCHANGED got
  /\ UNCHANGED <<clock, disk, lock, op, plan>>

\* The extracted tree is renamed to snapshots/<sha>; sync_directory may fail
\* after it.  A directory that is already there must hold the same files.
PublishSnapshot(p) ==
  /\ pc[p] = "publish"
  /\ \/ /\ dir[got[p]] = "none"
        /\ dir' = [dir EXCEPT ![got[p]] = "whole"]
        /\ \/ Goto(p, "manifest")
           \/ Goto(p, "failed")
     \/ /\ Intact(got[p])
        /\ Goto(p, "manifest")
        /\ UNCHANGED dir
     \/ /\ Goto(p, "failed")
        /\ UNCHANGED dir
  /\ UNCHANGED <<clock, root, man, meta, pins, staging, lock, op, got, plan>>

\* Mutant: the manifest is written with atomic_write_json, which replaces.
OverwriteManifest(p) ==
  /\ pc[p] = "manifest"
  /\ \/ /\ man' = [man EXCEPT ![got[p]] = clock]
        /\ \/ Goto(p, "activate")
           \/ Goto(p, "failed")
     \/ /\ Goto(p, "failed")
        /\ UNCHANGED man
  /\ UNCHANGED <<clock, root, dir, meta, pins, staging, lock, op, got, plan>>

\* Mutant: the time is rounded up to the next tick.
PostdateManifest(p) ==
  /\ pc[p] = "manifest"
  /\ man' = [man EXCEPT ![got[p]] = IF @ = 0 THEN clock + 1 ELSE @]
  /\ \/ Goto(p, "activate")
     \/ Goto(p, "failed")
  /\ UNCHANGED <<clock, root, dir, meta, pins, staging, lock, op, got, plan>>

\* atomic_write_json_new: hard_link never replaces, so a manifest of an earlier
\* retrieval stays, with its time.  A new one has the time at which the
\* download was validated, which may be behind the clock by now.  What follows
\* the link may fail.
WriteManifest(p) ==
  /\ pc[p] = "manifest"
  /\ \/ /\ \E fetched_at \in 1 .. clock :
             man' = [man EXCEPT ![got[p]] = IF @ = 0 THEN fetched_at ELSE @]
        /\ \/ Goto(p, "activate")
           \/ Goto(p, "failed")
     \/ /\ Goto(p, "failed")
        /\ UNCHANGED man
  /\ UNCHANGED <<clock, root, dir, meta, pins, staging, lock, op, got, plan>>

\* metadata.json is replaced and the operation directory removed (a failure of
\* that is ignored); sync_directory may fail after the replacement.
Activate(p) ==
  /\ pc[p] = "activate"
  /\ \/ /\ meta' = [present |-> TRUE, current |-> got[p], at |-> man[got[p]]]
        /\ \/ /\ Goto(p, "handed")
              /\ staging' \in {staging, staging \ {p}}
           \/ /\ Goto(p, "failed")
              /\ UNCHANGED staging
     \/ /\ Goto(p, "failed")
        /\ UNCHANGED <<meta, staging>>
  /\ UNCHANGED <<clock, root, dir, man, pins, lock, op, got, plan>>

\* WorkCleanup, whose failure is ignored.
DropWork(p) ==
  /\ pc[p] = "failed"
  /\ staging' \in {staging, staging \ {p}}
  /\ Goto(p, "record")
  /\ UNCHANGED <<clock, root, dir, man, meta, pins, lock, op, got, plan>>

\* record_fetch_failure keeps the current snapshot; its own failure is ignored.
RecordFailure(p) ==
  /\ pc[p] = "record"
  /\ meta' \in {meta, [meta EXCEPT !.present = TRUE]}
  /\ Return(p)
  /\ UNCHANGED <<clock, root, dir, man, pins, staging>>

----------------------------------------------------------------------------
(* Pins and pruning. *)

\* Only a valid snapshot is pinned or unpinned; the write may fail before or
\* after it took effect.
SetPin(p) ==
  /\ pc[p] = "pin"
  /\ \/ \E s \in Shas : /\ Valid(s)
                        /\ pins' \in {pins \cup {s}, pins \ {s}}
     \/ UNCHANGED pins
  /\ Return(p)
  /\ UNCHANGED <<clock, root, dir, man, meta, staging>>

\* The plan: the count, age and size rules select the oldest of the
\* unprotected snapshots, each with the token of its manifest, and the
\* staging entries that are old enough.  The guard is dropped with the plan in
\* the caller's hand.
PlanPrune(p) ==
  /\ pc[p] = "plan"
  /\ \E T \in SUBSET {s \in Shas : Unprotected(s)}, S \in SUBSET staging :
       /\ \A s \in T, o \in Shas : Unprotected(o) /\ man[o] < man[s] => o \in T
       /\ plan' = [plan EXCEPT ![p] = [snaps |-> {<<s, man[s]>> : s \in T},
                                       staging |-> S]]
  /\ lock' = None
  /\ Goto(p, "planned")
  /\ UNCHANGED <<clock, disk, op, got>>

\* The plan is a preview, or it is confirmed and the lock asked for again.
Confirm(p) ==
  /\ pc[p] = "planned"
  /\ \/ Return(p)
     \/ /\ root
        /\ Goto(p, "confirm")
        /\ UNCHANGED <<lock, op, got, plan>>
  /\ UNCHANGED <<clock, disk>>

\* Mutant: metadata.json is not read again.
CandidateWhateverCurrent(c) ==
  Valid(c[1]) /\ c[1] \notin pins /\ man[c[1]] = c[2]

\* Mutant: pins.json is not read again.
CandidateWhateverPinned(c) ==
  meta.present /\ Valid(c[1]) /\ c[1] # meta.current /\ man[c[1]] = c[2]

\* Mutant: the manifest's token alone vouches for the content.
CandidateUnverified(c) ==
  /\ meta.present /\ c[1] # meta.current /\ c[1] \notin pins
  /\ man[c[1]] = c[2]

\* The revalidation of one candidate <<s, token>> under the lock.
StillCandidate(c) ==
  /\ Unprotected(c[1])
  /\ man[c[1]] = c[2]

\* execute_snapshot_candidate up to remove_dir_all, which may fail before it
\* removed anything or half-way.
RemoveSnapshot(p) ==
  /\ pc[p] = "execute"
  /\ \E c \in plan[p].snaps :
       /\ plan' = [plan EXCEPT ![p].snaps = @ \ {c}]
       /\ \/ /\ StillCandidate(c)
             /\ dir' = [dir EXCEPT ![c[1]] = "none"]
             /\ got' = [got EXCEPT ![p] = c[1]]
             /\ Goto(p, "unlink")
          \/ /\ StillCandidate(c)
             /\ dir' = [dir EXCEPT ![c[1]] = "torn"]
             /\ UNCHANGED <<got, pc>>
          \/ UNCHANGED <<dir, got, pc>>
  /\ UNCHANGED <<clock, root, man, meta, pins, staging, lock, op>>

\* remove_file of its manifest, which may fail.
RemoveManifest(p) ==
  /\ pc[p] = "unlink"
  /\ man' \in {man, [man EXCEPT ![got[p]] = 0]}
  /\ got' = [got EXCEPT ![p] = None]
  /\ Goto(p, "execute")
  /\ UNCHANGED <<clock, root, dir, meta, pins, staging, lock, op, plan>>

\* The staging candidates that are still there and unchanged come last; each
\* removal may fail.
RemoveStaging(p) ==
  /\ pc[p] = "execute"
  /\ plan[p].snaps = {}
  /\ \E R \in SUBSET (plan[p].staging \cap staging) : staging' = staging \ R
  /\ Return(p)
  /\ UNCHANGED <<clock, root, dir, man, meta, pins>>

----------------------------------------------------------------------------
\* The process dies: its descriptors are closed, its files stay.
Crash(p) ==
  /\ pc[p] # "idle"
  /\ Return(p)
  /\ UNCHANGED <<clock, disk>>

Tick ==
  /\ clock < MaxClock
  /\ clock' = clock + 1
  /\ UNCHANGED <<disk, lock, pc, op, got, plan>>

Step(p) ==
  \/ SeeNothing(p) \/ Acquire(p) \/ GiveUp(p)
  \/ SelectCurrent(p) \/ VerifyCurrent(p) \/ HandOut(p)
  \/ Stage(p) \/ Download(p) \/ PublishSnapshot(p) \/ WriteManifest(p)
  \/ Activate(p) \/ DropWork(p) \/ RecordFailure(p)
  \/ SetPin(p) \/ PlanPrune(p) \/ Confirm(p)
  \/ RemoveSnapshot(p) \/ RemoveManifest(p) \/ RemoveStaging(p)

Next ==
  \/ \E p \in Procs : Begin(p) \/ Step(p) \/ Crash(p)
  \/ Tick

Spec == Init /\ [][Next]_vars

----------------------------------------------------------------------------
(* Properties. *)

\* The snapshot metadata.json names is whole, has its manifest on disk, and is
\* the one metadata.json copied: after every crash of a retrieval between its
\* three publications, and of a prune that was planned before the snapshot
\* became current.
CurrentUsable ==
  meta.current # None => Valid(meta.current) /\ meta.at = man[meta.current]

\* A pinned snapshot is whole and verifiable, also when the pin was set between
\* a prune's plan and its execution; so no pin names an unknown snapshot, which
\* would make execute_snapshot_candidate refuse every candidate for good.
PinnedKept == \A s \in pins : Valid(s)

\* At most one operation directory is in .staging, and it is there for as long
\* as a retrieval works in it: cleanup_inactive_staging and a prune's staging
\* candidates never remove one that is in use, and the limit of sixteen
\* entries, which would stop every retrieval, is never met.
OneWorkDir ==
  /\ \A p, q \in staging : p = q
  /\ \A p \in Procs : pc[p] \in Working => p \in staging

\* What a fetch or an inspection returns is the current snapshot, whole, at the
\* moment it returns; a process that found no cache root returns nothing of
\* what another has created meanwhile.
HandedOutIsCurrent ==
  \A p \in Procs : pc[p] = "handed" => got[p] = meta.current /\ Valid(got[p])

\* A directory that cannot be verified (torn by an interrupted prune, or left
\* without a manifest by an interrupted retrieval) is touched by nothing that
\* maintenance or retrieval does.
UnverifiedKept ==
  [][\A s \in Shas : dir[s] # "none" /\ ~Valid(s) => dir'[s] = dir[s]]_vars

\* A manifest is written once: it changes only by being removed, and only when
\* its snapshot is gone.
ManifestsImmutable ==
  [][\A s \in Shas : man[s] # 0 /\ man'[s] # man[s]
                        => man'[s] = 0 /\ dir[s] = "none"]_vars

=============================================================================
