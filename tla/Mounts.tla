------------------------------- MODULE Mounts -------------------------------
(***************************************************************************)
(* The mount lifecycle of crates/archivefs-core/src/lib.rs: planning mount *)
(* paths, mounting, unmounting (normal and lazy) and cleaning up mount     *)
(* directories, as the CLI and the GUI call it from several processes and  *)
(* threads that share nothing but the mount table and the directories      *)
(* below the mount root, with no lock between them.                        *)
(*                                                                         *)
(* The mounting programs (ratarmount, fusermount, umount) and the kernel's *)
(* mount table are external: a program may do its work and still be killed *)
(* by the 30 second timeout, or report success and have done nothing.  It  *)
(* is an ordinary child process: when its caller is killed it runs on, and *)
(* may mount or unmount long after another call has made its checks.       *)
(***************************************************************************)
EXTENDS Naturals, Sequences, SequencesExt, FiniteSets

CONSTANTS
  Procs,          \* processes and GUI workers
  Orphans,        \* bound: programs left running by a killed caller, one per kill
  Archives,       \* archives a source folder can hold
  Base,           \* Base[a]: safe_mount_name of archive a
  EmptyArchives,  \* archives that show an empty directory when mounted
  Untagged,       \* the mount name carries no fingerprint
  Platform,       \* the platform directory above every mount path
  MaxChanges,     \* bound: archives added to or removed from the library
  MaxFiles        \* bound: files the user puts below the mount root

ASSUME MountsAssumption ==
  /\ Untagged \notin Archives
  /\ EmptyArchives \subseteq Archives
  /\ IsFiniteSet(Procs)
  /\ IsFiniteSet(Orphans)
  /\ Procs \cap Orphans = {}
  /\ MaxChanges \in Nat
  /\ MaxFiles \in Nat

\* The paths plan_mounts can choose: the base name, or base name--fingerprint.
Targets == {<<Base[a], Untagged>> : a \in Archives}
             \cup {<<Base[a], a>> : a \in Archives}

Dirs == Targets \cup {Platform}

\* Whatever can run a mounting program: a call, or the program without its call.
Runners == Procs \cup Orphans

VARIABLES
  library,   \* the archives in the source folders
  table,     \* table[t]: archives mounted on t, the last one on top
  dirs,      \* the directories that exist below the mount root
  files,     \* directories the user has put a file into
  proc,      \* proc[p]: the call process p is in, or was in when it was killed
  used,      \* the orphans so far: one for every kill of a running program
  changes,   \* changes of the library so far
  puts       \* files put below the mount root so far

vars == <<library, table, dirs, files, proc, used, changes, puts>>

\* mount stands for mount_one_plan and remount_one_plan.
Ops == {"mount", "unmount", "clean"}

\* A call in progress, and what the last one returned.  The identity of the
\* target: the directory has not been replaced (kept) and under is what was
\* mounted on it; tries: unmount programs that have failed; late: history, the
\* target changed after the last check of p.
Call == [pc : {"planned", "prepare", "revalidate", "command", "verify",
               "check", "remove"},
         op : Ops, a : Archives, path : Targets, dir : Dirs,
         kept : BOOLEAN, under : Seq(Archives), tries : 0 .. 2,
         late : BOOLEAN]

\* Mounted and AlreadyMounted both tell the caller that its archive is mounted;
\* of the other results nothing depends on which it is.
Rest == [pc : {"idle"}, said : {"mounted", "other"}]

InCall(p) == proc[p].pc # "idle"

\* p's mount program has been started and has not covered its target yet.
Starting(p) == proc[p].pc = "command" /\ proc[p].op = "mount"

Mounted == {t \in Targets : table[t] # <<>>}

TypeOK ==
  /\ library \subseteq Archives
  /\ table \in [Targets -> Seq(Archives)]
  /\ dirs \subseteq Dirs
  /\ files \subseteq dirs
  /\ Mounted \subseteq dirs
  /\ (dirs \cap Targets # {}) => Platform \in dirs
  /\ proc \in [Runners -> Call \cup Rest]
  /\ used \subseteq Orphans
  /\ \A o \in Orphans : InCall(o) => o \in used /\ proc[o].pc = "command"
  /\ changes \in 0 .. MaxChanges
  /\ puts \in 0 .. MaxFiles

Init ==
  /\ library \in SUBSET Archives
  /\ table = [t \in Targets |-> <<>>]
  /\ dirs = {}
  /\ files = {}
  /\ proc = [p \in Runners |-> [pc |-> "idle", said |-> "other"]]
  /\ used = {}
  /\ changes = 0
  /\ puts = 0

(***************************************************************************)
(* The user and other programs.                                            *)
(***************************************************************************)

ChangeLibrary(a) ==
  /\ changes < MaxChanges
  /\ library' = IF a \in library THEN library \ {a} ELSE library \cup {a}
  /\ changes' = changes + 1
  /\ UNCHANGED <<table, dirs, files, proc, used, puts>>

\* A file can be put into a directory that no read-only mount covers.
PutFile(d) ==
  /\ puts < MaxFiles
  /\ d \in dirs \ (files \cup Mounted)
  /\ files' = files \cup {d}
  /\ puts' = puts + 1
  /\ proc' = [p \in Runners |->
                IF Starting(p) /\ proc[p].path = d
                THEN [proc[p] EXCEPT !.late = TRUE] ELSE proc[p]]
  /\ UNCHANGED <<library, table, dirs, used, changes>>

(***************************************************************************)
(* What a call sees.                                                       *)
(***************************************************************************)

\* directory_is_empty: read_dir sees what is mounted on top.
LooksEmpty(d) ==
  IF d \in Mounted
  THEN Last(table[d]) \in EmptyArchives
  ELSE d \notin files /\ (d = Platform => dirs \subseteq {Platform})

\* Mutant: the fingerprint takes the place of the base name.
PlanByFingerprint(a) == <<a, Untagged>>

\* plan_mounts: archives with the same base name are told apart by a
\* fingerprint, a lone one is not.
Plan(a) ==
  <<Base[a],
    IF \E b \in library \ {a} : Base[b] = Base[a] THEN a ELSE Untagged>>

Return(p, said) == proc' = [proc EXCEPT ![p] = [pc |-> "idle", said |-> said]]

Goto(p, pc) == proc' = [proc EXCEPT ![p].pc = pc]

\* What happens to p's target while the others are in their calls: p goes on
\* with next, and the others' directory may have been removed.
Others(p, next, target, removed) ==
  proc' = [q \in Runners |->
             IF q = p THEN next
             ELSE IF InCall(q) /\ proc[q].path = target
             THEN [proc[q] EXCEPT !.late = @ \/ Starting(q),
                                  !.kept = @ /\ ~removed]
             ELSE proc[q]]

(***************************************************************************)
(* The calls.                                                              *)
(***************************************************************************)

\* The scan and plan_mounts at the start of a call; a batch keeps its plans
\* until it comes to this archive.
Begin(p, op, a) ==
  /\ ~InCall(p)
  /\ a \in library
  /\ proc' = [proc EXCEPT ![p] = [pc |-> "planned", op |-> op, a |-> a,
                                  path |-> Plan(a), dir |-> Platform,
                                  kept |-> FALSE, under |-> <<>>,
                                  tries |-> 0, late |-> FALSE]]
  /\ UNCHANGED <<library, table, dirs, files, used, changes, puts>>

\* Mutant: the call trusts its plan and does not look at the mount table.
SkipMountTable(p) ==
  /\ proc[p].pc = "planned"
  /\ proc[p].op = "mount"
  /\ Goto(p, "prepare")
  /\ UNCHANGED <<library, table, dirs, files, used, changes, puts>>

\* mount_one_plan_outcome and remount_one_plan read the mount table once: an
\* active target is AlreadyMounted, and an error for a remount.
ReadMountTable(p) ==
  /\ proc[p].pc = "planned"
  /\ proc[p].op = "mount"
  /\ IF proc[p].path \in Mounted
     THEN \E said \in {"mounted", "other"} : Return(p, said)
     ELSE Goto(p, "prepare")
  /\ UNCHANGED <<library, table, dirs, files, used, changes, puts>>

\* mount_unmounted_plan: validate_archive_for_mount and
\* refuse_unsafe_existing_mount_target, then create_dir_all and the identity.
Prepare(p) ==
  /\ proc[p].pc = "prepare"
  /\ IF proc[p].a \notin library
        \/ (proc[p].path \in dirs /\ ~LooksEmpty(proc[p].path))
     THEN Return(p, "other") /\ UNCHANGED dirs
     ELSE /\ dirs' = dirs \cup {proc[p].path, Platform}
          /\ proc' = [proc EXCEPT ![p].pc = "revalidate", ![p].kept = TRUE,
                                  ![p].under = table[proc[p].path]]
  /\ UNCHANGED <<library, table, files, used, changes, puts>>

\* Mutant: the target is not looked at again.
TrustTarget(p) ==
  /\ proc[p].pc = "revalidate"
  /\ proc' = [proc EXCEPT ![p].pc = "command", ![p].kept = FALSE,
                          ![p].under = <<>>]
  /\ UNCHANGED <<library, table, dirs, files, used, changes, puts>>

\* The second half of mount_unmounted_plan's checks: the archive again, the
\* target again, and its identity.
Revalidate(p) ==
  /\ proc[p].pc = "revalidate"
  /\ IF /\ proc[p].a \in library
        /\ proc[p].kept /\ proc[p].under = table[proc[p].path]
        /\ LooksEmpty(proc[p].path)
     THEN proc' = [proc EXCEPT ![p].pc = "command", ![p].kept = FALSE,
                               ![p].under = <<>>]
     ELSE Return(p, "other")
  /\ UNCHANGED <<library, table, dirs, files, used, changes, puts>>

\* run_command: the exit code sends the call on to its check, or ends it.  The
\* program of a killed caller reports to nobody.
Reported(p) ==
  IF p \in Orphans
  THEN {[pc |-> "idle", said |-> "other"]}
  ELSE {[proc[p] EXCEPT !.pc = "verify", !.tries = 0, !.late = FALSE],
        [pc |-> "idle", said |-> "other"]}

\* backend.mount: the program covers the target if it is there and the archive
\* can be read; it may fail or be killed before or after that, and its exit
\* code may not tell.
MountCommand(p) ==
  /\ proc[p].pc = "command"
  /\ proc[p].op = "mount"
  /\ \/ /\ proc[p].path \in dirs
        /\ proc[p].a \in library
        /\ table' = [table EXCEPT ![proc[p].path] = Append(@, proc[p].a)]
     \/ UNCHANGED table
  /\ \E next \in Reported(p) : Others(p, next, proc[p].path, FALSE)
  /\ UNCHANGED <<library, dirs, files, used, changes, puts>>

\* Mutant: success is what the mount command reported.
TrustMountCommand(p) ==
  /\ proc[p].pc = "verify"
  /\ proc[p].op = "mount"
  /\ Return(p, "mounted")
  /\ UNCHANGED <<library, table, dirs, files, used, changes, puts>>

\* backend.verify_mounted reads the mount table.
VerifyMounted(p) ==
  /\ proc[p].pc = "verify"
  /\ proc[p].op = "mount"
  /\ Return(p, IF proc[p].path \in Mounted THEN "mounted" ELSE "other")
  /\ UNCHANGED <<library, table, dirs, files, used, changes, puts>>

\* unmount_one_plan and lazy_unmount_one_archive_path read the mount table and
\* refuse a target that is not in it.
ReadTableForUnmount(p) ==
  /\ proc[p].pc = "planned"
  /\ proc[p].op = "unmount"
  /\ IF proc[p].path \in Mounted
     THEN Goto(p, "command") ELSE Return(p, "other")
  /\ UNCHANGED <<library, table, dirs, files, used, changes, puts>>

\* unmount_path tries the next of its programs when one fails, up to three.
TryNext(p) ==
  {[proc[p] EXCEPT !.tries = n] :
     n \in {i \in 1 .. 2 : p \notin Orphans /\ i = proc[p].tries + 1}}

\* One program of unmount_path or lazy_unmount_path: it may take away the top
\* mount and report anything.
UnmountCommand(p) ==
  /\ proc[p].pc = "command"
  /\ proc[p].op = "unmount"
  /\ \/ /\ proc[p].path \in Mounted
        /\ table' = [table EXCEPT ![proc[p].path] = Front(@)]
     \/ UNCHANGED table
  /\ \E next \in Reported(p) \cup TryNext(p) :
       Others(p, next, proc[p].path, FALSE)
  /\ UNCHANGED <<library, dirs, files, used, changes, puts>>

\* verify_unmounted, then the clean-up the caller asked for, or none.
VerifyUnmounted(p) ==
  /\ proc[p].pc = "verify"
  /\ proc[p].op = "unmount"
  /\ \/ Return(p, "other")
     \/ /\ proc[p].path \notin Mounted
        /\ proc' = [proc EXCEPT ![p].pc = "planned", ![p].op = "clean"]
  /\ UNCHANGED <<library, table, dirs, files, used, changes, puts>>

\* cleanup_selected_mount_tree reads the mount table once and walks upwards from
\* the mount path; of what it read only the mount path matters, for no archive
\* is mounted on the directory above.
BeginClean(p) ==
  /\ proc[p].pc = "planned"
  /\ proc[p].op = "clean"
  /\ IF proc[p].path \in dirs \ Mounted
     THEN proc' = [proc EXCEPT ![p].pc = "check", ![p].dir = proc[p].path]
     ELSE Return(p, "other")
  /\ UNCHANGED <<library, table, dirs, files, used, changes, puts>>

\* empty_unmounted_dir_is_removable, which does not read the mount table again.
CheckDir(p) ==
  /\ proc[p].pc = "check"
  /\ IF proc[p].dir \in dirs /\ LooksEmpty(proc[p].dir)
     THEN Goto(p, "remove")
     ELSE Return(p, "other")
  /\ UNCHANGED <<library, table, dirs, files, used, changes, puts>>

\* The directory is gone: cleanup_selected_mount_tree goes up until the mount
\* root stops it, cleanup_selected_mount_dir is done.
WalkOn(p) ==
  \E next \in {[pc |-> "idle", said |-> "other"],
              [proc[p] EXCEPT !.pc = "check", !.dir = Platform]} :
    /\ proc[p].dir = Platform => next.pc = "idle"
    /\ Others(p, next, proc[p].dir, TRUE)

\* A directory with everything in it.
Tree(d) == IF d = Platform THEN Dirs ELSE {d}

\* Mutant: remove_dir_all, which only a mount point stops.
RemovableAll(d) == d \in dirs /\ Tree(d) \cap Mounted = {}

\* fs::remove_dir: the kernel refuses a directory that is a mount point or that
\* is not empty by now.
Removable(d) ==
  /\ d \in dirs \ (Mounted \cup files)
  /\ Tree(d) \cap dirs = {d}

\* Removing a directory loses what is in it; a refusal ends the walk with an
\* error.
RemoveDir(p) ==
  /\ proc[p].pc = "remove"
  /\ IF Removable(proc[p].dir)
     THEN /\ dirs' = dirs \ Tree(proc[p].dir)
          /\ files' = files \ Tree(proc[p].dir)
          /\ WalkOn(p)
     ELSE Return(p, "other") /\ UNCHANGED <<dirs, files>>
  /\ UNCHANGED <<library, table, used, changes, puts>>

\* The process is killed in the middle of a call.  The program it waits for,
\* spawned by run_command_os_with_timeout as an ordinary child, is not.
Killed(p) ==
  /\ InCall(p)
  /\ IF proc[p].pc = "command"
     THEN \E o \in Orphans \ used :
            /\ proc' = [proc EXCEPT ![p] = [pc |-> "idle", said |-> "other"],
                                    ![o] = [proc[p] EXCEPT !.tries = 0]]
            /\ used' = used \cup {o}
     ELSE Return(p, "other") /\ UNCHANGED used
  /\ UNCHANGED <<library, table, dirs, files, changes, puts>>

Step(p) ==
  \/ ReadMountTable(p)
  \/ Prepare(p)
  \/ Revalidate(p)
  \/ MountCommand(p)
  \/ VerifyMounted(p)
  \/ ReadTableForUnmount(p)
  \/ UnmountCommand(p)
  \/ VerifyUnmounted(p)
  \/ BeginClean(p)
  \/ CheckDir(p)
  \/ RemoveDir(p)

Next ==
  \/ \E a \in Archives : ChangeLibrary(a)
  \/ \E d \in Dirs : PutFile(d)
  \/ \E p \in Procs : Killed(p) \/ Step(p)
  \/ \E o \in Orphans : MountCommand(o) \/ UnmountCommand(o)
  \/ \E p \in Procs, op \in Ops, a \in Archives : Begin(p, op, a)

Spec == Init /\ [][Next]_vars

(***************************************************************************)
(* Properties.                                                             *)
(***************************************************************************)

\* Mounts do not pile up: however many calls are made and retried, a mount path
\* never carries more mounts than there are processes and programs that outlived
\* a killed caller, because a program covers a path at most once and is started
\* only by a call that found it free.  Each kill of a running program can add one.
NoPileUp == \A t \in Targets : Len(table[t]) <= Cardinality(Procs \cup used)

\* Nothing the user put below the mount root is removed, by any interleaving of
\* clean-ups, mounts and files put into a directory that was seen empty: what
\* is in a directory goes with it, and none that holds a file goes.
UserFilesKept == [][files \subseteq files']_vars

\* A mount hides no file of the user that was there when its call last looked:
\* only one put, or uncovered by another's unmount, between
\* mount_unmounted_plan's second check and the mount program's work can
\* disappear under the mount, also when the program has outlived its call.
HidesOnlyLateFiles ==
  [][\A t \in files \cap Targets :
       t \notin Mounted /\ table'[t] # <<>> =>
         \E p \in Runners :
           /\ proc[p].pc = "command" /\ proc'[p].pc # "command"
           /\ proc[p].path = t /\ proc[p].late]_vars

\* A call has just told its caller that archive a is mounted on its path.
SaysMounted(p) ==
  /\ InCall(p)
  /\ proc'[p].pc = "idle"
  /\ proc'[p].said = "mounted"

\* The mount on the path of p's call shows p's archive.
Serves(p) ==
  /\ proc[p].path \in Mounted
  /\ Last(table[proc[p].path]) = proc[p].a

\* As long as no archive is added or removed, what a call reports as mounted is
\* that archive, and a mount is taken away only by an unmount of its archive, a
\* call or a program that outlived one: although the mount table is read before
\* the work is done and no lock is held.
ActsOnItsArchive ==
  [][changes = 0 =>
       /\ \A p \in Procs : SaysMounted(p) => Serves(p)
       /\ \A t \in Targets :
            Len(table'[t]) < Len(table[t]) =>
              \E p \in Runners : /\ proc[p].pc = "command"
                                 /\ proc[p].op = "unmount"
                                 /\ proc[p].path = t
                                 /\ proc[p].a = Last(table[t])]_vars

\* mount_one_archive_path_outcome mounts one exact archive and reports whether
\* it was already active: what a call reports as mounted is that archive.
MountReportsTrue == [][\A p \in Procs : SaysMounted(p) => Serves(p)]_vars
=============================================================================
