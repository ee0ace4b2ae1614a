------------------------------ MODULE Watcher ------------------------------
(***************************************************************************)
(* The index watcher (`emuwiz-cli watch`): watch_archive_index in          *)
(* crates/archivefs-core/src/lib.rs, the debouncer it drives, the scan and *)
(* the publication of the JSON index, next to a second process that        *)
(* rebuilds the same index (`index-build`, `mount-one`, `unmount-one`,     *)
(* Doctor's rebuild_index) and to the user who changes the library.        *)
(*                                                                         *)
(* The watcher is one thread: it waits on the channel of file system       *)
(* events, and only when the channel stays silent until the debounce is    *)
(* over does it scan the library and publish what it found.  While it      *)
(* scans, events pile up in the channel.                                   *)
(***************************************************************************)
EXTENDS Naturals, Sequences

CONSTANTS
  Folders,      \* directories that can stand in the watched source folder
  Archives,     \* the archives a directory can hold
  Debounce,     \* WATCH_DEBOUNCE_DURATION, in ticks
  MaxChanges,   \* bound: changes of the library
  MaxStarts,    \* bound: starts of the watcher
  MaxQueue,     \* bound: events waiting in the channel
  None          \* WatchDebouncer::last_change is None

ASSUME WatcherAssumption ==
  /\ Debounce \in Nat \ {0}
  /\ MaxChanges \in Nat
  /\ MaxStarts \in Nat
  /\ MaxQueue \in Nat \ {0}
  /\ None \notin Nat

Builders == {"watch", "command"}

VARIABLES
  dirs,       \* the directories that exist
  lib,        \* lib[f]: the archives in directory f
  index,      \* the entries of the published index
  queue,      \* events the watcher has not received
  last,       \* ticks since the last accepted event, or None
  scan,       \* scan[b]: the rebuild builder b is in
  watching,   \* the watch command runs
  blind,      \* history: the last change was announced by no archive event
  overtaken,  \* history: a scan older than the watcher's was published over it
  changes,    \* changes of the library so far
  starts      \* starts of the watcher so far

vars == <<dirs, lib, index, queue, last, scan, watching, blind, overtaken,
          changes, starts>>

library == <<dirs, lib, changes>>

history == <<blind, overtaken>>

Events == {"archive", "other", "error"}

Idle == [on |-> FALSE, todo |-> {}, found |-> {}, old |-> FALSE]

Contents == {c \in dirs \X Archives : c[2] \in lib[c[1]]}

TypeOK ==
  /\ dirs \subseteq Folders
  /\ lib \in [Folders -> SUBSET Archives]
  /\ index \subseteq Folders \X Archives
  /\ queue \in Seq(Events) /\ Len(queue) <= MaxQueue
  /\ last \in 0 .. Debounce \cup {None}
  /\ scan \in [Builders -> [on : BOOLEAN, old : BOOLEAN, todo : SUBSET Folders,
                            found : SUBSET (Folders \X Archives)]]
  /\ watching \in BOOLEAN /\ blind \in BOOLEAN /\ overtaken \in BOOLEAN
  /\ changes \in 0 .. MaxChanges
  /\ starts \in 0 .. MaxStarts

Init ==
  /\ dirs \in SUBSET Folders
  /\ lib = [f \in Folders |-> {}]
  /\ index = {}
  /\ queue = <<>>
  /\ last = None
  /\ scan = [b \in Builders |-> Idle]
  /\ watching = FALSE
  /\ blind = FALSE
  /\ overtaken = FALSE
  /\ changes = 0
  /\ starts = 0

(***************************************************************************)
(* The library, and what notify tells the watcher about it.                *)
(***************************************************************************)

\* notify's callback sends the event into the channel the watcher reads;
\* nobody listens while the watch command does not run.
Notify(e) ==
  IF watching THEN /\ Len(queue) < MaxQueue
                   /\ queue' = Append(queue, e)
              ELSE UNCHANGED queue

\* An archive is added to a directory or removed from it: an event whose path
\* watch_path_is_supported_archive accepts.
ChangeArchive(f, a) ==
  /\ changes < MaxChanges
  /\ f \in dirs
  /\ lib' = [lib EXCEPT ![f] = IF a \in @ THEN @ \ {a} ELSE @ \cup {a}]
  /\ Notify("archive")
  /\ blind' = ~watching
  /\ changes' = changes + 1
  /\ UNCHANGED <<dirs, index, last, scan, watching, overtaken, starts>>

\* A directory is renamed with the archives in it.  The event names only
\* directories, which watch_event_archive_paths filters out.
MoveFolder(f, g) ==
  /\ changes < MaxChanges
  /\ f \in dirs
  /\ g \notin dirs
  /\ dirs' = (dirs \ {f}) \cup {g}
  /\ lib' = [lib EXCEPT ![g] = lib[f], ![f] = {}]
  /\ Notify("other")
  /\ blind' = TRUE
  /\ changes' = changes + 1
  /\ UNCHANGED <<index, last, scan, watching, overtaken, starts>>

\* An unfinished download, an unrelated file, or an error notify reports.
OtherEvent(e) ==
  /\ watching
  /\ Notify(e)
  /\ UNCHANGED <<library, index, last, scan, watching, history, starts>>

(***************************************************************************)
(* Scanning and publishing, for the watcher and for any other command.     *)
(***************************************************************************)

\* ArchiveScanner::scan_source lists the source folder: these directories are
\* visited one after the other.
Listed == [on |-> TRUE, todo |-> dirs, found |-> {}, old |-> FALSE]

\* What the watcher still owes the index: an archive event in the channel, a
\* running debounce or a scan.
Pending ==
  \/ \E i \in 1 .. Len(queue) : queue[i] = "archive"
  \/ last # None
  \/ scan["watch"].on

\* A rebuild ends with an error, which ends a command.  In the watcher `?` ends
\* watch_archive_index, and with it the channel, the debouncer and what they
\* knew.
Fail(b) ==
  /\ scan' = [scan EXCEPT ![b] = Idle]
  /\ IF b = "watch"
     THEN /\ watching' = FALSE
          /\ queue' = <<>>
          /\ last' = None
          /\ blind' = (blind \/ Pending)
     ELSE UNCHANGED <<watching, queue, last, blind>>
  /\ UNCHANGED <<library, index, overtaken, starts>>

\* One turn of the scan's loop: a directory that was listed and is gone now
\* fails the whole scan.
ReadFolder(b, f) ==
  /\ scan[b].on
  /\ f \in scan[b].todo
  /\ IF f \notin dirs
     THEN Fail(b)
     ELSE /\ scan' = [scan EXCEPT ![b].todo = @ \ {f},
                                  ![b].found = @ \cup ({f} \X lib[f])]
          /\ UNCHANGED <<library, index, queue, last, watching, history, starts>>

\* Mutant: the events that came in during the scan are thrown away, "the scan
\* has seen them".
PublishAndDrain(b) ==
  /\ scan[b].on
  /\ scan[b].todo = {}
  /\ index' = scan[b].found
  /\ scan' = [c \in Builders |->
                IF c = b THEN Idle
                ELSE [scan[c] EXCEPT !.old = @ \/ (scan[c].on /\ b = "watch")]]
  /\ overtaken' = scan[b].old
  /\ queue' = IF b = "watch" THEN <<>> ELSE queue
  /\ UNCHANGED <<library, last, watching, blind, starts>>

\* write_archive_index: the complete index replaces the published one in one
\* rename.
Publish(b) ==
  /\ scan[b].on
  /\ scan[b].todo = {}
  /\ index' = scan[b].found
  /\ scan' = [c \in Builders |->
                IF c = b THEN Idle
                ELSE [scan[c] EXCEPT !.old = @ \/ (scan[c].on /\ b = "watch")]]
  /\ overtaken' = scan[b].old
  /\ UNCHANGED <<library, queue, last, watching, blind, starts>>

\* The temporary file cannot be written or renamed: the published index stays.
WriteFails(b) ==
  /\ scan[b].on
  /\ scan[b].todo = {}
  /\ Fail(b)

\* index-build and the commands that refresh the index after a mount.
CommandRebuild ==
  /\ ~scan["command"].on
  /\ scan' = [scan EXCEPT !["command"] = Listed]
  /\ UNCHANGED <<library, index, queue, last, watching, history, starts>>

(***************************************************************************)
(* The watcher's loop.                                                     *)
(***************************************************************************)

\* watch_archive_index up to its loop: it registers the watches and builds no
\* index.
Start ==
  /\ ~watching
  /\ starts < MaxStarts
  /\ watching' = TRUE
  /\ starts' = starts + 1
  /\ UNCHANGED <<library, index, queue, last, scan, history>>

\* The command is interrupted, in its wait or in its scan.
Interrupt ==
  /\ watching
  /\ Fail("watch")

\* receiver.recv_timeout returns an event and handle_watch_event takes it: an
\* archive event restarts the debounce, an error ends the command.
Receive ==
  /\ watching
  /\ ~scan["watch"].on
  /\ queue # <<>>
  /\ IF Head(queue) = "error"
     THEN Fail("watch")
     ELSE /\ queue' = Tail(queue)
          /\ last' = IF Head(queue) = "archive" THEN 0 ELSE last
          /\ UNCHANGED <<library, index, scan, watching, history, starts>>

\* Mutant: the clock runs past the debounce and the timeout is never zero.
TickForEver ==
  /\ watching
  /\ ~scan["watch"].on
  /\ last \in 0 .. Debounce
  /\ last' = last + 1
  /\ UNCHANGED <<library, index, queue, scan, watching, history, starts>>

\* Time passes for the debouncer, until the receive's timeout is over.
Tick ==
  /\ watching
  /\ ~scan["watch"].on
  /\ last \in 0 .. Debounce - 1
  /\ last' = last + 1
  /\ UNCHANGED <<library, index, queue, scan, watching, history, starts>>

\* Mutant: should_fire compares with > although the loop wakes up when the
\* debounce is just over.
FireAfter ==
  /\ watching
  /\ ~scan["watch"].on
  /\ queue = <<>>
  /\ last \in Nat /\ last > Debounce
  /\ last' = None
  /\ scan' = [scan EXCEPT !["watch"] = Listed]
  /\ UNCHANGED <<library, index, queue, watching, history, starts>>

\* The receive timed out, with nothing in the channel, and should_fire holds:
\* take_summary empties the debouncer and the rebuild begins.
Fire ==
  /\ watching
  /\ ~scan["watch"].on
  /\ queue = <<>>
  /\ last = Debounce
  /\ last' = None
  /\ scan' = [scan EXCEPT !["watch"] = Listed]
  /\ UNCHANGED <<library, index, queue, watching, history, starts>>

Environment ==
  \/ \E f \in Folders, a \in Archives : ChangeArchive(f, a)
  \/ \E f, g \in Folders : MoveFolder(f, g)
  \/ \E e \in {"other", "error"} : OtherEvent(e)
  \/ CommandRebuild
  \/ Interrupt

Scan(b) == Publish(b) \/ \E f \in Folders : ReadFolder(b, f)

Next ==
  \/ Environment
  \/ Start
  \/ Receive
  \/ Tick
  \/ Fire
  \/ \E b \in Builders : Scan(b) \/ WriteFails(b)

\* The watcher is scheduled: it receives what is in the channel, its clock
\* advances and its scan goes on.  Fire is strongly fair: a receive with a
\* timeout that is over and an empty channel returns Timeout, and the loop
\* comes back to that receive after every event.
Fairness ==
  /\ WF_vars(Receive)
  /\ WF_vars(Tick)
  /\ SF_vars(Fire)
  /\ WF_vars(Scan("watch"))

Spec == Init /\ [][Next]_vars /\ Fairness

(***************************************************************************)
(* Properties.                                                             *)
(***************************************************************************)

\* The watcher answers for the index: the last change was announced to it by an
\* archive event, which it did not lose by ending, and no scan older than its
\* own replaced what it published.
Trusted == ~blind /\ ~overtaken

\* An accepted change is never forgotten: whenever the watcher has
\* nothing left to do - no archive event in the channel, the debouncer empty,
\* no scan - the published index is the library, whatever was changed while it
\* scanned and whatever another command published meanwhile.
NoChangeForgotten ==
  Trusted /\ ~Pending => index = Contents

\* The index becomes fresh and stays so once the library is left alone,
\* provided the channel runs empty again and again: a stream of ignored events
\* that never lets it run empty would hold the rebuild back for ever, because
\* the loop fires only on a receive that timed out.
EventuallyFresh ==
  ([]<>(queue = <<>>)) => <>[](Trusted => index = Contents)
=============================================================================
