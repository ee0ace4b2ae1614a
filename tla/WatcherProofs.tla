--------------------------- MODULE WatcherProofs ----------------------------
(***************************************************************************)
(* The watcher forgets no change, for every library, debounce and length   *)
(* of the channel.  A change is either announced, and then the watcher has *)
(* an archive event, a running debounce or a scan to go, or counted as     *)
(* blind; so a scan during which nothing was announced has read the        *)
(* library as it is, and so has a command's, unless the watcher published  *)
(* meanwhile.                                                              *)
(***************************************************************************)
EXTENDS Watcher, TLAPS

\* An archive event waits in the channel.
Announced == \E i \in 1 .. Len(queue) : queue[i] = "archive"

\* Builder b has read the directories it has done as they are now.
Coherent(b) == scan[b].found = {c \in Contents : c[1] \notin scan[b].todo}

\* A watcher that does not run has no channel, no debounce and no scan; a scan
\* begins with the debouncer empty and is never older than the watcher's own.
LoopInv ==
  /\ ~watching => queue = <<>> /\ last = None /\ ~scan["watch"].on
  /\ scan["watch"].on => last = None
  /\ ~scan["watch"].old

\* The watcher's scan is good unless an announced change has come in since.
WatchInv == scan["watch"].on /\ ~blind /\ ~Announced => Coherent("watch")

\* Another command's scan is good if the watcher owes nothing and published nothing
\* since the command began.
CommandInv ==
  scan["command"].on /\ ~scan["command"].old /\ ~blind /\ ~Pending => Coherent("command")

WatcherInv == TypeOK /\ LoopInv /\ WatchInv /\ CommandInv /\ NoChangeForgotten

-----------------------------------------------------------------------------
(* The channel *)

LEMMA PendingFacts == Pending <=> Announced \/ last # None \/ scan["watch"].on
  BY DEF Pending, Announced

\* An event that is sent is the last of the channel, if anybody listens.
LEMMA NotifyFacts ==
  ASSUME TypeOK, LoopInv, NEW e \in Events, Notify(e)
  PROVE  /\ queue' \in Seq(Events) /\ Len(queue') <= MaxQueue
         /\ Announced => Announced'
         /\ watching /\ e = "archive" => Announced'
         /\ e # "archive" /\ ~Announced => ~Announced'
         /\ ~watching => queue' = queue
  <1>1. CASE watching
    <2>1. queue' = Append(queue, e) /\ Len(queue) < MaxQueue
      BY <1>1 DEF Notify
    <2>2. queue \in Seq(Events) /\ Len(queue) \in Nat
      BY DEF TypeOK
    <2>3. /\ queue' \in Seq(Events) /\ Len(queue') = Len(queue) + 1
          /\ \A i \in 1 .. Len(queue) : queue'[i] = queue[i]
          /\ queue'[Len(queue) + 1] = e
      BY <2>1, <2>2
    <2>4. Len(queue') <= MaxQueue
      BY <2>1, <2>2, <2>3, WatcherAssumption
    <2>5. Announced => Announced'
      BY <2>2, <2>3 DEF Announced
    <2>6. e = "archive" => Announced'
      BY <2>2, <2>3 DEF Announced
    <2>7. e # "archive" /\ ~Announced => ~Announced'
      BY <2>2, <2>3 DEF Announced
    <2> QED
      BY <1>1, <2>3, <2>4, <2>5, <2>6, <2>7
  <1>2. CASE ~watching
    BY <1>2 DEF Notify, TypeOK, Announced
  <1> QED
    BY <1>1, <1>2

\* Taking the first event leaves the others.
LEMMA ReceiveFacts ==
  ASSUME TypeOK, queue # <<>>, queue' = Tail(queue)
  PROVE  /\ Head(queue) \in Events
         /\ queue' \in Seq(Events) /\ Len(queue') <= MaxQueue
         /\ Announced' => Announced
         /\ Announced /\ ~Announced' => Head(queue) = "archive"
  <1>1. queue \in Seq(Events) /\ Len(queue) \in Nat \ {0} /\ Len(queue) <= MaxQueue
    BY DEF TypeOK
  <1>2. /\ Head(queue) = queue[1] /\ queue[1] \in Events
        /\ queue' \in Seq(Events) /\ Len(queue') = Len(queue) - 1
        /\ \A i \in 1 .. Len(queue) - 1 : queue'[i] = queue[i + 1]
    BY <1>1
  <1>3. Announced' => Announced
    <2> SUFFICES ASSUME NEW i \in 1 .. Len(queue'), queue'[i] = "archive"
                 PROVE  Announced
      BY DEF Announced
    <2>1. i + 1 \in 1 .. Len(queue) /\ queue[i + 1] = "archive"
      BY <1>1, <1>2
    <2> QED
      BY <2>1 DEF Announced
  <1>4. Announced /\ ~Announced' => Head(queue) = "archive"
    <2> SUFFICES ASSUME NEW i \in 1 .. Len(queue), queue[i] = "archive", i # 1
                 PROVE  Announced'
      BY <1>2 DEF Announced
    <2>1. i - 1 \in 1 .. Len(queue') /\ queue'[i - 1] = "archive"
      BY <1>1, <1>2
    <2> QED
      BY <2>1 DEF Announced
  <1> QED
    BY <1>1, <1>2, <1>3, <1>4, WatcherAssumption

-----------------------------------------------------------------------------
(* The steps *)

Scans == [on : BOOLEAN, old : BOOLEAN, todo : SUBSET Folders,
          found : SUBSET (Folders \X Archives)]

LEMMA ScanTypes ==
  /\ Idle \in Scans
  /\ TypeOK => Listed \in Scans
  BY DEF Idle, Listed, Scans, TypeOK

\* A change of the library is announced or counts as blind.
LEMMA ChangeKeeps ==
  ASSUME WatcherInv, NEW e \in {"archive", "other"}, Notify(e),
         dirs' \subseteq Folders, lib' \in [Folders -> SUBSET Archives],
         changes < MaxChanges, changes' = changes + 1,
         blind' \in BOOLEAN, blind' \/ (watching /\ e = "archive"),
         UNCHANGED <<index, last, scan, watching, overtaken, starts>>
  PROVE  WatcherInv'
  <1> USE DEF WatcherInv
  <1>1. /\ queue' \in Seq(Events) /\ Len(queue') <= MaxQueue
        /\ watching /\ e = "archive" => Announced'
        /\ ~watching => queue' = queue
    BY NotifyFacts DEF Events
  <1>2. TypeOK'
    BY <1>1, WatcherAssumption DEF TypeOK
  <1>3. LoopInv'
    BY <1>1 DEF LoopInv
  <1>4. blind' \/ Announced'
    BY <1>1
  <1>5. Announced' => Pending'
    BY DEF Announced, Pending
  <1> QED
    BY <1>2, <1>3, <1>4, <1>5 DEF WatchInv, CommandInv, NoChangeForgotten, Trusted

LEMMA EnvironmentKeeps ==
  ASSUME WatcherInv
  PROVE  /\ \A f \in Folders, a \in Archives : ChangeArchive(f, a) => WatcherInv'
         /\ \A f, g \in Folders : MoveFolder(f, g) => WatcherInv'
  <1> USE DEF WatcherInv
  <1>1. ASSUME NEW f \in Folders, NEW a \in Archives, ChangeArchive(f, a)
        PROVE  WatcherInv'
    <2>1. lib' \in [Folders -> SUBSET Archives]
      BY <1>1 DEF ChangeArchive, TypeOK
    <2>2. blind' = ~watching
      BY <1>1 DEF ChangeArchive
    <2>3. blind' \in BOOLEAN /\ (blind' \/ watching)
      BY <2>2
    <2> QED
      BY <1>1, <2>1, <2>3, ChangeKeeps DEF ChangeArchive, TypeOK
  <1>2. ASSUME NEW f \in Folders, NEW g \in Folders, MoveFolder(f, g)
        PROVE  WatcherInv'
    <2>1. lib' \in [Folders -> SUBSET Archives] /\ dirs' \subseteq Folders
      BY <1>2 DEF MoveFolder, TypeOK
    <2>2. blind'
      BY <1>2 DEF MoveFolder
    <2> QED
      BY <1>2, <2>1, <2>2, ChangeKeeps DEF MoveFolder
  <1> QED
    BY <1>1, <1>2

LEMMA OtherEventKeeps ==
  ASSUME WatcherInv, NEW e \in {"other", "error"}, OtherEvent(e)
  PROVE  WatcherInv'
  <1> USE DEF WatcherInv
  <1>1. /\ watching /\ Notify(e)
        /\ UNCHANGED <<library, index, last, scan, watching, history, starts>>
    BY DEF OtherEvent
  <1>2. /\ queue' \in Seq(Events) /\ Len(queue') <= MaxQueue
        /\ Announced' <=> Announced
    BY <1>1, NotifyFacts DEF Events
  <1>3. TypeOK'
    BY <1>1, <1>2 DEF TypeOK, library, history
  <1>4. LoopInv'
    BY <1>1 DEF LoopInv
  <1>5. Pending' <=> Pending
    BY <1>1, <1>2, PendingFacts DEF Pending, Announced
  <1>6. Contents' = Contents
    BY <1>1 DEF library, Contents
  <1>7. WatchInv' /\ CommandInv'
    BY <1>1, <1>2, <1>5, <1>6 DEF WatchInv, CommandInv, Coherent, history
  <1>8. NoChangeForgotten'
    BY <1>1, <1>5, <1>6 DEF NoChangeForgotten, Trusted, history
  <1> QED
    BY <1>3, <1>4, <1>7, <1>8

\* A builder's rebuild ends with an error; a watcher that ends that way is blind from
\* then on if it owed the index anything.
LEMMA FailKeeps ==
  ASSUME WatcherInv, NEW b \in Builders, b = "watch" => watching, Fail(b)
  PROVE  WatcherInv'
  <1> USE DEF WatcherInv
  <1>1. /\ scan' = [scan EXCEPT ![b] = Idle]
        /\ UNCHANGED <<library, index, overtaken, starts>>
    BY DEF Fail
  <1>2. scan' \in [Builders -> Scans] /\ scan'[b] = Idle
        /\ \A c \in Builders \ {b} : scan'[c] = scan[c]
    BY <1>1, ScanTypes DEF TypeOK, Scans
  <1>3. Contents' = Contents
    BY <1>1 DEF library, Contents
  <1>4. CASE b = "watch"
    <2>1. /\ watching' = FALSE /\ queue' = <<>> /\ last' = None
          /\ blind' = (blind \/ Pending)
      BY <1>4 DEF Fail
    <2>2. blind' \in BOOLEAN /\ (~blind' => ~blind /\ ~Pending)
      BY <2>1
    <2>3. TypeOK'
      <3>1. queue' \in Seq(Events) /\ Len(queue') <= MaxQueue
        BY <2>1, WatcherAssumption
      <3>2. last' \in 0 .. Debounce \cup {None} /\ watching' \in BOOLEAN
        BY <2>1
      <3> QED
        BY <1>1, <1>2, <2>2, <3>1, <3>2 DEF TypeOK, Scans, library
    <2>4. LoopInv' /\ WatchInv'
      BY <1>2, <1>4, <2>1 DEF LoopInv, WatchInv, Idle
    <2>5. CommandInv'
      BY <1>2, <1>3, <1>4, <2>2 DEF CommandInv, Coherent, Builders
    <2>6. NoChangeForgotten'
      BY <1>1, <1>3, <2>2 DEF NoChangeForgotten, Trusted
    <2> QED
      BY <2>3, <2>4, <2>5, <2>6
  <1>5. CASE b = "command"
    <2>1. UNCHANGED <<watching, queue, last, blind>>
      BY <1>5 DEF Fail
    <2>2. scan'["watch"] = scan["watch"] /\ ~scan'["command"].on
      BY <1>2, <1>5 DEF Builders, Idle
    <2>3. TypeOK'
      BY <1>1, <1>2, <2>1 DEF TypeOK, Scans, library
    <2>4. LoopInv' /\ CommandInv'
      BY <2>1, <2>2 DEF LoopInv, CommandInv
    <2>5. Announced' = Announced /\ Pending' = Pending
      BY <2>1, <2>2 DEF Announced, Pending
    <2>6. WatchInv'
      BY <1>3, <2>1, <2>2, <2>5 DEF WatchInv, Coherent
    <2>7. NoChangeForgotten'
      BY <1>1, <1>3, <2>1, <2>5 DEF NoChangeForgotten, Trusted
    <2> QED
      BY <2>3, <2>4, <2>6, <2>7
  <1> QED
    BY <1>4, <1>5 DEF Builders

\* One directory is read as it is, or its absence ends the scan.
LEMMA ReadKeeps ==
  ASSUME WatcherInv, NEW b \in Builders, NEW f \in Folders, ReadFolder(b, f)
  PROVE  WatcherInv'
  <1> USE DEF WatcherInv
  <1>0. b = "watch" => watching
    BY DEF ReadFolder, LoopInv
  <1>1. CASE f \notin dirs
    BY <1>0, <1>1, FailKeeps DEF ReadFolder
  <1>2. CASE f \in dirs
    <2> DEFINE s == [scan[b] EXCEPT !.todo = @ \ {f}, !.found = @ \cup ({f} \X lib[f])]
    <2>1. /\ scan[b].on /\ f \in scan[b].todo
          /\ scan' = [scan EXCEPT ![b] = s]
          /\ UNCHANGED <<library, index, queue, last, watching, history, starts>>
      BY <1>2 DEF ReadFolder
    <2>2. scan[b] \in Scans /\ lib[f] \subseteq Archives
      BY DEF TypeOK, Scans
    <2>3. /\ s \in Scans /\ s.on = scan[b].on /\ s.old = scan[b].old
          /\ s.todo = scan[b].todo \ {f} /\ s.found = scan[b].found \cup ({f} \X lib[f])
      BY <2>2 DEF Scans
    <2>4. /\ scan' \in [Builders -> Scans] /\ scan'[b] = s
          /\ \A c \in Builders \ {b} : scan'[c] = scan[c]
      BY <2>1, <2>3 DEF TypeOK, Scans
    <2>5. \A c \in Builders : scan'[c].on = scan[c].on /\ scan'[c].old = scan[c].old
      BY <2>3, <2>4
    <2>6. Contents' = Contents /\ Announced' = Announced /\ Pending' = Pending
      BY <2>1, <2>5 DEF library, Contents, Announced, Pending, Builders
    <2>7. Coherent(b) => Coherent(b)'
      <3>1. {f} \X lib[f] = {c \in Contents : c[1] = f}
        BY <1>2, <2>2 DEF Contents
      <3>2. scan[b].found = {c \in Contents : c[1] \notin scan[b].todo}
              => s.found = {c \in Contents : c[1] \notin s.todo}
        BY <2>1, <2>3, <3>1
      <3> QED
        BY <2>4, <2>6, <3>2 DEF Coherent
    <2>8. \A c \in Builders \ {b} : Coherent(c) => Coherent(c)'
      BY <2>4, <2>6 DEF Coherent
    <2>9. TypeOK'
      BY <2>1, <2>4 DEF TypeOK, Scans, library, history
    <2>10. LoopInv'
      BY <2>1, <2>5 DEF LoopInv, Builders
    <2>11. WatchInv' /\ CommandInv'
      BY <2>1, <2>5, <2>6, <2>7, <2>8 DEF WatchInv, CommandInv, Builders, history
    <2>12. NoChangeForgotten'
      BY <2>1, <2>6 DEF NoChangeForgotten, Trusted, history
    <2> QED
      BY <2>9, <2>10, <2>11, <2>12
  <1> QED
    BY <1>1, <1>2

\* The watcher publishes: the library as it is unless a change is announced; another
\* command's scan is the older one from now on.
LEMMA WatchPublishKeeps ==
  ASSUME WatcherInv, Publish("watch")
  PROVE  WatcherInv'
  <1> USE DEF WatcherInv
  <1> DEFINE s == [scan["command"] EXCEPT !.old = @ \/ scan["command"].on]
  <1>1. /\ scan["watch"].on /\ scan["watch"].todo = {}
        /\ index' = scan["watch"].found /\ overtaken' = scan["watch"].old
        /\ scan' = [c \in Builders |->
                      IF c = "watch" THEN Idle
                      ELSE [scan[c] EXCEPT !.old = @ \/ scan[c].on]]
        /\ UNCHANGED <<library, queue, last, watching, blind, starts>>
    BY DEF Publish
  <1>2. scan["command"] \in Scans /\ scan["watch"] \in Scans
    BY DEF TypeOK, Scans, Builders
  <1>3. s \in Scans /\ s.on = scan["command"].on /\ (s.on => s.old)
    BY <1>2 DEF Scans
  <1>4. scan'["watch"] = Idle /\ scan'["command"] = s
    BY <1>1 DEF Builders
  <1>5. scan' \in [Builders -> Scans]
    BY <1>1, <1>3, <1>4, ScanTypes DEF Builders
  <1>6. Contents' = Contents /\ Announced' = Announced
    BY <1>1 DEF library, Contents, Announced
  <1>7. TypeOK'
    BY <1>1, <1>2, <1>5 DEF TypeOK, Scans, library
  <1>8. LoopInv' /\ WatchInv'
    BY <1>1, <1>4 DEF LoopInv, WatchInv, Idle
  <1>9. CommandInv'
    BY <1>3, <1>4 DEF CommandInv
  <1>10. NoChangeForgotten'
    <2> SUFFICES ASSUME ~blind', ~Pending' PROVE index' = Contents'
      BY DEF NoChangeForgotten, Trusted
    <2>1. ~blind /\ ~Announced
      BY <1>1 DEF Pending, Announced
    <2>2. scan["watch"].found = {c \in Contents : c[1] \notin scan["watch"].todo}
      BY <1>1, <2>1 DEF WatchInv, Coherent
    <2> QED
      BY <1>1, <1>6, <2>2
  <1> QED
    BY <1>7, <1>8, <1>9, <1>10

\* Another command publishes: the library as it is, or a scan that was overtaken, or
\* one the watcher is going to replace.
LEMMA CommandPublishKeeps ==
  ASSUME WatcherInv, Publish("command")
  PROVE  WatcherInv'
  <1> USE DEF WatcherInv
  <1>1. /\ scan["command"].on /\ scan["command"].todo = {}
        /\ index' = scan["command"].found /\ overtaken' = scan["command"].old
        /\ scan' = [c \in Builders |->
                      IF c = "command" THEN Idle ELSE [scan[c] EXCEPT !.old = @]]
        /\ UNCHANGED <<library, queue, last, watching, blind, starts>>
    <2>1. \A c \in Builders : [scan[c] EXCEPT !.old = @ \/ (scan[c].on /\ "command" = "watch")]
                                = [scan[c] EXCEPT !.old = @]
      <3> SUFFICES ASSUME NEW c \in Builders
                   PROVE  (scan[c].old \/ (scan[c].on /\ "command" = "watch")) = scan[c].old
        OBVIOUS
      <3>1. scan[c].old \in BOOLEAN
        BY DEF TypeOK
      <3> QED
        BY <3>1
    <2> QED
      BY <2>1 DEF Publish
  <1>2. scan["command"] \in Scans /\ scan["watch"] \in Scans
    BY DEF TypeOK, Scans, Builders
  <1>3. scan'["command"] = Idle /\ scan'["watch"] = scan["watch"]
    BY <1>1, <1>2 DEF Builders, Scans
  <1>4. scan' \in [Builders -> Scans]
    BY <1>1, <1>2, <1>3, ScanTypes DEF Builders
  <1>5. Contents' = Contents /\ Announced' = Announced /\ Pending' = Pending
    BY <1>1, <1>3 DEF library, Contents, Announced, Pending
  <1>6. TypeOK'
    BY <1>1, <1>2, <1>4 DEF TypeOK, Scans, library
  <1>7. LoopInv' /\ CommandInv'
    BY <1>1, <1>3 DEF LoopInv, CommandInv, Idle
  <1>8. WatchInv'
    BY <1>1, <1>3, <1>5 DEF WatchInv, Coherent
  <1>9. NoChangeForgotten'
    <2> SUFFICES ASSUME ~blind', ~overtaken', ~Pending' PROVE index' = Contents'
      BY DEF NoChangeForgotten, Trusted
    <2>1. ~blind /\ ~scan["command"].old /\ ~Pending
      BY <1>1, <1>5
    <2>2. scan["command"].found = {c \in Contents : c[1] \notin scan["command"].todo}
      BY <1>1, <2>1 DEF CommandInv, Coherent
    <2> QED
      BY <1>1, <1>5, <2>2
  <1> QED
    BY <1>6, <1>7, <1>8, <1>9

LEMMA CommandRebuildKeeps ==
  ASSUME WatcherInv, CommandRebuild
  PROVE  WatcherInv'
  <1> USE DEF WatcherInv
  <1>1. /\ scan' = [scan EXCEPT !["command"] = Listed]
        /\ UNCHANGED <<library, index, queue, last, watching, history, starts>>
    BY DEF CommandRebuild
  <1>2. /\ scan' \in [Builders -> Scans] /\ scan'["watch"] = scan["watch"]
        /\ scan'["command"] = Listed
    BY <1>1, ScanTypes DEF TypeOK, Scans, Builders
  <1>3. Contents' = Contents /\ Announced' = Announced /\ Pending' = Pending
    BY <1>1, <1>2 DEF library, Contents, Announced, Pending
  <1>4. TypeOK'
    BY <1>1, <1>2 DEF TypeOK, Scans, library, history
  <1>5. LoopInv' /\ WatchInv'
    BY <1>1, <1>2, <1>3 DEF LoopInv, WatchInv, Coherent, history
  <1>6. Coherent("command")'
    BY <1>2, <1>3 DEF Coherent, Listed, Contents
  <1>7. NoChangeForgotten'
    BY <1>1, <1>3 DEF NoChangeForgotten, Trusted, history
  <1> QED
    BY <1>4, <1>5, <1>6, <1>7 DEF CommandInv

LEMMA StartKeeps ==
  ASSUME WatcherInv, Start
  PROVE  WatcherInv'
  <1> USE DEF WatcherInv
  <1>1. /\ starts < MaxStarts /\ watching' = TRUE /\ starts' = starts + 1
        /\ UNCHANGED <<library, index, queue, last, scan, history>>
    BY DEF Start
  <1>2. Contents' = Contents /\ Announced' = Announced /\ Pending' = Pending
    BY <1>1 DEF library, Contents, Announced, Pending
  <1>3. TypeOK'
    BY <1>1, WatcherAssumption DEF TypeOK, library, history
  <1>4. LoopInv' /\ WatchInv' /\ CommandInv'
    BY <1>1, <1>2 DEF LoopInv, WatchInv, CommandInv, Coherent, history
  <1>5. NoChangeForgotten'
    BY <1>1, <1>2 DEF NoChangeForgotten, Trusted, history
  <1> QED
    BY <1>3, <1>4, <1>5

\* An archive event leaves the channel only to start the debounce.
LEMMA ReceiveKeeps ==
  ASSUME WatcherInv, Receive
  PROVE  WatcherInv'
  <1> USE DEF WatcherInv
  <1>1. CASE Head(queue) = "error"
    BY <1>1, FailKeeps DEF Receive, Builders
  <1>2. CASE Head(queue) # "error"
    <2>1. /\ watching /\ ~scan["watch"].on /\ queue # <<>>
          /\ queue' = Tail(queue)
          /\ last' = IF Head(queue) = "archive" THEN 0 ELSE last
          /\ UNCHANGED <<library, index, scan, watching, history, starts>>
      BY <1>2 DEF Receive
    <2>2. /\ queue' \in Seq(Events) /\ Len(queue') <= MaxQueue
          /\ Announced' => Announced
          /\ Announced /\ ~Announced' => Head(queue) = "archive"
      BY <2>1, ReceiveFacts
    <2>3. last' \in 0 .. Debounce \cup {None} /\ (last # None => last' # None)
          /\ (Head(queue) = "archive" => last' # None)
      BY <2>1, WatcherAssumption DEF TypeOK
    <2>4. Contents' = Contents
      BY <2>1 DEF library, Contents
    <2>5. Pending => Pending'
      BY <2>1, <2>2, <2>3 DEF Pending, Announced
    <2>6. TypeOK'
      BY <2>1, <2>2, <2>3 DEF TypeOK, library, history
    <2>7. LoopInv' /\ WatchInv'
      BY <2>1 DEF LoopInv, WatchInv
    <2>8. CommandInv'
      BY <2>1, <2>4, <2>5 DEF CommandInv, Coherent, history
    <2>9. NoChangeForgotten'
      BY <2>1, <2>4, <2>5 DEF NoChangeForgotten, Trusted, history
    <2> QED
      BY <2>6, <2>7, <2>8, <2>9
  <1> QED
    BY <1>1, <1>2

LEMMA TickKeeps ==
  ASSUME WatcherInv, Tick
  PROVE  WatcherInv'
  <1> USE DEF WatcherInv
  <1>1. /\ watching /\ ~scan["watch"].on
        /\ last \in 0 .. Debounce - 1 /\ last' = last + 1
        /\ UNCHANGED <<library, index, queue, scan, watching, history, starts>>
    BY DEF Tick
  <1>2. last' \in 0 .. Debounce /\ last' # None /\ last # None
    BY <1>1, WatcherAssumption
  <1>3. Contents' = Contents /\ Pending' /\ Pending
    BY <1>1, <1>2 DEF library, Contents, Pending
  <1>4. TypeOK'
    BY <1>1, <1>2 DEF TypeOK, library, history
  <1>5. LoopInv' /\ WatchInv'
    BY <1>1 DEF LoopInv, WatchInv
  <1> QED
    BY <1>3, <1>4, <1>5 DEF CommandInv, NoChangeForgotten

\* The scan starts with nothing read, so what it has read is right.
LEMMA FireKeeps ==
  ASSUME WatcherInv, Fire
  PROVE  WatcherInv'
  <1> USE DEF WatcherInv
  <1>1. /\ watching /\ last' = None
        /\ scan' = [scan EXCEPT !["watch"] = Listed]
        /\ UNCHANGED <<library, index, queue, watching, history, starts>>
    BY DEF Fire
  <1>2. /\ scan' \in [Builders -> Scans] /\ scan'["watch"] = Listed
    BY <1>1, ScanTypes DEF TypeOK, Scans, Builders
  <1>3. Contents' = Contents
    BY <1>1 DEF library, Contents
  <1>4. TypeOK'
    BY <1>1, <1>2 DEF TypeOK, Scans, library, history
  <1>5. Coherent("watch")'
    BY <1>2, <1>3 DEF Coherent, Listed, Contents
  <1>6. LoopInv' /\ Pending'
    BY <1>1, <1>2 DEF LoopInv, Listed, Pending
  <1> QED
    BY <1>4, <1>5, <1>6 DEF WatchInv, CommandInv, NoChangeForgotten

-----------------------------------------------------------------------------
(* The theorems *)

LEMMA InitEstablishes == Init => WatcherInv
  <1> SUFFICES ASSUME Init PROVE WatcherInv
    OBVIOUS
  <1>1. TypeOK
    <2>1. scan \in [Builders -> Scans]
      BY ScanTypes DEF Init
    <2>2. queue \in Seq(Events) /\ Len(queue) <= MaxQueue
      BY WatcherAssumption DEF Init
    <2>3. /\ dirs \subseteq Folders /\ lib \in [Folders -> SUBSET Archives] /\ index = {}
          /\ last = None /\ watching = FALSE /\ blind = FALSE /\ overtaken = FALSE
      BY DEF Init
    <2>4. changes \in 0 .. MaxChanges /\ starts \in 0 .. MaxStarts
      BY WatcherAssumption DEF Init
    <2> QED
      BY <2>1, <2>2, <2>3, <2>4 DEF TypeOK, Scans
  <1>2. LoopInv /\ WatchInv /\ CommandInv
    BY DEF Init, LoopInv, WatchInv, CommandInv, Idle, Builders
  <1>3. Contents = {}
    BY DEF Init, Contents
  <1> QED
    BY <1>1, <1>2, <1>3 DEF WatcherInv, NoChangeForgotten, Init

LEMMA StepKeeps == WatcherInv /\ [Next]_vars => WatcherInv'
  <1> SUFFICES ASSUME WatcherInv, [Next]_vars PROVE WatcherInv'
    OBVIOUS
  <1>1. CASE Environment
    <2>1. CASE Interrupt
      BY <2>1, FailKeeps DEF Interrupt, Builders
    <2> QED
      BY <1>1, <2>1, EnvironmentKeeps, OtherEventKeeps, CommandRebuildKeeps DEF Environment
  <1>2. CASE Start \/ Receive \/ Tick \/ Fire
    BY <1>2, StartKeeps, ReceiveKeeps, TickKeeps, FireKeeps
  <1>3. ASSUME NEW b \in Builders, Scan(b) \/ WriteFails(b) PROVE WatcherInv'
    <2>1. CASE Publish(b)
      BY <2>1, WatchPublishKeeps, CommandPublishKeeps DEF Builders
    <2>2. CASE \E f \in Folders : ReadFolder(b, f)
      BY <2>2, ReadKeeps
    <2>3. CASE WriteFails(b)
      BY <2>3, FailKeeps DEF WriteFails, WatcherInv, LoopInv
    <2> QED
      BY <1>3, <2>1, <2>2, <2>3 DEF Scan
  <1>4. CASE UNCHANGED vars
    <2>1. Contents' = Contents /\ Announced' = Announced /\ Pending' = Pending
      BY <1>4 DEF vars, Contents, Announced, Pending
    <2>2. TypeOK' /\ LoopInv'
      BY <1>4 DEF vars, WatcherInv, TypeOK, LoopInv
    <2>3. WatchInv' /\ CommandInv' /\ NoChangeForgotten'
      BY <1>4, <2>1 DEF vars, WatcherInv, WatchInv, CommandInv, NoChangeForgotten, Trusted,
         Coherent
    <2> QED
      BY <2>2, <2>3 DEF WatcherInv
  <1> QED
    BY <1>1, <1>2, <1>3, <1>4 DEF Next

LEMMA Invariance == Spec => []WatcherInv
  BY InitEstablishes, StepKeeps, PTL DEF Spec

\* Every variable of the watcher keeps its type: the channel's length, the debounce's
\* ticks, the scans of both builders.
THEOREM TypeCorrect == Spec => []TypeOK
  <1>1. WatcherInv => TypeOK
    BY DEF WatcherInv
  <1> QED
    BY <1>1, Invariance, PTL

\* Whenever watch_archive_index has nothing left to do, the published index is the
\* library: no archive event that came in while it received, waited or scanned is lost,
\* and no other command's publication hides one.
THEOREM NoChangeIsEverForgotten == Spec => []NoChangeForgotten
  <1>1. WatcherInv => NoChangeForgotten
    BY DEF WatcherInv
  <1> QED
    BY <1>1, Invariance, PTL
=============================================================================
