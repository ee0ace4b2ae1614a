\* Two directories, one archive that moves between them by two changes and one
\* more change, two starts of the watcher, a channel of two events.
CONSTANTS
  Folders = {f1, f2}
  Archives = {a1}
  Debounce = 1
  MaxChanges = 3
  MaxStarts = 2
  MaxQueue = 2
  None = None
SPECIFICATION Spec
INVARIANTS
  TypeOK
  NoChangeForgotten
PROPERTY
  EventuallyFresh
