SPECIFICATION MCSpec
CONSTANTS
    a1 = a1
    a2 = a2
    game = game
    Procs = {p1, p2}
    Orphans = {o1}
    Archives <- MCArchives
    Base <- MCBase
    EmptyArchives <- MCEmpty
    Untagged = Untagged
    Platform = Platform
    MaxChanges = 1
    MaxFiles = 1
SYMMETRY Symmetry
INVARIANTS
    TypeOK
    NoPileUp
PROPERTIES
    UserFilesKept
    HidesOnlyLateFiles
    ActsOnItsArchive
\* With an empty library there is nothing left to do.
CHECK_DEADLOCK FALSE
