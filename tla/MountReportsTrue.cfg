SPECIFICATION Spec
CONSTANTS
    a1 = a1
    a2 = a2
    game = game
    Procs = {p1}
    Orphans = {}
    Archives <- MCArchives
    Base <- MCBase
    EmptyArchives <- MCEmpty
    Untagged = Untagged
    Platform = Platform
    MaxChanges = 2
    MaxFiles = 0
PROPERTY
    MountReportsTrue
CHECK_DEADLOCK FALSE
