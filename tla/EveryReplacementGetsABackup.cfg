SPECIFICATION Spec
CONSTANTS
    p1 = p1
    p2 = p2
    f1 = f1
    f2 = f2
    d = d
    u = u
    n1 = n1
    n2 = n2
    None = None
    Ops <- MCOps
    Files <- MCFiles
    Dirs <- MCDirs
    Dir <- MCDir
    Contents <- MCContents
    UserContents <- MCUserContents
    FirstContents <- MCFirstContents
    New <- MCNew
    Targets <- MCTargets
    IoErrors = FALSE
INVARIANT EveryReplacementGetsABackup
