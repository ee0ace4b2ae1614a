SPECIFICATION MCSpec
CONSTANTS
    N = 2
    s1 = s1
    s2 = s2
    d1 = d1
    d2 = d2
    o1 = o1
    o2 = o2
    x = x
    None = None
    Paths <- MCPaths
    Src <- MCSrc
    Dst <- MCDst
    Objects <- MCObjects
    Regular <- MCObjects
    Obj <- MCObj
    CaseTwins <- MCCaseTwins
    Permitted <- MCPermitted
INVARIANTS
    TypeOK
    TruthUnlessRaced
PROPERTIES
    InFlightSettles
    WorkerReported
