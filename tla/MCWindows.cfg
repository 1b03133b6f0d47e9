CONSTANTS
    t1 = t1
    t2 = t2
    Threads <- MCThreads
    Cap = 2
    MaxLag = 2
    MaxCalls = 3
    MaxTime = 4
    MaxSessions = 2
SPECIFICATION Spec
INVARIANTS
    WindowsTypeOK
    ItemsConserved
    DepthExact
    DepthSettles
SYMMETRY ThreadSymmetry
CHECK_DEADLOCK FALSE
