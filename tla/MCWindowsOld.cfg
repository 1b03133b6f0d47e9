CONSTANTS
    t1 = t1
    t2 = t2
    Threads <- MCThreads
    Cap = 2
    MaxLag = 1
    MaxCalls = 2
    MaxTime = 4
    MaxSessions = 2
SPECIFICATION Spec
INVARIANT OldCountsDropped
SYMMETRY ThreadSymmetry
CHECK_DEADLOCK FALSE
