CONSTANTS
    Limit = 1
    Batch = 1
    MaxCalls = 3
    MaxConns = 2
    MaxFaults = 1
    MaxWork = 4
SPECIFICATION Spec
INVARIANTS
    ReporterTypeOK
    MirrorFollows
    ViewExact
    SinkLeftClosed
    CloseEndsThreads
PROPERTY SessionsInOrder
CHECK_DEADLOCK FALSE
