CONSTANTS
    Limit = 1
    LimitBytes = 0
    SizeOf <- MCSize
    Frames = {1, 2}
    Overflows = {"drop_new", "disconnect"}
    MaxSessions = 0
    MaxRetries = 2
    Buffering = {TRUE, FALSE}
    MaxAttempts = 2
SPECIFICATION Spec
INVARIANTS
    CliTypeOK
    OrderKept
    EveryFrame
    EndedReleases
PROPERTIES
    OutSpec
    ShutdownStops
    Reconnects
    Drains
CHECK_DEADLOCK FALSE
