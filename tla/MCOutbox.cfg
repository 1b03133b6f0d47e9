CONSTANTS
    Limit = 2
    LimitBytes = 3
    SizeOf <- MCSize
    Frames = {1, 2, 3, 4}
    Overflows = {"drop_old", "drop_new", "disconnect"}
    MaxSessions = 2
SPECIFICATION OutSpec
INVARIANTS
    BytesExact
    BytesBound
    InOrder
    Accounted
    NoLostWakeup
    BacklogExact
CHECK_DEADLOCK FALSE
