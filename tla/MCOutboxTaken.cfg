CONSTANTS
    Limit = 2
    LimitBytes = 3
    SizeOf <- MCSize
    Frames = {1, 2, 3, 4}
    Overflows = {"drop_old"}
    MaxSessions = 2
SPECIFICATION OutSpec
CHECK_DEADLOCK FALSE
INVARIANT TakenToken
