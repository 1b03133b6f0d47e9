CONSTANTS
    Limit = 1
    LimitBytes = 0
    SizeOf <- MCSize
    Frames = {1, 2, 3, 4}
    Overflows = {"disconnect"}
    MaxSessions = 0
    MaxRetries = 2
    Buffering = {TRUE}
    MaxAttempts = 2
SPECIFICATION Spec
PROPERTY OfflineKeepsNewest
CHECK_DEADLOCK FALSE
