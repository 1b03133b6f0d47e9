CONSTANTS
    Limit = 1
    LimitBytes = 0
    SizeOf <- MCSize
    Frames = {1}
    Overflows = {"drop_old"}
    MaxSessions = 0
    MaxRetries = 2
    Buffering = {TRUE}
    MaxAttempts = 2
SPECIFICATION Spec
PROPERTY ClosedTerminal
CHECK_DEADLOCK FALSE
