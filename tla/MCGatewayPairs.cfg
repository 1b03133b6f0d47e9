CONSTANTS
    Limit = 2
    LimitBytes = 2
    SizeOf <- MCSize
    DataA = 1
    DataB = 0
    MaxSockets = 1
    MaxHellos = 0
SPECIFICATION Spec
INVARIANT DownIsLast
CHECK_DEADLOCK FALSE
