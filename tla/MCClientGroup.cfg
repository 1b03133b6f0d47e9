CONSTANTS
    Callers = {a, b}
    Paths = {p}
    Nobody = nobody
    MaxCalls = 2
    MaxChildren = 2
SPECIFICATION Spec
PROPERTY FailedChildRemoved
CHECK_DEADLOCK FALSE
