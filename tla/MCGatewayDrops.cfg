CONSTANTS
    Limit = 1
    LimitBytes = 2
    SizeOf <- MCSize
    DataA = 1
    DataB = 0
    MaxSockets = 2
    MaxHellos = 1
SPECIFICATION Spec
INVARIANT Agreement
PROPERTY HandshakeCompletes
CHECK_DEADLOCK FALSE
