CONSTANTS
    c1 = c1
    c2 = c2
    Nobody = Nobody
    Clients <- MCClients
    Limit = 1
    LimitBytes = 0
    SizeOf <- MCSize
    Overflows = {"drop_old", "disconnect"}
    MaxValues = 2
SPECIFICATION Spec
INVARIANTS
    ServerTypeOK
    FramesCounted
    ClosedIsFinal
    NothingStalls
CHECK_DEADLOCK FALSE
