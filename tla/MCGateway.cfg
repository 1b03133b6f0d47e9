CONSTANTS
    Limit = 2
    LimitBytes = 2
    SizeOf <- MCSize
    DataA = 2
    DataB = 2
    MaxSockets = 2
    MaxHellos = 0
SPECIFICATION Spec
CONSTRAINT ThreeFrames
INVARIANTS
    EventsPair
    SinkAfterEvent
    HeldUntilReady
    LosslessInbound
    LosslessOutbound
CHECK_DEADLOCK FALSE
