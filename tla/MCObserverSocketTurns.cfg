CONSTANTS
    MaxConns = 2
    MaxRead = 1
    First = 1
    Largest = 2
SPECIFICATION Spec
INVARIANTS
    TurnsEnabled
    CloseNeverBlocks
CHECK_DEADLOCK FALSE
