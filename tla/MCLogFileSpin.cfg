CONSTANTS
    Exporters = {x, y}
    None = none
    Flock = FALSE
    Rotation = "never"
    Interval = 1
    MaxAge = 1
    MaxTime = 3
    MaxExports = 3
SPECIFICATION Spec
INVARIANT Exclusive
CHECK_DEADLOCK FALSE
