CONSTANTS
    Main = main
    Threads = {main, t1, t2}
    MaxRetries = 3
    MaxSync = 1
SPECIFICATION Spec
INVARIANT TimersCancelled
CHECK_DEADLOCK FALSE
