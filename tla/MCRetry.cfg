CONSTANTS
    Main = main
    Threads = {main, t1, t2}
    MaxRetries = 3
    MaxSync = 1
SPECIFICATION Spec
INVARIANTS
    RetryTypeOK
    NothingAfterDispose
    NeverForgotten
CHECK_DEADLOCK FALSE
