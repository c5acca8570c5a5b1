CONSTANTS
    NumPages = 4
    Batch = 2
SPECIFICATION Spec
INVARIANT WaitedFor
CHECK_DEADLOCK FALSE
