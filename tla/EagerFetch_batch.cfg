CONSTANTS
    NumPages = 4
    Batch = 2
SPECIFICATION Spec
INVARIANTS TypeOK NoPartialPage BatchFetched
CHECK_DEADLOCK FALSE
