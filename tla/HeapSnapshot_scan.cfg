CONSTANTS
    NumPages = 5
    MaxVmas = 3
    OffsetRange = 3
SPECIFICATION Spec
INVARIANTS TypeOK ScanExact TableExact NotFiltered
CHECK_DEADLOCK FALSE
