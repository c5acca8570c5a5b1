CONSTANTS
    a = a  b = b
    Heaps = {a, b}
    Area <- MCArea
    Frames = {1, 2}
    Threads = {t1, t2}
    None = None
    MaxWrites = 2
    MaxPulls = 2
SPECIFICATION Spec
INVARIANTS TypeOK OwnPage
PROPERTY SegvJustified
SYMMETRY ThreadSymmetry
CHECK_DEADLOCK FALSE
