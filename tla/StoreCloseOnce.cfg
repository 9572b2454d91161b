SPECIFICATION Spec
CONSTANTS
    Puts = {p1}
    Closers = {c1, c2}
    MaxConcurrent = 1
INVARIANT ClosesPoolOnce
CHECK_DEADLOCK FALSE
