SPECIFICATION Spec
CONSTANTS
    Rows = {r1, r2, r3, r4}
    PageSize = 2
    MaxPages = 2
    MaxEdits = 2
    NoTotal = NoTotal
    Empty = Empty
    Null = Null
SYMMETRY Symmetry
INVARIANT NoOmission
CHECK_DEADLOCK FALSE
