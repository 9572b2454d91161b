SPECIFICATION Spec
CONSTANTS
    Rows <- MCRows
    RowLists <- MCRowLists
    Totals <- MCTotals
    Bad = Bad
    Empty = Empty
    Null = Null
    None = None
INVARIANTS
    TypeOK
    EmptyIsExplicit
    PortCallsExact
CHECK_DEADLOCK FALSE
