SPECIFICATION Spec
CONSTANTS
    Rows <- MCRows
    RouteOf <- MCRouteOf
    SequenceOf <- MCSequenceOf
    Arrays <- MCArrays
    Items <- MCItems
    Bad = Bad
    None = None
INVARIANTS
    TypeOK
    RowsAsSent
    RoutesInOrder
CHECK_DEADLOCK FALSE
