SPECIFICATION Spec
CONSTANTS
    Rows <- MCRows
    RouteOf <- MCRouteOf
    SequenceOf <- MCSequenceOf
    Arrays <- MCArrays
    Items <- MCItems
    Bad = Bad
    None = None
INVARIANT ErrorIsNoResult
CHECK_DEADLOCK FALSE
