SPECIFICATION Spec
CONSTANTS
    maglev = maglev
    other = other
    Headers <- MCHeaders
    Lines <- MCLines
    MaxLength = 3
    DeclaredRows = {1, 2, 3, 4}
    DeclaredColumns = {1, 2, 3, 4}
    MaxRows = 3
    MaxColumns = 3
    Known <- MCKnown
    Blank = Blank
    Undeclared = Undeclared
INVARIANTS
    TypeOK
    NothingLeftOut
    StationsWhereTheyAre
    NothingHidden
CHECK_DEADLOCK FALSE
