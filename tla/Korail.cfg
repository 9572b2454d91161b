SPECIFICATION FairSpec
CONSTANTS
    Calls = {a, b, c, d}
    Gap = 3
    Never = Never
INVARIANTS
    RequestsTypeOK
    OneAtATime
PROPERTIES
    RequestsSpaced
    CallsComeBack
CHECK_DEADLOCK FALSE
