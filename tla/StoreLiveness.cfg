SPECIFICATION FairSpec
CONSTANTS
    Puts = {p1, p2}
    Closers = {c1, c2}
    MaxConcurrent = 1
PROPERTIES
    PutsComeBack
    AclosesComeBack
    ImplementsLifecycle
CHECK_DEADLOCK FALSE
