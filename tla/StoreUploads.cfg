SPECIFICATION Spec
CONSTANTS
    Puts = {p1, p2, p3, p4}
    Closers = {c1, c2}
    MaxConcurrent = 2
SYMMETRY Symmetry
INVARIANTS
    TypeOK
    UploadsDrainedBeforeClose
    ActiveUploadsExact
    SlotsAccounted
    AcloseReturnsClosed
    CloseLockHandedOver
PROPERTY AdmissionStops
CHECK_DEADLOCK FALSE
