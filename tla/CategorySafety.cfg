SPECIFICATION Spec
CONSTANTS
    s1 = s1
    s2 = s2
    s3 = s3
    s4 = s4
    s5 = s5
    out = out
    Stations <- MCStations
    Outsiders <- MCOutsiders
    Names <- MCNames
    NameOf <- MCNameOf
    PageSize = 2
    MaxPages = 2
    MaxEdits = 2
    Nowhere = Nowhere
SYMMETRY Symmetry
INVARIANTS
    TypeOK
    AsLongAsTheGuide
    WholeIfNoneCameOrWent
    CalmKorailSuffices
    RightCoordinates
    LocatedUnlessAmbiguous
CHECK_DEADLOCK FALSE
