SPECIFICATION FairSpec
CONSTANTS
    Calls = {a, b}
    sound = sound
    long = long
    Files <- MCFiles
    Length <- MCLength
    MaxChunks = 2
    Readable <- MCReadable
    Nothing = Nothing
INVARIANTS
    TypeOK
    ReturnedIsArchived
    OnlyVerifiedArchived
PROPERTIES
    NeverOverwritten
    CallsComeBack
CHECK_DEADLOCK FALSE
