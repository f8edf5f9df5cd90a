SPECIFICATION FairSpec
CONSTANTS
    NumRows = 2
    NumLines = 2
    Samples = 2
    Unknown <- MCUnknown
INVARIANTS
    TypeOK
    QuietIsReady
    DebounceExact
PROPERTIES KeysReported
