SPECIFICATION Spec
CONSTANTS
    Versions = {1, 2, 3, 4}
    Images = {3, 4}
    OldNet = {1}
    Forced <- MCForced
    SSIDs = {"home", "[x]"}
    Matches <- MCMatches
    NoVer = NoVer
    Empty = Empty
    Part = Part
    MaxFlashes = 2
    MaxLosses = 2
INVARIANTS
    TypeOK
    CleanBoot
    DoneOnce
PROPERTIES
    SettingsKept
