SPECIFICATION Spec
CONSTANTS
    Wrap = 16
    HalfSecond = 2
    BootTicks = 6
    ButtonBits = 3
    KeyBits = 2
    MaxMoves = 1
    IdleCap = 8
INVARIANTS
    ScanEnds
