SPECIFICATION Spec
CONSTANTS
    Wrap = 8
    HalfSecond = 2
    BootTicks = 3
    ButtonBits = 3
    KeyBits = 2
    MaxMoves = 2
    IdleCap = 1
INVARIANTS
    QuietIsReady
    ReleaseDebounced
    TurnsCounted
    FastTurnsLoseCycles
