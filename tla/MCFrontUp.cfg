CONSTANTS
    Cooldown = 1
    IdleTick = 2
    FrontWindow = 7
    MaxChaffQueue = 3
    MaxBytes = 3
SPECIFICATION UpSpec
INVARIANTS
    NothingLeftBehind
    ChaffIsExact
PROPERTIES
    GoesQuiet
