CONSTANTS
    MaxSessions = 3
    Conns = {}
    Starts = {1, 2, 3}
    U8Max = 3
    DegradedThreshold = 2
    Methods = {"Masque", "VeilFront"}
    Registered = {"VeilFront"}
    TopK = 2
    Errors = {"FingerprintBlocked", "Tls"}
    Ffi = TRUE
SPECIFICATION Spec
CHECK_DEADLOCK FALSE
INVARIANTS
    StartReplacesWhole
    FailureIsExplained
