CONSTANTS
    MaxSessions = 1
    Conns = {}
    Starts = {1}
    U8Max = 3
    DegradedThreshold = 2
    Methods = {"WebTunnel", "Masque", "VeilFront"}
    Registered = {"WebTunnel", "Masque", "VeilFront"}
    TopK = 3
    Errors = {"FingerprintBlocked"}
    Ffi = FALSE
SPECIFICATION Spec
CHECK_DEADLOCK FALSE
INVARIANTS
    ScoresFollowProbes
PROPERTIES
    LosersAreCancelled
    EveryStartReturns
