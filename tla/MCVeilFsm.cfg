CONSTANTS
    U8Max = 4
    DegradedThreshold = 2
    Methods = {"WebTunnel", "Masque", "VeilFront"}
    Reasons = {"FingerprintBlocked", "Timeout"}
    Ports = {1, 2}
SPECIFICATION FsmSpec
INVARIANTS
    ProxyMatchesState
    BoundedTolerance
    RoundIsAccounted
