CONSTANTS
    Conns = {c1, c2}
    Addrs = {"a"}
    Bucket <- MCBucket
    MaxHandshakesArg = 1
    MaxPerIpArg = 1
    MaxAccepts = 3
SPECIFICATION RelaySpec
INVARIANTS
    SummaryAddsUp
    AdmissionIsAccounted
PROPERTIES
    SilentPeerIsDropped
