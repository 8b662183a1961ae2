SPECIFICATION Spec
CHECK_DEADLOCK FALSE
CONSTANTS
    LongScopes = {"long"}
    Seeds = {"s1", "s2"}
    ChainIssuer = "issuer"
    Issuer = "issuer"
    ChainWindow <- MCWindow
    Starts <- MCStarts
    LinkRuns <- MCLinkRuns
    MaxIssueTime = 1
    Configs <- MCConfigs
    Issued <- MCIssued
    AuthParts = 3
    DataParts = 2
    HttpParts = 2
    ReadLimit = 3
    MaxChaff = 3
    MaxTime = 2
INVARIANTS
    AdmissionIsExact
    BytesAreConserved
    VerdictIsTrue
    PinnedPeerOnly
    FdsAreClosedOnce
    IdentityIsKept
    ChainIsWhole
PROPERTIES
    EveryDialEnds
