CONSTANTS
    Base = 4
    VarintMaxBytes = 3
    TopDigit = 1
    UsizeMax = 23
    MaxPayload = 7
    Buckets <- MCBuckets
    FrameLens = {0, 3, 4, 6}
    MaxFrames = 3
SPECIFICATION FrSpec
CHECK_DEADLOCK FALSE
INVARIANTS
    StreamRoundTrips
    BufferIsBounded
    AcceptsOnlyCanonical
