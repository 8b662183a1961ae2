CONSTANTS
    Hour = 3
    FiveMinutes = 1
    BlockTtl = 4
    BlockAfter = 2
    TopKProbes = 2
    Fingerprints = {f1, f2}
    Methods = {1, 2, 3}
    Recorded = {3}
    Entries <- MCEntries
    Recorders = {r1, r2}
    Latencies = {4000}
    MaxFingerprints = 1
    U8Max = 2
    MaxTime = 5
    MaxRecords = 3
SPECIFICATION StoreSpec
SYMMETRY MCSymmetry
INVARIANTS
    BlockFollowsHistory
    SelectionIsSound
PROPERTIES
    FailureNeverHelps
    PruneCatchesUp
