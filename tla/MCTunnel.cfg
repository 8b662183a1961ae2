CONSTANTS
    Relays = 2
    MaxUp = 1
    MaxDown = 1
    MaxChaff = 1
    MaxFaults = 1
SPECIFICATION TunSpec
CHECK_DEADLOCK FALSE
INVARIANTS
    HopIsolation
    EofMeansComplete
