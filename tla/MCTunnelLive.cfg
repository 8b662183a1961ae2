CONSTANTS
    Relays = 1
    MaxUp = 2
    MaxDown = 1
    MaxChaff = 0
    MaxFaults = 1
SPECIFICATION TunSpec
CHECK_DEADLOCK FALSE
INVARIANTS
    DeliveredIsPrefix
PROPERTIES
    AllEnd
    RequestGetsThrough
