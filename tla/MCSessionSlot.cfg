CONSTANTS
    MaxSessions = 3
    Conns = {c1, c2}
SPECIFICATION SlotSpec
CHECK_DEADLOCK FALSE
INVARIANTS
    SlotNamesTheListener
    TunnelsFollowListener
PROPERTIES
    SessionsEnd
    ImplementsService
