CONSTANTS
    Callers = {c1, c2, c3}
    Every = 2
    MaxTime = 4
    MaxFrames = 4
SPECIFICATION WarnSpec
SYMMETRY MCSymmetry
INVARIANTS
    NoFrameIsForgotten
PROPERTIES
    WarningsAreSpaced
