SPECIFICATION MCSpec
CONSTANTS
    MaxSess = 3
    MaxMsg = 1
    MaxParts = 2
    Window = 1
    MaxTraffic = 3
    MaxWire = 1
CHECK_DEADLOCK FALSE
INVARIANTS
    SessionsSound
    FramesExact
PROPERTY ClosedTabEnds
