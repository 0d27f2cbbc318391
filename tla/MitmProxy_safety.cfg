SPECIFICATION FairSpec
CONSTANTS
    Conns = {k1, k2}
    Kinds = {"http", "tunnel", "mitm"}
    Holding = TRUE
CHECK_DEADLOCK FALSE
INVARIANTS
    TypeOK
    StopIsClean
PROPERTY ClosedIsLeft
