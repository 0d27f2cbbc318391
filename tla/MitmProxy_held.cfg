SPECIFICATION FairSpec
CONSTANTS
    Conns = {k1}
    Kinds = {"http"}
    Holding = TRUE
CHECK_DEADLOCK FALSE
PROPERTY StopReturnsWhileHeld
