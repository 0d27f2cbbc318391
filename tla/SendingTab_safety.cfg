SPECIFICATION TabSpec
CONSTANTS
    MaxReq = 2
    Batches = 2
    ChanCap = 2
    l1 = l1
    l2 = l2
    Loaders <- MCLoaders
    Sessions <- MCSessions
    MaxRuns = 2
    Workers = {w1, w2}
    Iterations = 2
    MaxFed = 1
    Answers <- MCAnswers
    LatCap = 2
CHECK_DEADLOCK FALSE
INVARIANTS
    TabSound
PROPERTY
    StopEnds
