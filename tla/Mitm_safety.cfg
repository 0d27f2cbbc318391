SPECIFICATION MitmSpec
CONSTANTS
    Msgs = {m1, m2, m3}
    None = None
    Flows = {1, 2, 3}
    Sizes = {0, 2}
    MaxFlows = 2
    MaxFlowBytes = 4
    MaxRev = 3
INVARIANTS
    QueueTypeOK
    AnsweredOnce
    OldestFirst
    StoreTypeOK
    StoreKept
    HistoryFresh
PROPERTIES
    ImplementsHeldMessages
    DrainReleases
    EvictionExact
