SPECIFICATION FlowSpec
CONSTANTS
    Scenarios <- MCScenarios
    MaxSteps = 6
    MaxHistory = 1
    MaxItems = 2
    MaxRuns = 2
    HistoryLimit = 2
    Sessions <- MCSessions
    NumberOf <- MCNumberOf
    Points <- MCPoints
    Offsets <- MCOffsets
    Views <- MCViews
    NodeTexts <- MCNodeTexts
    NodeChips <- MCNodeChips
    EdgeConds <- MCEdgeConds
    EdgeOps <- MCEdgeOps
    EdgeTexts <- MCEdgeTexts
    Names <- MCNames
    Dropped <- MCDropped
    Methods <- MCMethods
    Imports <- MCImports
    AddedKinds <- MCAddedKinds
    TabRequests <- MCTabRequests
INVARIANTS FlowTypeOK NeverStuck HonestRecords UnreachableNeverRuns CanvasSound
PROPERTIES ChangesUndoable StopEnds
CHECK_DEADLOCK FALSE
