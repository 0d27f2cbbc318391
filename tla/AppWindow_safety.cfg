SPECIFICATION FairWindowSpec
CONSTANTS
    State = State
    Cols = {c1, c2}
    Envs = {e}
    MaxEdits = 3
    Pids = {1, 2}
    Slots = {1, 2}
    MaxClicks = 4
    MaxTicks = 3
    HistCap = 2
    MaxCrashes = 1
CHECK_DEADLOCK FALSE
INVARIANTS
    TypeOK
    DiskFollows
    ExitSaves
    LimitsExact
PROPERTY IdleSaves
