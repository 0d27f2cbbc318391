SPECIFICATION Spec
CONSTANTS
    MaxSess = 3
    MaxMsg = 0
CHECK_DEADLOCK FALSE
INVARIANTS
    MarkClosedCancels
