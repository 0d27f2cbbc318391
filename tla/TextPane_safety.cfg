SPECIFICATION Spec
CONSTANTS
    Letters <- MCLetters
    LongLine = 4
    SubLines = 1
    MaxBytes = 8
    UndoLimit = 2
    SyncMax = 5
    Rows = 2
    PanelRows = 1
    MaxDocs = 1
    Sessions <- MCSessions
    Typed <- MCTyped
    Loads <- MCLoads
    Queries <- MCQueries
    Docs <- MCDocs
INVARIANTS
    EditsReversible
    SearchFollows
    EditorSound
