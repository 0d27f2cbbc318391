SPECIFICATION Spec
CONSTANTS
    Null = Null
    Missing = Missing
    Empty = Empty
    Broken = Broken
    NoNode = NoNode
    NoEnv = NoEnv
    Sanitized <- MCNone
    Trimmed <- MCNone
    HeaderOrder <- MCHeaderOrder
    URLParts <- MCNone
    DefaultMethod = "GET"
    DefaultSplitRatio = 50
    UserAgent = "ua"
    JSONBodies = {}
    HeaderFold <- MCNone
    ColIds <- MCColIds
    SepIds <- MCSepIds
    RenameTexts <- MCRenameTexts
    Edits <- MCEdits
    LayoutEdits <- MCLayoutEdits
    Imports <- MCImports
    EnvIds <- MCEnvIds
    EnvSepIds <- MCEnvSepIds
    EnvNames <- MCEnvNames
    Colors <- MCColors
    EnvColors <- MCEnvColors
    EnvRows <- MCEnvRows
    EnvImports <- MCEnvImports
    VarTexts <- MCVarTexts
    VarNames <- MCVarNames
    SelectEnvOnEdit = TRUE
    RestoreTabs = TRUE
    Sessions <- MCSessions
    Starts = 1
    ColFiles0 <- MCColFiles0
    EnvFiles0 <- MCEnvFiles0
    State0 <- MCState0
INVARIANTS TypeOK WindowFollows
PROPERTIES EnvFilesFollow SurvivesRestart
CHECK_DEADLOCK FALSE
