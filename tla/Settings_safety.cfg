SPECIFICATION Spec
CONSTANTS
    Null = Null
    Missing = Missing
    Empty = Empty
    Broken = Broken
    Registry = {"dark", "light"}
    Hexes = {"c1"}
    Garbled = "garbled"
    Colors = {"bg"}
    Tokens = {"key"}
    Agents = {""}
    Proxies = {"proxy", "garbled"}
    HeaderTexts <- MCHeaderTexts
    Names = {"mine"}
    NewIDs <- MCNewIDs
    Typed = {20000}
    Touched = {"hide_sidebar", "cookie_jar_enabled", "stack_breakpoint_dp", "default_sidebar_width_px"}
    Picks = {"POST", ""}
    Files <- MCFiles
    MaxEdits = 2
INVARIANTS
    TypeOK
    InStep
PROPERTY JarKept
