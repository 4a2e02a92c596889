SPECIFICATION SessionSpec
CONSTANTS
    Handlers = {h1, h2, h3}
    None = None
    Duration = 2
    Horizon = 4
    Adjustable = TRUE
INVARIANTS
    OverIsOver
    SessionHasToken
    OnlySweepLeavesTokens
    SessionLasts
PROPERTIES
    ExpiredIsRemoved
CHECK_DEADLOCK FALSE
