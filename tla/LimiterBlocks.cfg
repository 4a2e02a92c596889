SPECIFICATION BlocksSpec
CONSTANTS
    Handlers = {h1, h2}
    Cleaner = cleaner
    None = None
    Horizon = 9
    MaxAttempts = 2
    BlockDuration = 2
    Adjustable = FALSE
SYMMETRY LoginSymmetry
INVARIANTS
    LimiterTypeOK
    BlockHolds
    GrantsAreBounded
PROPERTIES
    CleanUpKeepsBlocks
    BlocksAreEarned
CHECK_DEADLOCK FALSE
