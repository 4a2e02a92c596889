SPECIFICATION LossSpec
CONSTANTS
    Openers = {o1}
    None = None
    LastDay = 3
    MaxLines = 4
    RetentionDays = 1
    Faults = {"read", "append", "truncate"}
INVARIANTS
    OnlyExplainedLosses
    LinesInOrder
PROPERTY RetentionKept
CHECK_DEADLOCK FALSE
