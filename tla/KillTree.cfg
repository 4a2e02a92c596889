SPECIFICATION TreeSpec
CONSTANTS
    Procs = {1, 2, 3, 4}
    Root = 1
    Reaper = 0
    Faults = {"ps"}
INVARIANTS
    RootDies
    SurvivorsEscaped
PROPERTIES
    WalkEnds
CHECK_DEADLOCK FALSE
