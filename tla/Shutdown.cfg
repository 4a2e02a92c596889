SPECIFICATION FairDaemonSpec
CONSTANTS
    Handlers = {main, h1}
    Pids = {p1, p2}
    Main = main
    None = None
    Requests = {"start"}
    Configs <- RetryOnce
    ExitKinds = {"failed"}
    Faults = {}
INVARIANTS
    SurvivorsAreCrossed
    TwoLiveOnlyIfCrossed
PROPERTY ShutdownEnds
CHECK_DEADLOCK FALSE
