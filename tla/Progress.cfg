SPECIFICATION FairSpec
CONSTANTS
    Handlers = {h1}
    Pids = {p1, p2, p3}
    None = None
    Requests = {"start", "stop"}
    Configs <- RetryTwice
    ExitKinds = {"failed"}
    Faults = {}
PROPERTIES
    ExitsAreSeen
    PendingClears
    FailureIsRetried
CHECK_DEADLOCK FALSE
