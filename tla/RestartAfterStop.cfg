SPECIFICATION IntentSpec
CONSTANTS
    Handlers = {h1}
    Pids = {p1, p2, p3, p4}
    None = None
    Requests = {"start", "stop"}
    Configs <- RetryTwice
    ExitKinds = {"failed"}
    Faults = {}
INVARIANT NoRestartAfterStop
CHECK_DEADLOCK FALSE
