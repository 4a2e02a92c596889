SPECIFICATION Spec
CONSTANTS
    Handlers = {h1, h2}
    Pids = {p1, p2}
    None = None
    Requests = {"start"}
    Configs <- NoRetry
    ExitKinds = {"failed"}
    Faults = {}
INVARIANT AtMostOneLive
CHECK_DEADLOCK FALSE
