SPECIFICATION IntentSpec
CONSTANTS
    Handlers = {h1}
    Pids = {p1, p2, p3}
    None = None
    Requests = {"start", "stop", "force-stop", "restart"}
    Configs <- AnyConfig
    ExitKinds = {"clean", "signalled", "failed"}
    Faults = {"spawn", "config"}
INVARIANTS
    AtMostOneLive
    RunningIsTrue
    FlagIsLowered
    DurationIsKnown
    StopIsFinal
PROPERTIES
    ImplementsSupervisor
CHECK_DEADLOCK FALSE
