SPECIFICATION Spec
CONSTANTS
    Handlers = {h1, h2}
    Pids = {p1, p2}
    None = None
    Requests = {"start", "stop", "restart"}
    Configs <- RetryOnce
    ExitKinds = {"signalled", "failed"}
    Faults = {"spawn", "config"}
SYMMETRY HandlerSymmetry
INVARIANTS
    TypeOK
    PendingHasOwner
    EveryChildWatched
    RegistrationFinal
    StoppedMeansDead
    RetryIsEarned
CHECK_DEADLOCK FALSE
