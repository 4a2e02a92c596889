SPECIFICATION StaticSpec
CONSTANTS
    Handlers = {h1, h2}
    Times = {t1, t2, t3, t4}
    None = None
    LastVersion = 4
INVARIANTS
    ServesCurrent
    CacheAgrees
CHECK_DEADLOCK FALSE
