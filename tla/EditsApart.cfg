SPECIFICATION ApartSpec
CONSTANTS
    Handlers = {h1}
    Pids = {p1, p2}
    None = None
    Requests = {"start"}
    Configs <- RetryOnceOrTwice
    ExitKinds = {"failed"}
    Faults = {"config"}
    Editors = {e1, e2}
    Empty = Empty
    Mangled = Mangled
SYMMETRY EditorSymmetry
INVARIANT RunsItsDefinition
CHECK_DEADLOCK FALSE
