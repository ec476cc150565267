CONSTANTS
    Forked = {"c1", "c2"}
    MAX_FAULTS = 1
    Evicts = FALSE
SPECIFICATION Spec
INVARIANTS
    ContextKept
    NothingLeftBehind
