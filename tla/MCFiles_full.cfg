CONSTANTS
    MAX_MOUNTS = 4
    MAX_TASKS = 2
    HEAD = 8
    MAX_FDS = 6
    MAX_FILES = 2
    Paths <- ThePaths
    Modes = {"r", "w+", "a+"}
    Targets = {1, 5}
    Texts <- TheTexts
    Sizes = {2, 3}
    Initial <- TheFile
    CAP = 4
    RxMax = 1
    MaxCalls = 4
    None = None
SPECIFICATION Spec
INVARIANTS StreamsOwnFds StreamsInOrder
CHECK_DEADLOCK FALSE
