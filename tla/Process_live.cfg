CONSTANTS
    MAX_TASKS = 4
    Structs = {s1, s2}
    IdleTask = idle
    InitTask = init
    NULL = NULL
    RX_CAP = 2
    Workload = {"yield", "fork", "exit", "wait", "read"}
SPECIFICATION FairSpec
PROPERTIES ReadyRuns CallsReturn
INVARIANTS QueueDiscipline NoLostWakeUp
