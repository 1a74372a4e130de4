CONSTANTS
    a = a
    b = b
    c = c
    idle = idle
    Thread = {a, b, c, idle}
    Booted = {a, b, c, idle}
    Idle = idle
    RT_THREAD_PRIORITY_MAX = 3
    InitPriority <- MCPriority
    InitTick <- MCTick
    SuspendList = {"sem"}
    MaxTime = 2
    Calls = {"take", "detach"}
    Times <- MCTimes
    Flag = "PRIO"
    SemMax = 2
    MaxUnits = 2
SPECIFICATION Spec
INVARIANT NextIsSuspended
