CONSTANTS
    a = a
    b = b
    c = c
    idle = idle
    Thread = {a, b, c, idle}
    Booted = {a, b, c, idle}
    Idle = idle
    RT_THREAD_PRIORITY_MAX = 3
    InitPriority <- MCPriority
    InitTick <- MCTick
    SuspendList = {"mp"}
    MaxTime = 1
    Calls = {"alloc", "free"}
    Times <- MCTimes
    Total = 2
    CountMod = 8
    MaxPended = 4
SPECIFICATION Spec
INVARIANT PendedCounted
