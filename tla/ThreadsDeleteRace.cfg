CONSTANTS
    a = a
    b = b
    c = c
    idle = idle
    Thread = {a, b, idle}
    Booted = {a, b, idle}
    Idle = idle
    RT_THREAD_PRIORITY_MAX = 2
    InitPriority <- MCPriority3
    InitTick <- MCTick3
    SuspendList = {"defunct"}
    MaxTime = 2
    Static = {a}
    Cleanup = {}
    Calls = {"sleep", "delete"}
    Disciplined = FALSE
    MaxNest = 2
SPECIFICATION Spec
INVARIANT ClosedOffQueue
