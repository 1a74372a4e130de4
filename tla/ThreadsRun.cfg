CONSTANTS
    a = a
    b = b
    c = c
    idle = idle
    Thread = {a, b, c, idle}
    Booted = {a, b, c, idle}
    Idle = idle
    RT_THREAD_PRIORITY_MAX = 3
    InitPriority <- MCPriority
    InitTick <- MCTick
    SuspendList = {"defunct"}
    MaxTime = 2
    Static = {a}
    Cleanup = {}
    Calls = {"yield", "sleep", "critical", "exit"}
    Disciplined = TRUE
    MaxNest = 1
SPECIFICATION TimedSpec
INVARIANT SleepsItsTime
PROPERTIES SleeperWakes RoundRobin
