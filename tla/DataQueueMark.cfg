CONSTANTS
    a = a
    b = b
    idle = idle
    Thread = {a, b, idle}
    Booted = {a, b, idle}
    Idle = idle
    RT_THREAD_PRIORITY_MAX = 3
    InitPriority <- MCPriority
    InitTick <- MCTick
    SuspendList = {"pop", "push"}
    MaxTime = 1
    Calls = {"push", "pop"}
    Times <- MCTimes
    Item = {1, 2}
    Size = 2
    Lwm = 1
    IndexMod = 65536
    MaxPut = 4
SPECIFICATION Spec
INVARIANT PusherWaits
