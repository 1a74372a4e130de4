CONSTANTS
    a = a
    b = b
    c = c
    idle = idle
    m1 = m1
    m2 = m2
    Thread = {a, b, c, idle}
    Booted = {a, b, c, idle}
    Idle = idle
    RT_THREAD_PRIORITY_MAX = 4
    InitPriority <- MCPriority
    InitTick <- MCTick
    SuspendList = {m1, m2}
    MaxTime = 1
    Calls = {"take", "release", "sleep"}
    Times <- MCForever
    Mtx = {m1, m2}
    Flag = "PRIO"
    NoThread = NoThread
    MaxHold = 1
SPECIFICATION Spec
INVARIANT Restored
