CONSTANTS
    a = a
    b = b
    c = c
    idle = idle
    None = None
    Thread = {a, b, c, idle}
    Booted = {a, b, c, idle}
    Idle = idle
    RT_THREAD_PRIORITY_MAX = 3
    InitPriority <- MCPriority
    InitTick <- MCTick
    SuspendList = {"recv", "send", "mq", "pop", "push", "read", "write", "mp"}
    MaxTime = 1
    Calls = {}
    Times <- MCTimes
SPECIFICATION Spec
INVARIANTS
    TypeOK NoItemLeft NoRoomLeft DeadlineKept NodesAccounted MessageIntact NoStandoff
PROPERTY IsQueue
