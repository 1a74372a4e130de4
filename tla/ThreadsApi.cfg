CONSTANTS
    a = a
    b = b
    c = c
    idle = idle
    Thread = {a, b, idle}
    Booted = {b, idle}
    Idle = idle
    RT_THREAD_PRIORITY_MAX = 2
    InitPriority <- MCPriority3
    InitTick <- MCTick3
    SuspendList = {"defunct"}
    MaxTime = 1
    Static = {a}
    Cleanup = {a}
    Calls = {"yield", "sleep", "critical", "control", "suspend", "resume", "startup", "exit", "delete", "create"}
    Disciplined = TRUE
    MaxNest = 2
SPECIFICATION Spec
INVARIANTS TypeOK ReadyTable LinkedOnce TimersSuspended TopRuns DeadNeverRun
PROPERTY LockHolds
