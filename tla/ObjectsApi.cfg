CONSTANTS
    a = a
    b = b
    c = c
    idle = idle
    e1 = e1
    e2 = e2
    m1 = m1
    NoThread = NoThread
    None = None
    Thread = {a, b, c, idle}
    Booted = {a, b, c, idle}
    Idle = idle
    RT_THREAD_PRIORITY_MAX = 4
    InitPriority <- MCPriority
    InitTick <- MCTick
    SuspendList = {"sem", m1, "event", "mp", "completion"}
    MaxTime = 1
    Calls = {}
    Times <- MCTimes
SPECIFICATION Spec
INVARIANTS
    TypeOK KernelSound
    NoneLeftFree UnitsConserved NoneLeftBehind
    OwnerHolds WaitersHaveOwner Inherits Restored NoInversion
    NoneSatisfiedWaits ReceivesAsked BlocksConserved NotMissed
    Tiled OwnedFits
PROPERTIES WakesHighest DeliveredOnce IsEditor
SYMMETRY MCSymmetry
