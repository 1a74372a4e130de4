CONSTANTS
    t1 = t1
    t2 = t2
    Timer = {t1, t2}
    TickMod = 16
    MaxDelay = 1
    InitTicks <- MCInitTicks
SPECIFICATION FairSpec
INVARIANT LinkedActive
