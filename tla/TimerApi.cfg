CONSTANTS
    t1 = t1
    t2 = t2
    Timer = {t1, t2}
    TickMod = 12
    MaxDelay = 1
    InitTicks <- MCInitTicks
SPECIFICATION FairSpec
INVARIANT TypeOK
PROPERTIES IsCountdown HandlerEnds
