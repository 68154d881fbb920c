\* runtime.NumCPU() is 1: the flush keeps the only connection.
SPECIFICATION FairSpec
CONSTANTS
    ActionIDs = {a1, a2}
    Getters = {g1}
    Putters = {p1}
    Scanners = {loop}
    CleanLoop = loop
    Callbacks = {c1}
    Timers = {t1, t2}
    PoolSize = 1
    SoftLimit = 2
    Nobody = Nobody
    NoTimer = NoTimer
    NoAction = NoAction

PROPERTY UsageStatsReturns
CHECK_DEADLOCK FALSE
