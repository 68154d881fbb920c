\* A pool of two: the flush keeps one connection, everybody shares the other.
SPECIFICATION Spec
CONSTANTS
    ActionIDs = {a1, a2}
    Getters = {g1, g2}
    Putters = {p1}
    Scanners = {loop, usage}
    CleanLoop = loop
    Callbacks = {c1, c2}
    Timers = {t1, t2, t3}
    PoolSize = 2
    SoftLimit = 2
    Nobody = Nobody
    NoTimer = NoTimer
    NoAction = NoAction
SYMMETRY FlushSymmetry
INVARIANTS TypeOK FlushScheduled WaitsInOrder OnlyTheseWaits CloseReleasesConns
PROPERTY FlushIsOneStep
