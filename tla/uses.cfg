\* A day of two ticks; what MaxAge and MaxSize evict, by when it was really used.
SPECIFICATION UsesSpec
CONSTANTS
    a1 = a1
    a2 = a2
    small = small
    plain = plain
    big = big
    alt = alt
    ActionIDs = {a1, a2}
    Contents = {small, plain, big}
    OutputIDs = {small, plain, big, alt}
    Size <- MCSize
    LZ4Size <- MCLZ4Size
    SmallObjectSize = 2
    NoAltOutput = NoAltOutput
    PutRequests <- MCUses
    Legacy = {}
    Putters = {p1}
    Getters = {g1}
    MaxAge = 3
    MaxSize = 4
    RelAtime = 2
    CandidateLimit = 2
    Faults = {"crash"}
    MaxTime = 4
    MaxBlobID = 2
    NoEntry = NoEntry
    Nobody = Nobody
    Cleaner = Cleaner
INVARIANT AccessTimesTrackUses
PROPERTIES OnlyUnusedAgeOut LeastUsedGoFirst
