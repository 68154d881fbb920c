\* A blob that no action names is never evicted.
SPECIFICATION FairSpec
CONSTANTS
    a1 = a1
    a2 = a2
    small = small
    plain = plain
    big = big
    alt = alt
    ActionIDs = {a1, a2}
    Contents = {small, plain, big}
    OutputIDs = {small, plain, big, alt}
    Size <- MCSize
    LZ4Size <- MCLZ4Size
    SmallObjectSize = 2
    NoAltOutput = NoAltOutput
    PutRequests <- TwoOutputs
    Legacy = {}
    Putters = {p1, p2}
    Getters = {g1}
    MaxAge = 0
    MaxSize = 4
    RelAtime = 1
    CandidateLimit = 3
    Faults = {}
    MaxTime = 0
    MaxBlobID = 3
    NoEntry = NoEntry
    Nobody = Nobody
    Cleaner = Cleaner

PROPERTY StoredWithinLimit
