\* Limits on, no faults, fair scheduling: two PUTs, a GET, the flush and the cleaner.
SPECIFICATION FairSpec
CONSTANTS
    a1 = a1
    a2 = a2
    small = small
    plain = plain
    big = big
    alt = alt
    ActionIDs = {a1, a2}
    Contents = {small, plain, big}
    OutputIDs = {small, plain, big, alt}
    Size <- MCSize
    LZ4Size <- MCLZ4Size
    SmallObjectSize = 2
    NoAltOutput = NoAltOutput
    PutRequests <- MCRequests
    Legacy = {big}
    Putters = {p1, p2}
    Getters = {g1}
    MaxAge = 1
    MaxSize = 3
    RelAtime = 1
    CandidateLimit = 3
    Faults = {}
    MaxTime = 1
    MaxBlobID = 2
    NoEntry = NoEntry
    Nobody = Nobody
    Cleaner = Cleaner
INVARIANT EveryFileAccounted
PROPERTIES OnlyBatchFilesGo PutsEnd PassesEnd SizeLimitReached AgeLimitReached
