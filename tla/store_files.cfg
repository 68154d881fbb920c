\* Limits on, crashes, failing statements and unlinks: which rows are without their file.
SPECIFICATION FilesSpec
CONSTANTS
    a1 = a1
    a2 = a2
    small = small
    plain = plain
    big = big
    even = even
    alt = alt
    ActionIDs = {a1, a2}
    Contents = {small, plain, big, even}
    OutputIDs = {small, plain, big, even, alt}
    Size <- MCFileSize
    LZ4Size <- MCFileLZ4Size
    SmallObjectSize = 2
    NoAltOutput = NoAltOutput
    PutRequests <- MCFileRequests
    Legacy = {plain, big, even}
    Putters = {p1, p2}
    Getters = {}
    MaxAge = 1
    MaxSize = 4
    RelAtime = 1
    CandidateLimit = 3
    Faults = {"crash", "io"}
    MaxTime = 1
    MaxBlobID = 3
    NoEntry = NoEntry
    Nobody = Nobody
    Cleaner = Cleaner
SYMMETRY PutterSymmetry
INVARIANT EveryRowAccounted
