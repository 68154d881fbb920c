\* A PUT whose file is removed by the cleaner before its row is inserted.
SPECIFICATION Spec
CONSTANTS
    a1 = a1
    a2 = a2
    small = small
    plain = plain
    big = big
    alt = alt
    ActionIDs = {a1, a2}
    Contents = {small, plain, big}
    OutputIDs = {small, plain, big, alt}
    Size <- MCSize
    LZ4Size <- MCLZ4Size
    SmallObjectSize = 2
    NoAltOutput = NoAltOutput
    PutRequests <- OneRequest
    Legacy = {}
    Putters = {p1, p2}
    Getters = {g1}
    MaxAge = 2
    MaxSize = 4
    RelAtime = 1
    CandidateLimit = 3
    Faults = {}
    MaxTime = 2
    MaxBlobID = 3
    NoEntry = NoEntry
    Nobody = Nobody
    Cleaner = Cleaner
SYMMETRY PutterSymmetry
INVARIANT RowsServable
