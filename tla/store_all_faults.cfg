\* Limits on and every fault: crashes, failing statements and unlinks, files removed by hand.
SPECIFICATION Spec
CONSTANTS
    a1 = a1
    a2 = a2
    small = small
    plain = plain
    big = big
    alt = alt
    ActionIDs = {a1, a2}
    Contents = {small, plain, big}
    OutputIDs = {small, plain, big, alt}
    Size <- MCSize
    LZ4Size <- MCLZ4Size
    SmallObjectSize = 2
    NoAltOutput = NoAltOutput
    PutRequests <- MCInlineRequests
    Legacy = {big}
    Putters = {p1, p2}
    Getters = {g1}
    MaxAge = 1
    MaxSize = 4
    RelAtime = 1
    CandidateLimit = 3
    Faults = {"crash", "io", "hand"}
    MaxTime = 1
    MaxBlobID = 2
    NoEntry = NoEntry
    Nobody = Nobody
    Cleaner = Cleaner
SYMMETRY PutterSymmetry
INVARIANTS TypeOK NoMissingBlobRows
PROPERTIES ImplementsActionCache
