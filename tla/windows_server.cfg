\* Two puts and a client, with deaths, with errors as well, with wrong bodies.
SPECIFICATION Spec
CONSTANTS
    a1 = a1
    o1 = o1
    o2 = o2
    Actions = {a1}
    Outputs = {o1, o2}
    Offers <- MCOffers
    RecordLen <- MCRecordLen
    Size = 2
    WrongSizes = {1}
    Writers = {w1, w2}
    Readers = {r1}
    FaultSets <- MCFaultSets
    NoFile = NoFile
    NoPut = NoPut
    NoGet = NoGet
SYMMETRY WriterSymmetry
INVARIANTS TypeOK EntriesWereStored OnlyGoodBytes NamedOutputsWhole BodiesWhole
PROPERTIES SecondWritesKeepEntries ServesReadThroughCache
