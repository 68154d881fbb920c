\* Two requests at a time, with everything that may fail failing.
SPECIFICATION Spec
CONSTANTS
    a1 = a1  a2 = a2  o1 = o1  o2 = o2
    ActionIDs <- MCActionIDs
    OutputIDs <- MCOutputIDs
    Offers <- MCOffers
    NoOutput = NoOutput
    IDs = {i1, i2}
    Faults = {"io", "net", "length", "exit"}
INVARIANTS TypeOK EntriesHaveOutputs PutsAreStored RequestsGoOn
PROPERTIES AnswersComeNearer ImplementsReadThroughCache
