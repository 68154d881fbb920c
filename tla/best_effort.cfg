\* A network that fails and a disk that does not.
SPECIFICATION Spec
CONSTANTS
    a1 = a1  a2 = a2  o1 = o1  o2 = o2
    ActionIDs <- MCActionIDs
    OutputIDs <- MCOutputIDs
    Offers <- MCOffers
    NoOutput = NoOutput
    IDs = {i1}
    Faults = {"net"}
INVARIANT BestEffortNeverFails
