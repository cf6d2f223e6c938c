\* A READ that finds its key does not return.
SPECIFICATION FairSpec
CONSTANTS
    NumThread = 2
    KeySize = 2
    ValueSize = 1
    Faults = {}
    Traces <- SmallTraces
INVARIANT ReadsReturn
