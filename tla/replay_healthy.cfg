\* Three threads replay twelve traces on a store that works.
SPECIFICATION FairSpec
CONSTANTS
    NumThread = 3
    KeySize = 2
    ValueSize = 1
    Faults = {}
    Traces <- SmallTraces
INVARIANTS
    StoreIsReplay InPhase HitsAreFatal
