\* Four keys in three ranges of one key: the last key is in none.
SPECIFICATION Spec
CONSTANTS
    Half = 8
    MaxNum = 7
    RangeMax = 4
    DefaultRangeSize = 3
    MaxThreads = 2
    IntMax = 7
    Faults = {}
    Hash <- SmallHash
    Streams <- OneStream
    Jobs <- OneJob
INVARIANT RangesHoldTheirs
