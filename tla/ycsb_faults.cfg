CONSTANTS
    Faults = {"read", "write"}
    ValueLength = 2
    MaxThreads = 3
    IntMax = 7
    Percent = 2
    Campaigns <- MixedCampaigns
SPECIFICATION Spec
INVARIANTS
    TypeOK
    StoredWhole
    SafetyInv
    ReportInv
    BuffersOwnKey
    KeysInRange
    CountsMatchLatencies
    TotalFileIsMerge
    ReportIsComplete
    LoadIsFresh
PROPERTIES
    ReadOnlyJobsPreserve
    KeepsPromise
