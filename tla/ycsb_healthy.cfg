CONSTANTS
    Faults = {}
    ValueLength = 2
    MaxThreads = 3
    IntMax = 7
    Percent = 2
    Campaigns <- HitCampaigns
SPECIFICATION FairSpec
INVARIANTS
    WarmLoadExact
    ZipfTestHits
PROPERTY
    Terminates
