\* Two phases on a store whose reads may fail; seeds 6, 7 and 8, of which the
\* last two are the bad ones of a generator with M = 7.
SPECIFICATION FairSpec
CONSTANTS
    M = 7
    A = 3
    FirstSeed = 6
    ValueLength = 2
    MaxThreads = 3
    IntMax = 7
    Faults = {"read"}
    Jobs <- SmallJobs
INVARIANTS
    TypeOK PutPhaseExact GetPhaseFinds FullPeriod ReportMatches
PROPERTY Ends
