\* One to two threads of the runner on six option sets, and two threads that
\* share a Benchmark; the store may fail to read.
SPECIFICATION FairSpec
CONSTANTS
    Half = 8
    MaxNum = 7
    RangeMax = 4
    DefaultRangeSize = 3
    MaxThreads = 2
    IntMax = 7
    Faults = {"read"}
    Hash <- SmallHash
    Streams <- SmallStreams
    Jobs <- SmallJobs
INVARIANTS
    TypeOK CountersExact KeyInChosenRange ThreadsRepeat RandomGetsMiss ReportMatches
PROPERTY Ends
