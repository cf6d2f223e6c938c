\* Intervals of one to three latencies, and one no file is as long as.
SPECIFICATION Spec
CONSTANTS
    Files <- AllFiles
    Intervals = {1, 2, 3, 7}
    Windowed <- Factors
    Overall <- Quantiles
INVARIANTS WindowsAligned TailsRanked
