\* Two threads replay twelve traces on a store that may fail any call.
SPECIFICATION FairSpec
CONSTANTS
    NumThread = 2
    KeySize = 2
    ValueSize = 1
    Faults = {"read", "write"}
    Traces <- SmallTraces
INVARIANTS
    TypeOK EachOnceInOrder CountsCoverTrace TextsKeepApart
PROPERTY Ends
