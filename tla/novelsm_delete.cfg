CONSTANTS
    Faults = {}
    Keys = {1, 2}
    Lengths = {0, 2}
    BackendsInUse = {"novelsm"}
SPECIFICATION Spec
INVARIANT ReadsWhatWasWritten
