CONSTANTS
    Faults = {"write"}
    Keys = {1, 2}
    Lengths = {0, 2}
    BackendsInUse = {"leveldb", "rocksdb", "silk", "matrixkv", "pebblesdb"}
SPECIFICATION Spec
INVARIANTS
    TypeOK
    ReadsWhatWasWritten
