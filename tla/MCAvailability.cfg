SPECIFICATION Spec
CONSTANTS
    kMTile = 2
    kKChunk = 2
    kNChunk = 2
    ServedDims = {2, 4}
    kAlign = 2
    kCols = 2
    Threads = {"t1", "t2", "t3"}
    Batch = 5
    Unset = Unset
    Environments <- MCEnvironments
INVARIANTS
    TypeOK
    OneDecision
    ProbedOnce
PROPERTIES
    ConfigFrozen
    EveryoneDecides
