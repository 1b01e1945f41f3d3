SPECIFICATION Spec
CONSTANTS
    kMTile = 2
    kKChunk = 2
    kNChunk = 2
    ServedDims = {2, 4}
    kAlign = 2
    kCols = 2
    nth = 4
    NumNodes = 3
    ne00 <- MCne00
    ne01 <- MCne01
    ne11 <- MCne11
    Available = TRUE
    MinTokensEnv = 1
    Knobs <- MCKnobs
INVARIANTS
    TypeOK
    SameBarrier
    DstNeverWrong
    OneWriter
PROPERTIES
    ResultHeld
    WorkBufferHeld
    ImplementsAtomic
