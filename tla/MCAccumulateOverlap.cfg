SPECIFICATION Spec
CONSTANTS
    kMTile = 2
    kKChunk = 2
    kNChunk = 2
    ServedDims = {2, 3}
    kAlign = 1
    kCols = 1
    Tensors = {"s1", "s2"}
    Shapes <- MCShapes
    Callers = {"c1", "c2"}
    CallSet <- MCCallSet
    MaxCalls = 3
INVARIANTS
    DstRight
