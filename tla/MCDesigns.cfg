SPECIFICATION Spec
CONSTANTS
    Dispatches = 2
    WideLines <- EvenBlocks
INVARIANTS
    TypeOK
    FreedMeansUsed
    StoredRight
PROPERTIES
    ImplementsGemm
