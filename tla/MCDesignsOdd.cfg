SPECIFICATION Spec
CONSTANTS
    Dispatches = 2
    WideLines <- OddBlock
INVARIANTS
    StoredRight
