SPECIFICATION Spec
CONSTANTS
    Lanes = 2
    MM_R = 2
    MM_S = 2
    MM_T = 2
    Calls <- MCCalls
INVARIANTS
    UnpackInvertsPack
    QuantizedToNearest
    EnginesAgree
    BlockedIsProduct
    LayoutIsProduct
