SPECIFICATION Spec
CONSTANTS
    C = C
    P = P
    S = S
    Area = {C, P, S}
    Class = {C}
    Pointee = {P}
    Static = S
    NoEntry = NoEntry
    Chunk = 4
    PtrMax = 100
    MemSize = 16
    MaxVal = 10
    MaxMoves = 5
    Configs <- MCObjects
    Layouts <- MCLayouts
INVARIANT WishOwn
