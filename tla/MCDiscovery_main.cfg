SPECIFICATION Spec
CONSTANTS
    NoPtr = NoPtr
    NoFilter = NoFilter
    Exe = Exe
    lib = lib
    lib1 = lib1
    Lib = {lib, lib1}
    ExeLike = {}
    Config <- MCConfig
    Substr <- MCSubstr
    LoadAddr <- MCLoadAddr
    Stack <- MCStack
    ExeOffs = 10
    TextSize = 3
    UIntPtrMax = 99
    Cell = {1, 2}
    Glob = 14
    Size = {1, 2}
    MAX_BT = 2
    MaxFifo = 2
INVARIANT LiveFirst
INVARIANT FlushRead
INVARIANT Filtered
INVARIANT PtrSeen
PROPERTY DiscoveryEnds
CHECK_DEADLOCK FALSE
