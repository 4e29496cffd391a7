SPECIFICATION Spec
CONSTANTS
    NoPtr = NoPtr
    NoFilter = NoFilter
    Exe = Exe
    lib = lib
    lib1 = lib1
    Lib = {lib, lib1}
    ExeLike = {}
    Config <- MCPtrConfig
    Substr <- MCSubstr
    LoadAddr <- MCLoadAddr
    Stack <- MCStack
    ExeOffs = 10
    TextSize = 3
    UIntPtrMax = 99
    Cell = {1, 2}
    Glob = 14
    Size = {1, 2}
    MAX_BT = 2
    MaxFifo = 2
CHECK_DEADLOCK FALSE
PROPERTY DiscoveryEnds
