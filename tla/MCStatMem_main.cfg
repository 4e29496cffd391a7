SPECIFICATION Spec
CONSTANTS
    L1 = L1
    L2 = L2
    Exe = Exe
    Stack = Stack
    ExePath = ExeFile
    ExeFile = ExeFile
    Anon = Anon
    HeapName = HeapName
    StackName = StackName
    NoFile = Anon
    HeapPath = HeapName
    StackPath = StackName
    StaticLoad = {5}
    Lib = {L1, L2}
    LibList <- MCLibList
    Item = {1, 2, 3, 4, 5, 6, 7}
    AreaOf <- MCArea
    ValueOf <- MCValueOf
    Cache = {1, 2, 3, 4}
    CacheOf <- MCCacheOf
    Addr0 <- MCAddr0
    Offs0 <- MCOffs0
    Dumps <- MCDumps
    HeapChecks = TRUE
    ExeBases = {5, 10}
    LoadAddr <- MCLoad
    PartsOf <- MCPartsOf
    Keyed = {4}
    HeapMin = 50
    HeapMax = 51
    StackRange <- MCStackRange
    StackEnd = 75
    StatSays = {0, 75}
    PartOf <- MCPartOf
INVARIANT Touched
INVARIANT RegionTypes
INVARIANT HeapInside
INVARIANT HeldBack
INVARIANT AllFound
CHECK_DEADLOCK FALSE
