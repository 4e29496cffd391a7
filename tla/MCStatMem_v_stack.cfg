SPECIFICATION Spec
CONSTANTS
    L1 = L1
    L2 = L2
    Exe = Exe
    Stack = Stack
    ExePath = ExeFile
    ExeFile = ExeFile
    Anon = Anon
    HeapName = HeapName
    StackName = StackName
    NoFile = Anon
    HeapPath = HeapName
    StackPath = StackName
    StaticLoad = {5}
    Lib = {L1, L2}
    LibList <- MCLibList
    Item = {1, 2}
    AreaOf <- MCStackArea
    ValueOf <- MCStackValue
    Cache = {1}
    CacheOf <- MCStackCache
    Addr0 <- MCStackAddr0
    Offs0 <- MCStackOffs0
    Dumps <- MCStackDumps
    HeapChecks = TRUE
    ExeBases = {5, 10}
    LoadAddr <- MCLoad
    PartsOf <- MCPartsOf
    Keyed = {}
    HeapMin = 50
    HeapMax = 51
    StackRange <- MCStackRange
    StackEnd = 75
    StatSays = {0, 75}
    PartOf <- MCPartOf
INVARIANT Touched
CHECK_DEADLOCK FALSE
