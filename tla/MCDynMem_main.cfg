SPECIFICATION Spec
CONSTANTS
    a1 = a1
    a2 = a2
    C1 = C1
    C2 = C2
    t1 = t1
    t2 = t2
    Null = Null
    Other = Other
    Static = Static
    Free = Free
    NoMsg = NoMsg
    Addr = {a1, a2}
    Class = {C1, C2}
    ClassSize <- MCSizeTwo
    Threads = {t1}
    Main = t1
    FifoCap = 1
    EintrWrites = FALSE
    MallocMayFail = FALSE
    Entry = {1, 2}
    EntryClass <- MCClassTwo
    EntryEnd <- MCEndTwo
    CheckO = {}
    InitAct <- MCActAll
    Keys <- MCKeysTwo
    QMax = 2
INVARIANTS SafeAccess Accounted NoDuplicates NoObjectLost
SYMMETRY MCSymmetry
