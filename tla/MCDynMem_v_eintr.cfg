SPECIFICATION Spec
CONSTANTS
    a1 = a1
    a2 = a2
    C1 = C1
    C2 = C2
    t1 = t1
    t2 = t2
    Null = Null
    Other = Other
    Static = Static
    Free = Free
    NoMsg = NoMsg
    Addr = {a1, a2}
    Class = {C1}
    ClassSize <- MCSizeOne
    Threads = {t1}
    Main = t1
    FifoCap = 1
    EintrWrites = TRUE
    MallocMayFail = FALSE
    Entry = {1}
    EntryClass <- MCClassOne
    EntryEnd <- MCEndOne
    CheckO = {}
    InitAct <- MCActFirst
    Keys <- MCKeysOne
    QMax = 1
INVARIANTS SafeAccess
SYMMETRY MCSymmetry
