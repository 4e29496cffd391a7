SPECIFICATION TableSpec
CONSTANTS
    Zero = Zero
    Inval = Inval
    Addr = {a1, a2, a3, a4}
    Callers = {t1, t2, t3}
    MallocMayFail = TRUE
    ReallocMayFail = TRUE
    MaxSlots = 8
CONSTRAINT MCSlots
SYMMETRY MCSymmetry
INVARIANTS Findable InsertIdxValid
PROPERTY RefinesAddrSet
