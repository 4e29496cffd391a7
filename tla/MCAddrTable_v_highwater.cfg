SPECIFICATION TableSpec
CONSTANTS
    Zero = Zero
    Inval = Inval
    Addr = {a1, a2, a3, a4}
    Callers = {t1, t2}
    MallocMayFail = FALSE
    ReallocMayFail = FALSE
    MaxSlots = 8
CONSTRAINT MCSlots
SYMMETRY MCSymmetry
INVARIANT HighWater
