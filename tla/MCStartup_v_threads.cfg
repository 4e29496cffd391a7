SPECIFICATION Spec
CONSTANTS
    exe = exe
    noGrow = noGrow
    la = la
    lb = lb
    dot = dot
    t1 = t1
    t2 = t2
    Class <- MCLate
    Exe = exe
    NoGrow = noGrow
    LibName = {la, lb, dot}
    Substr <- MCSubstr
    LoadAddr <- MCLoadAddr
    ExeOffs = 7
    Threads = {t1, t2}
    MaxFifo = 2
INVARIANT Located
CHECK_DEADLOCK FALSE
