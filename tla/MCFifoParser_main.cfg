SPECIFICATION Spec
CONSTANTS
    N = 13
    NL = nl
    m = m
    f = f
    S = S
    x = x
    size = size
    Number = {1, 2, 3, 4, 7, 8, 9}
    Mask = {size}
    Byte = {nl, m, f, S, x, size, 1, 2, 3, 4, 7, 8, 9}
    MaxMsgs = 4
    Files <- MCFiles
    Sends <- MCSends
INVARIANT ParserTypeOK
INVARIANT Conserved
INVARIANT ReversedLines
PROPERTY Drained
CHECK_DEADLOCK FALSE
