\* Files of two or three blocks, with what scripts may print.
CONSTANTS
    Files <- MCFiles
    Scripts <- MCScripts
    PtrMax <- MCPtrMax
    Garbage <- MCGarbage

SPECIFICATION Spec
INVARIANT Homes
INVARIANT RereadSame
INVARIANT TakenOnce
