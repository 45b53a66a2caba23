SPECIFICATION LocksSpec
CONSTANTS
    Blocks <- MCBlocks
    Procs = {p1, p2}
    Operations <- MCAllCalls
    Arguments <- MCArguments
    Free = Free
    None = None
SYMMETRY ProcSymmetry
INVARIANTS LocksInv MarksKept
PROPERTY HeadersOnlyCleaned
CHECK_DEADLOCK FALSE
