SPECIFICATION LocksSpec
CONSTANTS
    Blocks <- MCBlocks
    Procs = {p1, p2}
    Operations <- MCAddAndClean
    Arguments <- MCArguments
    Free = Free
    None = None
PROPERTY AddBlockReturns
CHECK_DEADLOCK FALSE
