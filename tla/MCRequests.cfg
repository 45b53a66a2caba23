SPECIFICATION RequestsSpec
CONSTANTS
    Announced = {b1, b2}
    Packets <- MCPackets
    Ticks = {tick}
    Queries = {query}
    Versions <- MCVersions
    Asking <- MCAsking
    ResponseQueueSize = 3
    None = None
    b1 = b1
    b2 = b2
    tick = tick
    query = query
INVARIANTS RequestsInv FetchedOwnBlock
PROPERTY LoopReads
CHECK_DEADLOCK FALSE
