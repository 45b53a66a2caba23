SPECIFICATION PeersSpec
CONSTANTS
    n1 = n1
    n2 = n2
    Nodes = {n1, n2}
    Fetches = {f1}
    f1 = f1
    BlockBacklog = 1
    HeadBacklog = 1
    MaxSessions <- MCMaxSessions
    Speakers <- MCSpeakers
    MaxArrivals = 2
    MaxBridge = 1
    None = None
    BDN = BDN
INVARIANT PeersInv
CHECK_DEADLOCK FALSE
PROPERTIES BroadcastEnds LostIsReleased
