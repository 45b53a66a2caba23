SPECIFICATION RelaySpec
CONSTANTS
    Blocks <- MCBlocks
    Seen <- MCSeen
    WithTD <- MCWithTD
    PeerHeads <- MCStatusHead
    MaxReorg = 1
    MinValidChain = 3
    MaxSize = 1
    MaxFuture = 100
    None = None
    Handlers = {h1, h2}
    BlockBacklog = 1
    ConfirmationsCount = 1
INVARIANTS RelayInv HeadSent 
PROPERTIES MarkedNotResent BlockForwarded
CHECK_DEADLOCK FALSE
