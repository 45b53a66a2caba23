SPECIFICATION PeerSpec
CONSTANTS
    Blocks <- MCBlocks
    Offered <- MCOffered
    ReportedHeads <- MCHeads
    HeaderPackets <- MCPackets
    ConfigHead <- MCGenesis
    HeadBacklog = 1
    BlockBacklog = 1
    BlockQueueMaxSize = 3
    None = None
INVARIANT PeerTypeOK
PROPERTIES SentAfterParent SentNeverFalls FutureBlocksKept ChannelDrains
CHECK_DEADLOCK FALSE
