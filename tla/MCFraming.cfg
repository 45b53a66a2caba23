SPECIFICATION WireSpec
CONSTANTS
    Unit = 2
    Window = 64
    Hour = 52
    Outgoing <- MCOutgoing
    Clocks <- MCClocks
    Chunks = {20, 77, 4096}
    MaxSent = 2
INVARIANTS WireInv BroadcastsIntact TxPrefixArrives TimestampRecovered
PROPERTY SentArrives
CHECK_DEADLOCK FALSE
