SPECIFICATION GatewaySpec
CONSTANTS
    t1 = t1
    t2 = t2
    r1 = r1
    r2 = r2
    Relays = {r1, r2}
    Messages = {t1, t2}
    SendChannelSize = 1
    MaxSockets <- MCSockets
    Batches <- MCBatches
    TransactionBacklog = 1
    MaxBatches = 2
    None = None
INVARIANTS GatewayInv InBroadcastOrder GoesOneWay
PROPERTIES Reconnects QueueDrains
