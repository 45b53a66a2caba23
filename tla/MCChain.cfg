SPECIFICATION Spec
CONSTANTS
    Blocks <- MCBlocks
    Seen <- MCSeen
    WithTD <- MCWithTD
    PeerHeads <- MCStatusHead
    MaxReorg = 2
    MinValidChain = 3
    MaxSize = 2
    MaxFuture = 100
    None = None
INVARIANTS ChainInv MetadataReachable CanonicalStored HeadConfirmed HeadersAnswerLinked
PROPERTY BestHeightMonotonic
