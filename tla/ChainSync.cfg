SPECIFICATION FairSpec
CONSTANTS
    Blocks <- MCBlocks
    Block0 = 0
    Parent <- MCParent
    ChainLength <- MCChainLength
    BlockDate <- MCChainLength
    Peers = {"a", "b"}
    PeerStore <- MCPeerStore
    SlotsPerEpoch = 2
    ChunkBlocks = 2
    MaxTasks = 2
    NoBlock = NoBlock
INVARIANTS TypeOK HeadersLand BlocksLand
PROPERTY CatchesUp
CHECK_DEADLOCK FALSE
