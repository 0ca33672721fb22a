SPECIFICATION FairSpec
CONSTANTS
    b0 = b0  a1 = a1  a2 = a2  c1 = c1  x2 = x2  y3 = y3
    None = None
    Blocks <- SmallBlocks
    Block0 = b0
    Parent <- MCParent
    ChainLength <- MCLength
    BlockDate <- MCLength
    Valid = {a1, a2, c1}
    LeaderBlocks = {c1}
    Tasks = {t1}
    TipUpdateQueueSize = 1
    CacheCapacity = 3
    EpochStabilityDepth = 1
    StartTime = 1
    EndTime = 2
PROPERTY TipCatchesUp
