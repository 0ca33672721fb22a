SPECIFICATION Spec
CONSTANTS
    b0 = b0  a1 = a1  a2 = a2  c1 = c1  x2 = x2  y3 = y3
    None = None
    Blocks <- MCBlocks
    Block0 = b0
    Parent <- MCParent
    ChainLength <- MCLength
    BlockDate <- MCLength
    Valid = {a1, a2, c1, x2}
    LeaderBlocks = {c1}
    Tasks = {t1, t2}
    TipUpdateQueueSize = 1
    CacheCapacity = 4
    EpochStabilityDepth = 1
    StartTime = 3
    EndTime = 3
SYMMETRY Symmetry
INVARIANTS StoreConnected HeadLoadable TipFollowsHead
PROPERTIES ImplementsDurableTip
