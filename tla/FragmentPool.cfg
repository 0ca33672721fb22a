SPECIFICATION FairSpec
CONSTANTS
    b0 = b0  b1 = b1  b2 = b2  f1 = f1  f2 = f2  f3 = f3  f4 = f4  f5 = f5
    Blocks = {b0, b1, b2}
    Block0 = b0
    Parent <- MCParent
    ChainLength <- MCLength
    BlockDate <- MCLength
    Fragments = {f1, f2, f3, f4, f5}
    Size <- MCSize
    Expiring = {f1, f3, f4, f5}
    ValidUntil <- MCValidUntil
    WellFormed = {f1, f2, f3, f4}
    MaxValidity = 1
    BlockFragments <- MCBlockFragments
    Requests <- MCRequests
    PoolMaxEntries = 2
    LogsMaxEntries = 3
    BlockContentMaxSize = 2
    NoDate = NoDate
    None = None
    MaxDate = 2
INVARIANTS PoolAgrees PoolBounded  PooledIsUndecided
PROPERTIES NoReordering JobEnds
