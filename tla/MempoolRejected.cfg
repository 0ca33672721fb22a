SPECIFICATION MempoolSpec
CONSTANTS
    b0 = b0  c1 = c1  c2 = c2  c3 = c3  o2 = o2  o3 = o3  f1 = f1  f2 = f2
    Blocks = {b0, c1, c2, o3}
    Block0 = b0
    Parent <- MCParent
    ChainLength <- MCLength
    BlockDate <- MCLength
    OwnBlocks = {o3}
    Fragments = {f1, f2}
    Size <- MCSize
    Expiring = {f2}
    ValidUntil <- MCValidUntil
    WellFormed = {f1, f2}
    MaxValidity = 2
    BlockFragments <- MCBlockFragments
    Requests <- MCRequests
    PoolMaxEntries = 2
    LogsMaxEntries = 2
    BlockContentMaxSize = 2
    MailboxSize = 2
    NoDate = NoDate
    None = None
    MaxDate = 3
INVARIANT RejectedNotInChain
