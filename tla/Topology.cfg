SPECIFICATION FairSpec
CONSTANTS
    Nodes = {n1, n2}
    Whitelist <- MCWhitelist
    PoolSize = 1
    ReportDuration = 2
    StuckCheck = 1
    MaxAttempts = 2
    MaxQuarantined = 2
INVARIANTS TypeOK AvailableExact QuarantinedCovers QuarantineIsTemporary
PROPERTIES Forgiven
