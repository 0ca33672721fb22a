SPECIFICATION FairSpec
CONSTANTS
    Nodes = {n1, n2}
    Kinds = {"block"}
    BlockKind = "block"
    Conns = {c1, c2}
    Capacity = 1
    MaxClients = 1
    MaxGauge = 3
INVARIANTS TypeOK GaugeCovers PendingIsWatched HandlesAlive
PROPERTY PendingResolved
