SPECIFICATION Spec
CONSTANTS
    Nodes = {n1, n2}
    Kinds = {"block"}
    BlockKind = "block"
    Conns = {c1, c2}
    Capacity = 2
    MaxClients = 1
    MaxGauge = 3
INVARIANT ClientsBounded
