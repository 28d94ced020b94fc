CONSTANTS
    r1 = r1
    r2 = r2
    o1 = o1
    o2 = o2
    g1 = g1
    g2 = g2
    p1 = p1
    p2 = p2
    p3 = p3
    NoGet = NoGet
    Other = Other
    Request <- MCRequest
    Op <- MCOp
    Get <- MCGet
    Peer <- MCPeer
    Blob = {0, 1, 2}
    Scenarios <- MCScenarios
    BlockSize = 2
    MaxBlobSize = 4
    MaxFaults = 2
SPECIFICATION Spec
INVARIANTS  DeletionQuiet RangeExact PaidOnce FetchFailureExplained
