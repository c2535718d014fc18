CONSTANTS
    r = r
    a = a
    b = b
    c = c
    d = d
    NULL = NULL
    self = r
    K = 3
    TTL = 2
    EdgesPerPacket = 1
    MAX_NODES = 4
    MAX_EDGES = 4
    Incoming <- Heard
    Delays = {1}
    UINT16 = 2
    ULONG = 4
    MallocMayFail = FALSE
SPECIFICATION FairSpec
INVARIANTS
    PoolsConsistent
    HopsInBounds
    HopsRight
PROPERTIES
    Implements
    Returns
