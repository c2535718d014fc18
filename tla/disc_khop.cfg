CONSTANTS
    a = a
    b = b
    c = c
    d = d
    Node = {a, b, c, d}
    Link <- Ear4
    K = 2
    TTL = 7
    DISCOVERY_INTERVAL_MIN = 1
    DISCOVERY_INTERVAL_MAX = 1
    NO_PURGE = TRUE
    EdgesPerPacket = 4
    MAX_NODES = 20
    MAX_EDGES = 100
    Lossy = FALSE
    Mortal = {}
    Late = {}
SPECIFICATION FairSpec
INVARIANTS
    KHopBound
PROPERTIES
    TimePasses
