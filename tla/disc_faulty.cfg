CONSTANTS
    a = a
    b = b
    c = c
    d = d
    Node = {a, b, c}
    Link <- Ring3
    K = 3
    TTL = 3
    DISCOVERY_INTERVAL_MIN = 1
    DISCOVERY_INTERVAL_MAX = 1
    NO_PURGE = FALSE
    EdgesPerPacket = 4
    MAX_NODES = 20
    MAX_EDGES = 100
    Lossy = TRUE
    Mortal = {a}
    Late = {a}
SPECIFICATION TimedSpec
INVARIANTS
    AgeBound
    NoStaleEdge
    OneRecordPerEdge
PROPERTIES
    GossipNeverShortens
    DeadForgotten
