CONSTANTS
    a = a
    b = b
    c = c
    d = d
    Node = {a, b, c}
    Link <- Ear3
    K = 2
    TTL = 2
    DISCOVERY_INTERVAL_MIN = 1
    DISCOVERY_INTERVAL_MAX = 1
    NO_PURGE = FALSE
    EdgesPerPacket = 4
    MAX_NODES = 20
    MAX_EDGES = 1
    Lossy = FALSE
    Mortal = {}
    Late = {}
SPECIFICATION Spec
PROPERTIES
    OrphansPurged
