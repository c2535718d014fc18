CONSTANTS
    a = a
    b = b
    c = c
    d = d
    m1 = m1
    m2 = m2
    Node = {a, b, c, d}
    View <- Gap
    Distance <- Square
    Msg = {m1, m2}
    Origin <- FromA
    Target <- ToCAndD
    packet_hash <- Distinct
    Hash <- Distincts
    InitialHash = InitialHash
    Nobody = Nobody
    MaxTransmissions = 3
    ROUTING_DEBUG = FALSE
    Lossy = TRUE
    Overlapping = FALSE
SPECIFICATION FairSpec
INVARIANTS
    AtMostOnce
PROPERTIES
    DiesOut
CHECK_DEADLOCK FALSE
