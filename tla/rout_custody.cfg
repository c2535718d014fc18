CONSTANTS
    a = a
    b = b
    c = c
    d = d
    m1 = m1
    m2 = m2
    Node = {a, b, c, d}
    View <- Shifting
    Distance <- Square
    Msg = {m1, m2}
    Origin <- FromAAndB
    Target <- ToD
    packet_hash <- Zero
    Hash <- Distincts
    InitialHash = InitialHash
    Nobody = Nobody
    MaxTransmissions = 2
    ROUTING_DEBUG = TRUE
    Lossy = TRUE
    Overlapping = TRUE
SPECIFICATION Spec
INVARIANTS
    TypeOK
    Custody
CHECK_DEADLOCK FALSE
