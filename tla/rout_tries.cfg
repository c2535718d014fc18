CONSTANTS
    a = a
    b = b
    c = c
    d = d
    m1 = m1
    m2 = m2
    Node = {a, b, c}
    View <- Meet
    Distance <- Square
    Msg = {m1, m2}
    Origin <- FromAAndB
    Target <- ToC
    packet_hash <- Distinct
    Hash <- Distincts
    InitialHash = InitialHash
    Nobody = Nobody
    MaxTransmissions = 2
    ROUTING_DEBUG = FALSE
    Lossy = FALSE
    Overlapping = TRUE
SPECIFICATION Spec
INVARIANTS
    TriesEnd
CHECK_DEADLOCK FALSE
