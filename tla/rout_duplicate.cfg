CONSTANTS
    a = a
    b = b
    c = c
    d = d
    m1 = m1
    m2 = m2
    Node = {a, b, c}
    View <- Meet
    Distance <- Square
    Msg = {m1, m2}
    Origin <- FromAAndC
    Target <- ToB
    packet_hash <- Distinct
    Hash <- Distincts
    InitialHash = InitialHash
    Nobody = Nobody
    MaxTransmissions = 2
    ROUTING_DEBUG = FALSE
    Lossy = TRUE
    Overlapping = TRUE
SPECIFICATION Spec
INVARIANTS
    ReceivedIgnored
CHECK_DEADLOCK FALSE
