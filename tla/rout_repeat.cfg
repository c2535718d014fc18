CONSTANTS
    a = a
    b = b
    c = c
    d = d
    m1 = m1
    m2 = m2
    Node = {a, b, c}
    View <- Meet
    Distance <- Square
    Msg = {m1, m2}
    Origin <- FromA
    Target <- ToC
    packet_hash <- SameData
    Hash <- SameDatas
    InitialHash = InitialHash
    Nobody = Nobody
    MaxTransmissions = 2
    ROUTING_DEBUG = FALSE
    Lossy = FALSE
    Overlapping = FALSE
SPECIFICATION Spec
PROPERTIES
    IgnoredReceived
CHECK_DEADLOCK FALSE
