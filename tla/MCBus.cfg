CONSTANTS
    n1 = n1
    a = a
    b = b
    c = c
    m1 = m1
    m2 = m2
    m3 = m3
    None = None
    Names = {n1}
    Owners = {a, b, c}
    Messages = {m1, m2, m3}
    From <- MCFrom
    Serial <- MCSerial
    MaxIds = 2
SPECIFICATION BFairSpec
CHECK_DEADLOCK FALSE
INVARIANTS
    CallsRemembered
    BusSound
PROPERTIES
    OnlyOwnFailureCancels
    NobodyWaitsForTheGone
