CONSTANTS
    w1 = w1
    odd = odd
    Nobody = Nobody
    WellKnown = {w1}
    Others = {odd}
    MaxPeers = 3
    MaxRefs = 2
    MaxTotal = 2
    MaxPins = 3
    Keys <- MCPeerKeys
    MonitorKeys <- MCNoKeys
SPECIFICATION Spec
INVARIANTS
    LinksAgree
CHECK_DEADLOCK FALSE
