CONSTANTS
    w1 = w1
    odd = odd
    Nobody = Nobody
    WellKnown = {w1}
    Others = {odd}
    MaxPeers = 3
    MaxRefs = 2
    MaxTotal = 2
    MaxPins = 2
    Keys <- MCKeys
    MonitorKeys <- MCMonitorKeys
    Node = {1, 2, 3, 4, 5, 6, 7}
    MaxWalks = 1
    Head1 = h1
    Head2 = h2
    Element = {e1, e2, e3, e4}
    DepthMax = 6
    LengthMax = 13
    PageSize = 8
    Junk = 255
    SigChars = {"s", "v", "a", "(", ")", "{", "}"}
    SigSeeds <- WireSeeds
    MaxSig = 4
    MaxLog = 6
    DamageBytes = {0, 1, 5}
    Bodies <- WireBodies
    VariantTypes <- WireVariants
    Values <- WireValues
    SizeMax = 200
    Headers <- MessageHeaders
    Senders = {"1", "2"}
    MDamageBytes = {0, 1, 9, 115}
    RecvMax = 4
    LineMax = 8
    HeaderSize = 2
    BodySize <- QueueBodies
    Lines = 1
    Streams <- QueueStreams
SPECIFICATION RulesSpec
CHECK_DEADLOCK FALSE
INVARIANTS
    RulesSound
    DeliveredExactly
    TreeSound
    SignaturesAgree
    MarshallingSound
    MessageIntact
    InputIntact
    PinnedIsCharged
PROPERTIES
    ImplementsLists
