CONSTANTS
    controller = controller
    listener = listener
    c1 = c1
    c2 = c2
    EPOLLIN = EPOLLIN
    EPOLLOUT = EPOLLOUT
    EPOLLHUP = EPOLLHUP
    NoFile = NoFile
    Controller = controller
    Files = {controller, listener, c1}
    Listeners = {listener}
    KernelMask <- MCKernelMask
    InitMask <- MCInitMask
    Unasked = {EPOLLHUP}
    MaxCalls = 2
    m1 = m1
    m2 = m2
    m3 = m3
    Messages = {m1, m2, m3}
    WithFds = {m3}
    Length <- MCLength
    MaxSent = 2
    MmsgMax = 2
    MaxQueued = 1
    MaxBehind = 8
SPECIFICATION ConnectionSpec
INVARIANTS
    ListsSound
    NoLostEvent
    ReleasedWhenDone
    StreamIntact
    OnlyProvenUids
    FdsOnlyWhenProven
    HonestIsUnderstood
PROPERTIES
    ServedInTurn
    ClosedIsFreed
    HonestSucceeds
CHECK_DEADLOCK FALSE
