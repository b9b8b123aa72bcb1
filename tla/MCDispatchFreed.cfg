CONSTANTS
    controller = controller
    listener = listener
    c1 = c1
    c2 = c2
    EPOLLIN = EPOLLIN
    EPOLLOUT = EPOLLOUT
    EPOLLHUP = EPOLLHUP
    NoFile = NoFile
    Controller = controller
    Files = {controller, listener, c1}
    Listeners = {listener}
    KernelMask <- MCKernelMask
    InitMask <- MCInitMask
    Unasked = {EPOLLHUP}
    MaxCalls = 2
SPECIFICATION DSpec
INVARIANTS
    LinkedRegistered
CHECK_DEADLOCK FALSE
