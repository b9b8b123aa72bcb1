CONSTANTS
    n1 = n1
    n2 = n2
    p1 = p1
    p2 = p2
    p3 = p3
    u = u
    None = None
    Names <- MCNames
    Owners <- MCOwners
    Users <- MCUsers
    UserOf <- MCUserOf
    FlagSets <- MCFlagSets
    MaxObjects = 4
SPECIFICATION NSpec
SYMMETRY Symmetry
CHECK_DEADLOCK FALSE
INVARIANTS
    SignalsTruthful
    NInv
PROPERTIES
    FirstComeFirstServed
    ImplementsNameOwners
