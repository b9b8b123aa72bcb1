CONSTANTS
    u0 = u0
    u1 = u1
    u2 = u2
    u3 = u3
    c0 = c0
    c1 = c1
    c2 = c2
    c3 = c3
    c4 = c4
    bytes = bytes
    objects = objects
    Uids = {u0, u1, u2, u3}
    Accounted = {u0}
    Slots = {bytes}
    Charges = {c1, c2, c3, c4}
    Maximum <- MCMaximum
    Amounts = {1, 4}
    MaxHolders = 1
    UintMax = 31
SPECIFICATION ASpec
SYMMETRY Symmetry
INVARIANTS
    BooksBalance
    RemotesCannotExhaust
    SmallSharesAreGranted
