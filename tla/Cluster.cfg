SPECIFICATION FairSpec
CONSTANTS
    k1 = k1
    k2 = k2
    k3 = k3
    Key = {k1, k2, k3}
    Volatile = {k1}
    N = 2
    Hash <- MCHash
    TooBig <- MCTooBig
    MaxReq = 3
    MaxCrash = 1
    Null = Null
INVARIANTS
    KeyPlacement
PROPERTIES
    KeysBracketed
    ImplementsAtomicStore
    RequestEnds
CHECK_DEADLOCK FALSE
