SPECIFICATION FairSpec
CONSTANTS
    Node <- MCNode
    Hash <- MCHash
    InitSlots = 2
    LoadFactor = 1
    RehashWork = 1
INVARIANTS ScanInBounds LoadBounded
PROPERTIES ImplementsKeySet HelpEnds
