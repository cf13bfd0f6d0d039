CONSTANTS
    FileSystem = 1
    Sizes <- MCSizes
    Neighbours <- MCNeighbours
    PartSize = 2
    PageSize = 2
    Faults = {"settings", "call", "receive", "cancel", "lost", "send"}
SPECIFICATION FairSpec
INVARIANTS
    Invariant
    InOrder
    OkIsAll
    ListingVerifies
PROPERTIES
    Returns
