CONSTANTS
    aws = aws
    b2 = b2
    Tags <- MCTags
    Hold <- HoldOne
    Release <- Shared
    Nested = FALSE
    Down = {}
    MaxSnapshots = 3
    MaxVolumes = 2
    Faults = {"call", "contents", "crash", "hold", "window", "destroy"}
SPECIFICATION Spec
INVARIANTS
    Invariant
    Restorable
    AlwaysVerifies
PROPERTIES
    ImplementsReplica
    WriteOnce
    NewestKeepsHolds
