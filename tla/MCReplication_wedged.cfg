CONSTANTS
    aws = aws
    b2 = b2
    Tags <- MCTags
    Hold <- HoldOne
    Release <- One
    Nested = FALSE
    Down = {}
    MaxSnapshots = 3
    MaxVolumes = 2
    Faults = {"contents"}
SPECIFICATION Spec
INVARIANTS
    NextContinues
