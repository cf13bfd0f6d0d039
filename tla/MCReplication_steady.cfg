CONSTANTS
    aws = aws
    b2 = b2
    Tags <- MCTags
    Hold <- HoldBoth
    Release <- Between
    Nested = FALSE
    Down = {2}
    MaxSnapshots = 3
    MaxVolumes = 2
    Faults = {"destroy", "below", "release"}
SPECIFICATION FairSpec
INVARIANTS
    BaseKept
    NextContinues
PROPERTIES
    CatchesUp
