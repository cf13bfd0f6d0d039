CONSTANTS
    Requests = {r1, r2, r3}
    PartSize = 2
    VolumeSize = 3
    Lengths = {1, 4, 7}
    Faults = {"create", "part", "complete", "lost", "source", "cancel", "empty"}
SPECIFICATION FairSpec
INVARIANTS
    AbortLeavesNothing
PROPERTIES
    Terminates
    WorkersStop
