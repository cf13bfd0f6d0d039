CONSTANTS
    Requests = {r1, r2}
    PartSize = 2
    VolumeSize = 3
    Lengths = {4}
    Faults = {"create", "part", "source", "cancel"}
SPECIFICATION FairSpec
INVARIANTS
    FailureLeavesNothing
