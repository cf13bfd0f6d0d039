CONSTANTS
    Requests = {r1, r2, r3}
    PartSize = 2
    VolumeSize = 5
    Lengths = {1, 8}
    Faults = {"create", "part", "complete", "abort", "lost", "source", "cancel", "straggler", "cut"}
SPECIFICATION Spec
SYMMETRY Symmetry
INVARIANTS
    ObjectIntact
    PublishedOnlyWhole
    SentIsStored
    ListsAccepted
    Invariant
PROPERTIES
    ImplementsArchive
