CONSTANTS
    Retries = 3
    Timeout = 2
    Validity = 3
    Faults = {"form", "refuse", "busy", "lost", "cut", "cancel"}
SPECIFICATION FairSpec
INVARIANTS
    Invariant
    GivesUpLast
    NeverStale
PROPERTIES
    ImplementsCall
    Returns
