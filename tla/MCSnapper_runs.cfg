CONSTANTS
    Config <- OneConfig
    Below <- OneBelow
    Runs = {"timer", "manual"}
    Minute = 2
    Period = 1
    Stall = 1
    MaxTime = 6
    Faults = {"zfs", "crash", "destroy"}
SPECIFICATION Spec
INVARIANTS
    Inductive
    Spaced
    Current
CHECK_DEADLOCK FALSE
