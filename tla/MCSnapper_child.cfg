CONSTANTS
    Config <- ChildConfig
    Below <- ChildBelow
    Runs = {"timer"}
    Minute = 2
    Period = 1
    Stall = 1
    MaxTime = 6
    Faults = {}
SPECIFICATION Spec
INVARIANTS
    Current
CHECK_DEADLOCK FALSE
