SPECIFICATION Spec
CONSTANTS
    Faults = {}
    MaxOpens = 1
    MaxBinds = 0
    MaxLocals = 1
CHECK_DEADLOCK FALSE
INVARIANTS LocalOpenMatched
