SPECIFICATION Spec
CONSTANTS
    o1 = o1
    o2 = o2
    None = None
    Torn = Torn
    Order <- MCOrder
    MaxEdits = 2
    MaxTLSEdits = 1
    MaxFaults = 0
INVARIANTS
    LastEditServed
CHECK_DEADLOCK FALSE
