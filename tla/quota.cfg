\* Two instances with stale copies, two administrators who may write over each other, the watch, one fault.
CONSTANTS
    i1 = i1
    i2 = i2
    a1 = a1
    a2 = a2
    Instances = {i1, i2}
    Admins = {a1, a2}
    Amounts = {10}
    Costs = {9, 11}
    TTL = 2
    MaxEdits = 2
    MaxCalls = 2
    Faults = {"ack", "list", "mail", "save", "stop"}
    MaxFaults = 1
SPECIFICATION Spec
CHECK_DEADLOCK FALSE
SYMMETRY Alike
INVARIANTS
    HistoryIsWhole
    SpentIsToldOnce
PROPERTIES
    VerdictsFollowTheKey
