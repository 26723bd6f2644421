SPECIFICATION Spec
CONSTANTS
    Buys = {b1}
    Sells = {s1}
    Garbage = {}
    Pods = {p1}
    Nobody = Nobody
    MaxEntries = 2
    MaxFaults = 1
PROPERTIES RedeliveryIsNoOp
CHECK_DEADLOCK FALSE
