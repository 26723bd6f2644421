SPECIFICATION Spec
CONSTANTS
    Buys = {b1, b2}
    Sells = {s1, s2}
    Garbage = {g}
    Pods = {p1, p2}
    Nobody = Nobody
    MaxEntries = 3
    MaxFaults = 1
INVARIANTS TypeOK BookedOnce BasisIsFifo NoFillLost
PROPERTIES EntriesAreHandled
CHECK_DEADLOCK FALSE
