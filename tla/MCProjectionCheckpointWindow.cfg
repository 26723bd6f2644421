SPECIFICATION Spec
CONSTANTS
    Conns = {c1, c2}
    Pods = {p1}
    Window = 1
    MaxTxn = 1
    MaxRead = 0
    MaxSkew = 0
    MaxSeq = 2
    MaxTime = 4
SYMMETRY Symmetry
INVARIANT NeverPastInFlight

