SPECIFICATION Spec
CONSTANTS
    Conns = {c1, c2}
    Pods = {p1, p2}
    Window = 2
    MaxTxn = 1
    MaxRead = 0
    MaxSkew = 0
    MaxSeq = 2
    MaxTime = 4
SYMMETRY Symmetry
INVARIANTS TypeOK NeverPastInFlight CheckpointIsReplay InTransactionIsReplay StoredIsComplete
PROPERTY StoredOnlyAdvances
