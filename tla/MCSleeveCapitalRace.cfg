SPECIFICATION Spec
CONSTANTS
    Unallocated = unallocated
    Unmanaged = unmanaged
    Strategies = {s1}
    Outside = outside
    Handlers = {h1, h2}
    Consumer = consumer
    NoOne = NoOne
    Requests = {r1}
    Orders = {}
    Moves <- BackMoves
    Ops = {"close"}
SYMMETRY Symmetry
INVARIANTS CorruptBalanceNeverLands
CHECK_DEADLOCK FALSE
