SPECIFICATION Spec
CONSTANTS
    Unallocated = unallocated
    Unmanaged = unmanaged
    Strategies = {s1}
    Outside = outside
    Handlers = {h1, h2}
    Consumer = consumer
    NoOne = NoOne
    Requests = {r1, r2}
    Orders = {o1}
    Moves <- FundMoves
    Ops = {"close", "order"}
SYMMETRY Symmetry
INVARIANTS TypeOK RequestsApplyOnce SerialBalancesAreSound
PROPERTIES RetiredStaysRetired
CHECK_DEADLOCK FALSE
