\* A session that holds shares restarts.
CONSTANTS
    Orders = {o1}
    Nobody = Nobody
    Qty = 1
    Remembered = 1
    MaxSignals = 1
    MaxOthers = 0
    MaxFaults = 1
SPECIFICATION Spec
PROPERTY PositionsAreRecovered
CHECK_DEADLOCK FALSE
