\* One order, signalled twice, with three faults.
CONSTANTS
    Orders = {o1}
    Nobody = Nobody
    Qty = 2
    Remembered = 1
    MaxSignals = 2
    MaxOthers = 1
    MaxFaults = 3
SPECIFICATION Spec
INVARIANTS TypeOK  FillIsFinal PositionIsTold
PROPERTIES SeenEndsSettle 
CHECK_DEADLOCK FALSE
