\* A terminal event goes by while the stream or the runner is down.
CONSTANTS
    Orders = {o1}
    Nobody = Nobody
    Qty = 1
    Remembered = 1
    MaxSignals = 1
    MaxOthers = 0
    MaxFaults = 1
SPECIFICATION Spec
PROPERTY EndedOrdersSettle
CHECK_DEADLOCK FALSE
