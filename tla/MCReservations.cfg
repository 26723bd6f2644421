SPECIFICATION Spec
CONSTANTS
    MaxOrder = 3
    Tracked = 2
    MaxLate = 1
INVARIANTS TypeOK ReservedIsPending NoOrphanReservation ResumedUntilEviction
CHECK_DEADLOCK FALSE
