\* Two pods and two events: calls, faults, or one of each.
CONSTANTS
    Pods = {p1, p2}
    First = p1
    Nobody = Nobody
    MaxCalls = 2
    MaxFaults = 2
    MaxEvents = 2
SPECIFICATION Spec
INVARIANTS TypeOK RunnersHoldLeases
PROPERTIES DoubleRunsEnd LiveSessionsRun DeadSessionsStop
