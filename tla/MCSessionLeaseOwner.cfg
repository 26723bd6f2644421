\* Two pods, nothing fails.
CONSTANTS
    Pods = {p1, p2}
    First = p1
    Nobody = Nobody
    MaxCalls = 0
    MaxFaults = 0
    MaxEvents = 0
SPECIFICATION Spec
INVARIANT NeverDoubleRuns
