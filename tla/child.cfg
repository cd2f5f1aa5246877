SPECIFICATION FairSpec
CONSTANTS
    a = a
    b = b
    c = c
    Check = {a, b, c}
    NoCheck = NoCheck
    Position <- PlanPosition
    Upstream <- Fork
    Registered = FALSE
    Thread = {t1}
    Correction = {k1, k2}
    Idle = Idle
    Rechecking = Rechecking
    Faults = {"crash", "store"}
    MaxRevision = 3
CHECK_DEADLOCK FALSE
INVARIANTS
    ExhaustedStops
PROPERTIES
    AppendOnly
    WorkEnds
