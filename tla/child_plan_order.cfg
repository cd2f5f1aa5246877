SPECIFICATION Spec
CONSTANTS
    a = a
    b = b
    c = c
    Check = {a, b, c}
    NoCheck = NoCheck
    Position <- PlanPosition
    Upstream <- Fork
    Registered = TRUE
    Thread = {t1}
    Correction = {}
    Idle = Idle
    Rechecking = Rechecking
    Faults = {}
    MaxRevision = 3
CHECK_DEADLOCK FALSE
INVARIANT SavedIsResumable
