SPECIFICATION Spec
CONSTANTS
    a = a
    b = b
    c = c
    Check = {a, b}
    NoCheck = NoCheck
    Position <- PlanPosition
    Upstream <- Chain
    Registered = TRUE
    Thread = {t1, t2}
    Correction = {k1}
    Idle = Idle
    Rechecking = Rechecking
    Faults = {"store", "abandon"}
    MaxRevision = 2
CHECK_DEADLOCK FALSE
INVARIANTS
    CompletedClosed
    SavedIsResumable
SYMMETRY ThreadSymmetry
