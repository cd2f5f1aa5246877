SPECIFICATION Spec
CONSTANTS
    Caller = {c1, c2}
    N = 2
    Faults = {"crash", "store"}
CHECK_DEADLOCK FALSE
INVARIANTS
    AtMostOnce
    ReceiptMeansDone
PROPERTIES
    ImplementsLedger
SYMMETRY CallerSymmetry
