SPECIFICATION FairSpec
CONSTANTS
    Cap = 3
    Budget = 5
    Strict = FALSE
    MaxSubmit = 2
    Diagnostics <- FewDiagnostics
CHECK_DEADLOCK FALSE
INVARIANTS
    CommitIsVerified
    RejectedStaysOut
PROPERTIES
    Terminates
