SPECIFICATION Spec
CONSTANTS
    Call = {c1, c2}
    Window = 2
    MaxLines = 4
    LooseLines = 2
    Faults = {"crash", "tear", "separator", "abandon"}
SYMMETRY Calls
CONSTRAINT LooseIsShort
CHECK_DEADLOCK FALSE
INVARIANTS
    PublishedAll
    FileOrdered
    InspectSeesNewest
    RevisionReady
PROPERTIES
    OnlyRevisionUnblocks
