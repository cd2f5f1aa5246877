--------------------------- MODULE MCCheckFrontier ---------------------------
(* Bounds for model checking CheckFrontier.                                *)
EXTENDS CheckFrontier

\* No diagnostic, or one of every kind, alone or with another one.
FewDiagnostics ==
    LET some == [code : {"TERMINAL_WITNESS_STATUS_MISMATCH",
                         "POLICY_NOT_CONFIGURED", "OTHER"}, node : Node]
    IN  {{}} \cup {{d, e} : d \in some, e \in {f \in some : f.node # "later"}}
=============================================================================
