----------------------------- MODULE MCEventLog ------------------------------
(* Bounds for model checking EventLog.                                     *)
EXTENDS EventLog, TLC

CONSTANT LooseLines     \* bound on the lines once a worker is loose

Calls == Permutations(Call)
LooseIsShort == Attended \/ Len(file) <= LooseLines
=============================================================================
