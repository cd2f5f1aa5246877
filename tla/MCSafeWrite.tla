---------------------------- MODULE MCSafeWrite ----------------------------
(* Symmetry of the callers for model checking SafeWrite.                   *)
EXTENDS SafeWrite, TLC

CallerSymmetry == Permutations(Caller)
=============================================================================
