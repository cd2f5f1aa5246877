---------------------------- MODULE ActionLedger ----------------------------
(***************************************************************************)
(* What execute_proposal_once promises about a proposal's actions 1 .. N:  *)
(* an attempt is recorded before the action is called, each action is      *)
(* called at most once and only after all earlier ones are established,    *)
(* an established action stays established, and the receipt is issued      *)
(* when all are.  An attempt that is never established blocks the rest.    *)
(***************************************************************************)
EXTENDS Naturals

CONSTANT N

VARIABLES recorded, called, established, issued

ledger == <<recorded, called, established, issued>>

Init == recorded = {} /\ called = {} /\ established = {} /\ issued = FALSE

\* The next action is the first one not recorded; the earlier ones are done.
Record(i) ==
    /\ recorded = 1 .. i - 1 /\ established = recorded
    /\ recorded' = recorded \cup {i}
    /\ UNCHANGED <<called, established, issued>>

Call(i) ==
    /\ i \in recorded \ (called \cup established)
    /\ called' = called \cup {i}
    /\ UNCHANGED <<recorded, established, issued>>

Establish(i) ==
    /\ i \in called \ established
    /\ established' = established \cup {i}
    /\ UNCHANGED <<recorded, called, issued>>

Issue ==
    /\ established = 1 .. N
    /\ issued' = TRUE
    /\ UNCHANGED <<recorded, called, established>>

Next == Issue \/ \E i \in 1 .. N : Record(i) \/ Call(i) \/ Establish(i)

Spec == Init /\ [][Next]_ledger
=============================================================================
