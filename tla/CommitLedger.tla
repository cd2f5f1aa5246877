--------------------------- MODULE CommitLedger ---------------------------
(***************************************************************************)
(* What the batch transaction promises of a review: a ledger of verdicts   *)
(* that grows by dependency-closed batches, that no later batch rewrites,  *)
(* and that only a recheck opens again, together with all that rests on    *)
(* the rechecked CHECK.                                                    *)
(***************************************************************************)
CONSTANTS Checks, Upstream, Verdicts, Open

VARIABLE verdict  \* the committed verdict of each CHECK, or Open

Committed == {c \in Checks : verdict[c] # Open}

\* The CHECKs that rest directly on one of S
Dependents(S) == {c \in Checks : Upstream[c] \cap S # {}}

Init == verdict = [c \in Checks |-> Open]

\* A batch adds CHECKs, each with its upstream, and leaves the others as they were
Commit(S) ==
  /\ S # {} /\ S \cap Committed = {}
  /\ \A c \in S : Upstream[c] \subseteq Committed \cup S
  /\ \A c \in S : verdict'[c] \in Verdicts
  /\ \A c \in Checks \ S : verdict'[c] = verdict[c]

\* A recheck opens a set no committed CHECK outside it rests on
Reopen(S) ==
  /\ S # {} /\ Dependents(S) \subseteq S
  /\ verdict' = [c \in Checks |-> IF c \in S THEN Open ELSE verdict[c]]

Next == \E S \in SUBSET Checks : Commit(S) \/ Reopen(S)

Spec == Init /\ [][Next]_verdict
=============================================================================
