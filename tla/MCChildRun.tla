----------------------------- MODULE MCChildRun -----------------------------
(* Plans and constants for model checking ChildRun.                        *)
EXTENDS ChildRun, TLC

CONSTANTS a, b, c

\* The plan of test_batch_transactions: c consumes b, a stands alone.
Fork == [x \in Check |-> IF x = c THEN {b} ELSE {}]
\* c consumes b, b consumes a: plan order is forced.
Chain == [x \in Check |-> CASE x = a -> {} [] x = b -> {a} [] x = c -> {b}]
PlanPosition == [x \in Check |-> CASE x = a -> 1 [] x = b -> 2 [] x = c -> 3]

\* Worker threads are interchangeable; used by runs of safety properties only.
ThreadSymmetry == Permutations(Thread)
=============================================================================
