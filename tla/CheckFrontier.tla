---------------------------- MODULE CheckFrontier ----------------------------
(***************************************************************************)
(* _run_check_frontier of compiler_runtime/runtime.py: the transaction     *)
(* around one CHECK, with the two model phases it calls, execute_plan and  *)
(* verify, and the Kernel gate _frontier_kernel_failures.  ChildRun takes  *)
(* it as one step that commits, rolls back, pauses or fails.               *)
(*                                                                         *)
(* The Executor writes into the sandbox of its conversation, a deep copy   *)
(* of the committed one that is shared by all attempts; the candidate is   *)
(* a reference, to that copy or to the committed sandbox itself.  Both are *)
(* kept in a heap so that the sharing is part of the model.  A sandbox is  *)
(* its version, a fresh number for every change, and the number of         *)
(* submissions of this CHECK.                                              *)
(***************************************************************************)
EXTENDS Naturals

CONSTANTS
    Cap,        \* CHECK_FRONTIER_ATTEMPT_CAP
    Budget,     \* CHECK_MODEL_CALL_BUDGET
    Strict,     \* the CHECK runs a registered resolver program
    MaxSubmit,  \* bound on the submissions of one Executor call
    Diagnostics \* the sets of Kernel diagnostics explored

Node == {"focus", "committed", "later", "artifact"}
Code == {"TERMINAL_WITNESS_STATUS_MISMATCH", "POLICY_NOT_CONFIGURED",
         "KERNEL_RESULT_MISMATCH", "COMMITTED_CHECK_CHANGED", "OTHER"}
Diagnostic == [code : Code, node : Node]

ASSUME FrontierAssumption ==
    /\ Cap \in Nat \ {0}
    /\ Budget \in Nat
    /\ Strict \in BOOLEAN
    /\ MaxSubmit \in Nat
    /\ Diagnostics \subseteq SUBSET Diagnostic

VARIABLES
    pc,         \* where the transaction is, or how it ended
    attempt,    \* attempts_used
    owner,      \* repair_owner
    feedback,   \* there is feedback for the next phase
    remaining,  \* the model calls left
    heap,       \* the committed sandbox and the conversation's copy
    conv,       \* conversation.sandbox
    cand,       \* candidate_sandbox
    assessed,   \* the version the last assessment is about
    rejected,   \* versions whose terms the Verifier or the Kernel refused
    clock       \* the last version given out

vars == <<pc, attempt, owner, feedback, remaining, heap, conv, cand,
          assessed, rejected, clock>>

Final == {"committed", "rolled_back", "paused", "fatal"}
PC == {"start", "execute", "verify", "kernel", "rollback"} \cup Final
Object == {"base", "copy"}
Sandbox == [version : Nat, subs : Nat]

TypeOK ==
    /\ pc \in PC
    /\ attempt \in 0 .. Cap
    /\ owner \in {"executor", "verifier"}
    /\ feedback \in BOOLEAN
    /\ remaining \in 0 .. Budget
    /\ heap \in [Object -> Sandbox]
    /\ conv \in Object \cup {"none"}
    /\ cand \in Object \cup {"none"}
    /\ assessed \in Nat
    /\ rejected \subseteq Nat
    /\ clock \in Nat

-----------------------------------------------------------------------------
(* The Kernel gate                                                         *)

\* A diagnostic of an unconfigured policy is admitted where the assessment
\* and the result both declare that gap.
Admissible(d, gaps) == d.code = "POLICY_NOT_CONFIGURED" /\ d.node \in gaps

\* _frontier_kernel_failures: what the replay says about the artifact, this
\* CHECK and the committed ones; CHECKs still to come do not count.
Failures(diagnostics, gaps, projected, changed) ==
    {d \in diagnostics : d.node # "later" /\ ~Admissible(d, gaps)}
    \cup (IF projected THEN {}
          ELSE {[code |-> "KERNEL_RESULT_MISMATCH", node |-> "focus"]})
    \cup (IF changed THEN {[code |-> "COMMITTED_CHECK_CHANGED", node |-> "committed"]}
          ELSE {})

RepairOwner(failures) ==
    IF \A d \in failures : d.code = "TERMINAL_WITNESS_STATUS_MISMATCH"
    THEN "verifier" ELSE "executor"

-----------------------------------------------------------------------------
Init ==
    /\ pc = "start"
    /\ attempt = 0
    /\ owner = "executor"
    /\ feedback \in BOOLEAN     \* a recheck may have left some
    /\ remaining = Budget
    /\ heap = [o \in Object |-> [version |-> 0, subs |-> 0]]
    /\ conv = "none" /\ cand = "none"
    /\ assessed = 0
    /\ rejected = {}
    /\ clock = 0

\* The attempt ends and who repairs the candidate goes next.
Retry(who) ==
    /\ pc' = "start"
    /\ owner' = who
    /\ feedback' = TRUE

\* _run_phase: one call is charged, however many transport attempts it takes.
CallModel ==
    /\ remaining > 0
    /\ remaining' = remaining - 1

\* Mutant of StartAttempt: one attempt too many.
StartOneMore ==
    /\ pc = "start"
    /\ attempt <= Cap
    /\ attempt' = attempt + 1
    /\ pc' = IF owner = "executor" THEN "execute" ELSE "verify"
    /\ UNCHANGED <<owner, feedback, remaining, heap, conv, cand, assessed, rejected, clock>>

StartAttempt ==
    /\ pc = "start"
    /\ attempt < Cap
    /\ attempt' = attempt + 1
    /\ pc' = CASE attempt = 0 \/ owner = "executor" -> "execute"
               [] owner = "verifier" /\ cand # "none" -> "verify"
               [] OTHER -> "start"
    /\ UNCHANGED <<owner, feedback, remaining, heap, conv, cand, assessed, rejected, clock>>

-----------------------------------------------------------------------------
(* execute_plan                                                            *)

\* Mutant of OpenConversation: the conversation works on the executor base.
OpenShared == IF conv = "none" THEN "base" ELSE conv

\* The conversation is created by the first attempt, on a deep copy.
OpenConversation == IF conv = "none" THEN "copy" ELSE conv

\* candidate_sandbox or sandbox
ExecutorBase == IF cand = "none" THEN "base" ELSE cand

\* A strict program takes no feedback and fails before the model is called.
MayExecute == pc = "execute" /\ ~(Strict /\ feedback)

\* What the tools wrote and submitted: the conversation's sandbox with n
\* submissions more, as a new version if anything was written.
Written(n, wrote) ==
    [version |-> IF wrote THEN clock + 1 ELSE heap[OpenConversation].version,
     subs |-> heap[OpenConversation].subs + n]

Write(n, wrote) ==
    /\ n > 0 => wrote
    /\ heap' = [heap EXCEPT ![OpenConversation] = Written(n, wrote)]
    /\ conv' = OpenConversation
    /\ clock' = IF wrote THEN clock + 1 ELSE clock

\* Mutant of Submitted: a submission of an earlier attempt is enough.
SubmittedBefore(n, wrote) == Written(n, wrote).subs >= heap[ExecutorBase].subs

Submitted(n, wrote) == Written(n, wrote).subs > heap[ExecutorBase].subs

\* The phase ends with a summary, of all or part of the work; a protocol error
\* counts as such when something was submitted.  Without a new submission the
\* attempt is over.
ExecutorReturns ==
    /\ MayExecute
    /\ CallModel
    /\ \E n \in 0 .. MaxSubmit, wrote \in BOOLEAN :
         /\ Write(n, wrote)
         /\ IF Submitted(n, wrote)
            THEN pc' = "verify" /\ UNCHANGED <<owner, feedback>>
            ELSE Retry("executor")
    /\ cand' = OpenConversation
    /\ UNCHANGED <<attempt, assessed, rejected>>

\* A protocol error and nothing submitted: what was written stays in the
\* conversation, and in the candidate if it is the same sandbox.
ExecutorFails ==
    /\ MayExecute
    /\ CallModel
    /\ \E wrote \in BOOLEAN : Write(0, wrote)
    /\ Retry("executor")
    /\ UNCHANGED <<attempt, cand, assessed, rejected>>

\* The candidate crossed the CHECK's write scope: the conversation goes on
\* with a new copy of the committed sandbox, which is returned itself.
ExecutorLeavesScope ==
    /\ MayExecute
    /\ CallModel
    /\ heap' = [heap EXCEPT !["copy"] = heap["base"]]
    /\ conv' = "copy"
    /\ cand' = "base"
    /\ clock' = clock + 1
    /\ Retry("executor")
    /\ UNCHANGED <<attempt, assessed, rejected>>

-----------------------------------------------------------------------------
(* verify                                                                  *)

\* Mutant of VerifierAssesses: the first assessment of the CHECK is kept.
VerifierRemembers ==
    /\ pc = "verify"
    /\ CallModel
    /\ assessed' = IF assessed # 0 THEN assessed ELSE heap[cand].version
    /\ pc' = "kernel"
    /\ UNCHANGED <<attempt, owner, feedback, heap, conv, cand, rejected, clock>>

\* The Verifier assesses the candidate and does not refuse its terms.
VerifierAssesses ==
    /\ pc = "verify"
    /\ CallModel
    /\ assessed' = heap[cand].version
    /\ pc' = "kernel"
    /\ UNCHANGED <<attempt, owner, feedback, heap, conv, cand, rejected, clock>>

\* Mutant of VerifierRejects: the Verifier is asked again.
VerifierAskedAgain ==
    /\ pc = "verify"
    /\ CallModel
    /\ rejected' = rejected \cup {heap[cand].version}
    /\ Retry("verifier")
    /\ UNCHANGED <<attempt, heap, conv, cand, assessed, clock>>

\* NOT_FOUND although the latest submission holds terms: they were refused.
VerifierRejects ==
    /\ pc = "verify"
    /\ CallModel
    /\ rejected' = rejected \cup {heap[cand].version}
    /\ Retry("executor")
    /\ UNCHANGED <<attempt, heap, conv, cand, assessed, clock>>

VerifierFails ==
    /\ pc = "verify"
    /\ CallModel
    /\ Retry("verifier")
    /\ UNCHANGED <<attempt, heap, conv, cand, assessed, rejected, clock>>

-----------------------------------------------------------------------------
(* The gate and the ends                                                   *)

Replay ==
    /\ pc = "kernel"
    /\ \E diagnostics \in Diagnostics, gaps \in SUBSET {"focus", "committed"},
          projected, changed \in BOOLEAN :
         LET failures == Failures(diagnostics, gaps, projected, changed)
         IN  CASE failures = {} ->
                    pc' = "committed" /\ UNCHANGED <<owner, feedback, rejected>>
               [] \E d \in failures : d.node = "artifact" ->
                    pc' = "fatal" /\ UNCHANGED <<owner, feedback, rejected>>
               [] OTHER ->
                    /\ Retry(RepairOwner(failures))
                    /\ rejected' = IF RepairOwner(failures) = "executor"
                                   THEN rejected \cup {assessed} ELSE rejected
    /\ UNCHANGED <<attempt, remaining, heap, conv, cand, assessed, clock>>

\* _CheckBudgetExhausted leaves the loop.
BudgetExhausted ==
    /\ pc \in {"execute", "verify"}
    /\ remaining = 0
    /\ pc' = "rollback"
    /\ UNCHANGED <<attempt, owner, feedback, remaining, heap, conv, cand, assessed, rejected, clock>>

AttemptsUsed ==
    /\ pc = "start"
    /\ attempt = Cap
    /\ pc' = "rollback"
    /\ UNCHANGED <<attempt, owner, feedback, remaining, heap, conv, cand, assessed, rejected, clock>>

\* Mutant of RollBack: the transaction starts over.
RollBackRestarts ==
    /\ pc = "rollback"
    /\ pc' = "start"
    /\ attempt' = 0
    /\ remaining' = Budget
    /\ UNCHANGED <<owner, feedback, heap, conv, cand, assessed, rejected, clock>>

\* The committed sandbox is returned; the child pauses the run on this event.
RollBack ==
    /\ pc = "rollback"
    /\ pc' = "rolled_back"
    /\ UNCHANGED <<attempt, owner, feedback, remaining, heap, conv, cand, assessed, rejected, clock>>

\* An error no model call can repair, in the Executor, Verifier or Kernel; the
\* tools may have written before it.
Fail ==
    /\ pc \in {"execute", "verify", "kernel"}
    /\ pc' = "fatal"
    /\ IF MayExecute THEN \E wrote \in BOOLEAN : Write(0, wrote)
       ELSE UNCHANGED <<heap, conv, clock>>
    /\ UNCHANGED <<attempt, owner, feedback, remaining, cand, assessed, rejected>>

\* The parent cancelled and the next progress event raises the pause; that of
\* a candidate which passed every gate does so before it is returned.
Pause ==
    /\ pc \in {"start", "execute", "verify", "kernel", "rollback"}
    /\ pc' = "paused"
    /\ UNCHANGED <<attempt, owner, feedback, remaining, heap, conv, cand, assessed, rejected, clock>>

-----------------------------------------------------------------------------
Executor == ExecutorReturns \/ ExecutorFails \/ ExecutorLeavesScope
Verifier == VerifierAssesses \/ VerifierRejects \/ VerifierFails

Step ==
    \/ StartAttempt \/ Executor \/ Verifier \/ Replay
    \/ BudgetExhausted \/ AttemptsUsed \/ RollBack \/ Fail

Next == Step \/ Pause

Spec == Init /\ [][Next]_vars

\* Model calls return and the loop goes on.
FairSpec == Spec /\ WF_vars(Step)

-----------------------------------------------------------------------------
(* Properties                                                              *)

(* The Verifier only ever judges a private candidate that holds a submission
   of this transaction, never the committed sandbox that a candidate out of
   scope leaves behind; the guard against a missing candidate is never needed. *)
VerifierSeesSubmission ==
    pc \in {"verify", "kernel", "committed"} =>
        cand = "copy" /\ heap["copy"].subs > heap["base"].subs

(* What is committed is what was assessed: the Executor writes into the
   candidate in place, and still no write falls between the assessment and the
   commit, nor does an earlier assessment count for a later candidate. *)
CommitIsVerified == pc = "committed" => heap[cand].version = assessed

(* A candidate whose terms the Verifier or the Kernel refused is never
   committed later unless the Executor changed it: asking again is not a way
   through the gate. *)
RejectedStaysOut == pc = "committed" => heap[cand].version \notin rejected

(* A phase that is about to call a model has spent less than two calls for
   every attempt so far, whoever repairs and however transport is retried; with
   the two calls per attempt of the code no phase finds the budget empty. *)
BudgetSuffices ==
    pc \in {"execute", "verify"} => Budget < remaining + 2 * attempt

(* "Private candidate sandbox": whatever the phases do, the committed sandbox
   the run falls back to is not changed. *)
CommittedSandboxUntouched == [][heap'["base"] = heap["base"]]_vars

(* Liveness: the transaction ends, however the gates decide. *)
Terminates == <>(pc \in Final)
=============================================================================
