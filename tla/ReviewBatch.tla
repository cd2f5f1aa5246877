---------------------------- MODULE ReviewBatch ----------------------------
(***************************************************************************)
(* One evidence review, revision by revision: the batch transaction of the *)
(* compiler runtime over its evidence sandbox.  A revision restores the    *)
(* sandbox from the committed artifact, lets one Executor write candidate  *)
(* proof material for the remaining CHECKs, has one Verifier classify each *)
(* of them, and commits the dependency-closed part that the proof kernel   *)
(* (EvidenceGate) accepts.  Between revisions a person may ask for a       *)
(* CHECK to be reviewed again.                                             *)
(*                                                                         *)
(* The sandbox is private to a batch: a batch either replaces the artifact *)
(* or leaves it.  Checkpoint files, pauses and crashes are ChildRun's.     *)
(***************************************************************************)
EXTENDS EvidenceGate, Sequences

CONSTANTS Records,      \* sources that are structured records
          Candidate,    \* Candidate[c]: contents an Executor may submit for c
          Assessment,   \* Assessment[c]: what a Verifier may return for c
          MaxNew,       \* bound: new submissions of one batch
          MaxRevision   \* bound: revisions of the review

\* Submissions and assessments have the statuses and flags of their schemas
ASSUME ReviewAssumption ==
  /\ MaxNew \in Nat /\ MaxRevision \in Nat
  /\ \A c \in Checks : \A s \in Candidate[c] : s.note \in BOOLEAN
  /\ \A c \in Checks : \A a \in Assessment[c] :
       a # NoAssessment /\ a.status \in {"SUPPORTED", "CONTRADICTED", "NOT_FOUND"}

VARIABLES box,      \* the candidate EvidenceSandbox
          focus,    \* the CHECKs of the running batch, {} between batches
          base,     \* the committed artifact
          outcome,  \* how the last batch ended
          revision

vars == <<box, focus, base, outcome, revision>>

Committed == {c \in Checks : base.assess[c] # NoAssessment}
Remaining == Checks \ Committed

-----------------------------------------------------------------------------
(* Submissions of a sandbox: an append-only log, the last one active. *)

SubmissionsOf(b, c) == {i \in DOMAIN b.subs : b.subs[i].check = c}

\* latest_submissions
Latest(b, c) ==
  IF SubmissionsOf(b, c) = {} THEN NoSubmission
  ELSE LET i == CHOOSE i \in SubmissionsOf(b, c) : \A j \in SubmissionsOf(b, c) : j <= i
       IN [claims |-> b.subs[i].claims, bindings |-> b.subs[i].bindings,
           witnesses |-> b.subs[i].witnesses]

HasTerms(s) == s.claims \cup s.bindings \cup s.witnesses # {}

\* A batch starts from restored submissions only, so what it adds is not restored
NewSubs(b) == {i \in DOMAIN b.subs : ~b.subs[i].restored}
Answered == {b.check : b \in {box.subs[i] : i \in NewSubs(box)}}

-----------------------------------------------------------------------------
(* Artifacts. *)

\* The proof terms that the active submissions reach
ActiveClosure(b, sub) ==
  LET given == {c \in Checks : sub[c] # NoSubmission}
      bindings == {x \in b.bindings : x.id \in UNION {sub[c].bindings : c \in given}}
      witnesses == Lineage((UNION {sub[c].witnesses : c \in given})
                             \cup UNION {Ids(x.refs, "WITNESS") : x \in bindings})
  IN [bindings |-> bindings,
      witnesses |-> witnesses,
      claims |-> (UNION {sub[c].claims : c \in given})
                   \cup (UNION {Ids(x.refs, "CLAIM") : x \in bindings})
                   \cup Operands(witnesses, "CLAIM")]

\* _artifact: only the active closure is published, rejected history is not
Artifact(b, sub, assess) ==
  LET active == ActiveClosure(b, sub)
  IN [claims |-> b.claims \cap active.claims,
      witnesses |-> b.witnesses \cap active.witnesses,
      bindings |-> active.bindings,
      sub |-> sub,
      assess |-> assess]

\* EvidenceSandbox.from_artifact: reads and submission fingerprints do not survive
Restored(A) ==
  LET kept == {c \in Checks : Submitted(A, c)}
      order == CHOOSE f \in [1..Cardinality(kept) -> kept] :
                 \A c \in kept : \E i \in DOMAIN f : f[i] = c
  IN [reads |-> {}, claims |-> A.claims, witnesses |-> A.witnesses,
      bindings |-> A.bindings,
      subs |-> [i \in 1..Cardinality(kept) |->
                  [check |-> order[i], claims |-> A.sub[order[i]].claims,
                   bindings |-> A.sub[order[i]].bindings,
                   witnesses |-> A.sub[order[i]].witnesses,
                   note |-> FALSE, restored |-> TRUE]]]

\* _validate_checkpoint_proof_closure: what a resume demands of the saved artifact
ProofClosed(A) ==
  \A c \in Checks : A.assess[c] # NoAssessment =>
    /\ Submitted(A, c)
    /\ Passes(A, c)
    /\ NodeResult(A, c).status = A.assess[c].status

Blank == [claims |-> {}, witnesses |-> {}, bindings |-> {},
          sub |-> [c \in Checks |-> NoSubmission],
          assess |-> [c \in Checks |-> NoAssessment]]

Init ==
  /\ base = Blank /\ box = Restored(Blank)
  /\ focus = {} /\ outcome = "none" /\ revision = 0

-----------------------------------------------------------------------------
(* The Executor's tools. *)

Scope == UNION {Contract[c].sources : c \in focus}

\* A revision starts a batch: the payload reads every source of the focused CHECKs
Begin ==
  /\ focus = {} /\ Remaining # {} /\ revision < MaxRevision
  /\ ProofClosed(base)
  /\ box' = [Restored(base) EXCEPT !.reads = UNION {Contract[c].sources : c \in Remaining}]
  /\ focus' = Remaining
  /\ revision' = revision + 1
  /\ UNCHANGED <<base, outcome>>

Tool(new) == focus # {} /\ box' = new /\ new # box /\ UNCHANGED <<focus, base, outcome, revision>>

\* _append_claim: a claim says what its source shows, and is kept once
AppendClaim(k) == Reproduces(k) /\ Tool([box EXCEPT !.claims = @ \cup {k}])

\* bind_claim: an exact quote of a document
BindClaim(k) == Claim[k].source \in (Scope \cap box.reads) \ Records /\ AppendClaim(k)

\* bind_record_field_claim: a field of a record, at its revision
BindRecordFieldClaim(k) == Claim[k].source \in Scope \cap box.reads \cap Records /\ AppendClaim(k)

\* compute_witness: the id is a digest of the request, so asking again adds nothing
ComputeWitness(w) ==
  /\ Witness[w].check \in focus
  /\ Ids(Witness[w].refs, "CLAIM") \subseteq box.claims
  /\ Ids(Witness[w].refs, "WITNESS") \subseteq box.witnesses
  /\ Tool([box EXCEPT !.witnesses = @ \cup {w}])

\* _admitted_upstream_witness: its owner's active submission carries it now
Admitted(c, w) ==
  LET owner == Witness[w].check
  IN \/ owner = c
     \/ /\ owner \in UpstreamOf[c]
        /\ Latest(box, owner) # NoSubmission
        /\ w \in Latest(box, owner).witnesses

\* The terms a submission may name, and where its evidence may come from
Admissible(c, s) ==
  LET ws == s.witnesses \cup UNION {Ids(x.refs, "WITNESS") : x \in s.bindings}
      ks == s.claims \cup Operands(Lineage(ws), "CLAIM")
  IN /\ s.claims \subseteq box.claims
     /\ s.witnesses \subseteq box.witnesses
     /\ \A w \in s.witnesses : Admitted(c, w)
     /\ \A x \in s.bindings :
          /\ x.check = c
          /\ Ids(x.refs, "CLAIM") \subseteq s.claims
          /\ Ids(x.refs, "WITNESS") \subseteq s.witnesses
          /\ \A y \in box.bindings \cup s.bindings : y.id = x.id => y = x
     /\ ClaimSources(ks) \subseteq Scope

Entry(c, s) ==
  [check |-> c, claims |-> s.claims, bindings |-> {x.id : x \in s.bindings},
   witnesses |-> s.witnesses, note |-> s.note, restored |-> FALSE]

\* submit_check: repeating an earlier submission of this batch returns its receipt
SubmitCheck(c, s) ==
  /\ c \in focus /\ Cardinality(NewSubs(box)) < MaxNew
  /\ Admissible(c, s)
  /\ \A i \in DOMAIN box.subs : box.subs[i] # Entry(c, s)
  /\ Tool([box EXCEPT !.subs = Append(@, Entry(c, s)),
                      !.bindings = @ \cup s.bindings])

-----------------------------------------------------------------------------
(* The end of a batch. *)

\* _focused_candidate_scope_violation: what the new submissions reach
Reached(b) ==
  LET news == {b.subs[i] : i \in NewSubs(b)}
      bindings == {x \in b.bindings : \E s \in news : x.id \in s.bindings}
      witnesses == Lineage((UNION {s.witnesses : s \in news})
                             \cup UNION {Ids(x.refs, "WITNESS") : x \in bindings})
  IN [bindings |-> bindings,
      witnesses |-> witnesses,
      claims |-> (UNION {s.claims : s \in news}) \cup Operands(witnesses, "CLAIM")
                   \cup UNION {Ids(x.refs, "CLAIM") : x \in bindings}]

\* discard_proof_material: new terms out of that reach never come before the Verifier
Owned(b) ==
  LET reached == Reached(b)
  IN [b EXCEPT !.claims = @ \cap (base.claims \cup reached.claims),
               !.witnesses = @ \cap (base.witnesses \cup reached.witnesses),
               !.bindings = @ \cap (base.bindings \cup reached.bindings)]

Close(A, how) ==
  /\ base' = A /\ box' = Restored(A)
  /\ focus' = {} /\ outcome' = how
  /\ UNCHANGED revision

\* The model fails for good, or the Verifier does: the batch leaves the artifact as it was
Abort == focus # {} /\ Close(base, "protocol_failure")

\* The completion hook stops the Executor once every focused CHECK has a new
\* submission; a CHECK whose active one names no term counts as unresolved
Unresolved == {c \in focus : ~HasTerms(Latest(box, c))}

NotSubmitted ==
  /\ focus # {} /\ focus \subseteq Answered /\ Unresolved # {}
  /\ Close(base, "not_submitted")

\* _verifier_rejected_latest_submission: NOT_FOUND may not hide a rejected term
RejectsTerms(s, a) ==
  /\ a.status = "NOT_FOUND"
  /\ ~(s.bindings \subseteq a.bindings /\ s.witnesses \subseteq a.witnesses)

\* _frontier_kernel_failures: c passes, and no committed CHECK is disturbed
Accepted(A, c, a) ==
  /\ Passes(A, c)
  /\ ~RejectsTerms(A.sub[c], a)
  /\ \A d \in Committed : Passes(A, d) /\ NodeResult(A, d) = NodeResult(base, d)

\* A slip, for mutation
EveryAccepted(ok) == Committed \cup ok

\* In plan order, the accepted CHECKs whose upstream is ready
Ready(ok) ==
  LET near[n \in 0..Cardinality(Checks)] ==
        IF n = 0 THEN Committed
        ELSE LET met == near[n - 1]
             IN met \cup {c \in ok : Upstream[c] \subseteq met}
  IN near[Cardinality(Checks)]

Whole(assess) ==
  Artifact(Owned(box), [c \in Checks |-> Latest(box, c)],
           [c \in Checks |-> IF c \in focus THEN assess[c] ELSE base.assess[c]])

\* An artifact without the submissions and assessments of the other CHECKs
Only(A, S) ==
  Artifact(A, [c \in Checks |-> IF c \in S THEN A.sub[c] ELSE NoSubmission],
           [c \in Checks |-> IF c \in S THEN A.assess[c] ELSE NoAssessment])

\* The Verifier classifies every focused CHECK and the ready ones are committed.  An
\* error in the last tool round counts every new submission as completed, so a batch
\* with gaps may be judged too.
Judge(assess) ==
  /\ focus # {} /\ focus \subseteq Answered
  /\ \E whole \in {Whole(assess)} :
       \E ready \in {Ready({c \in focus : Accepted(whole, c, assess[c])})} :
         Close(Only(whole, ready),
               IF focus \subseteq ready THEN "batch_committed" ELSE "batch_partially_committed")

Verdicts == {f \in [focus -> UNION {Assessment[c] : c \in focus}] :
               \A c \in focus : f[c] \in Assessment[c]}

\* A slip, for mutation
TargetOnly(c) == {c}

\* _downstream_check_ids
DownstreamOf(c) == {d \in Checks : c \in UpstreamOf[d]}

\* revise_compiler_checkpoint: what rests on the rechecked CHECK is dropped with it
Recheck(c) ==
  LET affected == DownstreamOf(c)
      kept == [base EXCEPT
                 !.assess = [d \in Checks |-> IF d \in affected THEN NoAssessment ELSE @[d]],
                 !.sub = [d \in Checks |-> IF d \in affected THEN NoSubmission ELSE @[d]],
                 !.witnesses = {w \in @ : Witness[w].check \notin affected},
                 !.bindings = {x \in @ : x.check \notin affected}]
      A == Artifact(Restored(kept), kept.sub, kept.assess)
  IN /\ focus = {} /\ base # Blank /\ revision < MaxRevision
     /\ base' = A /\ box' = Restored(A) /\ outcome' = "rechecked"
     /\ revision' = revision + 1
     /\ UNCHANGED focus

Next ==
  \/ Begin \/ Abort \/ NotSubmitted
  \/ \E k \in ClaimIds : BindClaim(k) \/ BindRecordFieldClaim(k)
  \/ \E w \in WitnessIds : ComputeWitness(w)
  \/ \E c \in Checks : Recheck(c) \/ \E s \in Candidate[c] : SubmitCheck(c, s)
  \/ \E f \in Verdicts : Judge(f)

Spec == Init /\ [][Next]_vars

-----------------------------------------------------------------------------
(* Properties. *)

\* Every part of the state has its form, and only a running batch holds candidates.
TypeOK ==
  /\ focus \subseteq Checks /\ revision \in 0..MaxRevision
  /\ outcome \in {"none", "protocol_failure", "not_submitted", "batch_committed",
                  "batch_partially_committed", "rechecked"}
  /\ box.reads \subseteq DOMAIN Observed
  /\ \A A \in {box, base} : A.claims \subseteq ClaimIds /\ A.witnesses \subseteq WitnessIds
  /\ focus = {} => box = Restored(base)

\* What is saved after a batch or a recheck can be resumed: replaying the kernel on
\* the saved artifact closes every CHECK that counts as completed (the partial commit
\* of _run_registered_batch_frontier recompiles without looking at the result).
SavedReplays == ProofClosed(base)

\* A committed strong verdict rests on calculations that the CHECK that made them
\* still stands behind, in its own committed submission, whatever was resubmitted,
\* refused or rechecked since.
OwnersStandBehind ==
  \A c \in Committed : base.assess[c].status # "NOT_FOUND" =>
    \A w \in NodeResult(base, c).witnesses :
      /\ Witness[w].check \in Committed
      /\ w \in base.witnesses \cap base.sub[Witness[w].check].witnesses

\* No calculation of a CHECK is left out of its strong verdict: its one Binding reaches
\* all of them, so that an inconvenient result cannot be submitted and passed over.
EveryCalculationCounts ==
  \A c \in Committed : base.assess[c].status # "NOT_FOUND" =>
    \A x \in BindingsOf(base, base.assess[c]) :
      {w \in base.sub[c].witnesses : Witness[w].check = c} \subseteq BoundWitnesses(x)

\* The runtime refuses a batch with "Batch Executor did not submit every focused CHECK"
\* only when one of them has no submission.
RefusedMeansMissing ==
  [][outcome' = "not_submitted" /\ focus # {} => ~(focus \subseteq Answered)]_vars

OpenVerdict == [status |-> "OPEN", claims |-> {}, bindings |-> {}, witnesses |-> {}]
Verdict(c) == IF c \in Committed THEN NodeResult(base, c) ELSE OpenVerdict

\* The batch transaction keeps the promises of the ledger: closed batches, no verdict
\* rewritten by a later batch, and a recheck that opens all that rests on it.
Ledger == INSTANCE CommitLedger WITH
  Verdicts <- [status : {"SUPPORTED", "CONTRADICTED", "NOT_FOUND"},
               claims : SUBSET ClaimIds,
               bindings : SUBSET UNION {UNION {{x.id : x \in s.bindings} : s \in Candidate[c]} :
                                          c \in Checks},
               witnesses : SUBSET WitnessIds],
  Open <- OpenVerdict,
  verdict <- [c \in Checks |-> Verdict(c)]
ImplementsLedger == Ledger!Spec
=============================================================================
