--------------------------- MODULE EvidenceGate ---------------------------
(***************************************************************************)
(* The proof kernel's gate for one CHECK of an evidence review             *)
(* (_compile_check with an ERPReviewContract in mode evidence_review): a   *)
(* Verifier's classification of a CHECK becomes a node result only when    *)
(* every proof term it accepts is submitted by the CHECK that owns it,     *)
(* observed in a frozen source, and tied to one terminal Binding.          *)
(*                                                                         *)
(* An artifact A is a record                                               *)
(*   claims, witnesses   the terms of its EvidenceIR and witness list      *)
(*   bindings            its binding proposals, [id, check, refs, relation]*)
(*   sub[c]              the active submission of CHECK c, or NoSubmission *)
(*   assess[c]           the Verifier's assessment of c, or NoAssessment   *)
(* Snapshot hashes of witnesses, fixed for one compiler run, the exact     *)
(* diagnostic codes and policies, of which an evidence review's CHECKs     *)
(* declare none, are left out: a CHECK is refused or it is not.            *)
(***************************************************************************)
EXTENDS FiniteSets, Integers

CONSTANTS Checks,        \* CHECK nodes of the plan
          Upstream,      \* Upstream[c]: upstream_check_ids
          Contract,      \* Contract[c]: [sources, calculates, live]
          Claim,         \* Claim[k]: [source, value, record, low] of a claim id
          Witness,       \* Witness[w]: [check, refs, boolean, holds] of a witness id
          Observed,      \* Observed[s]: the facts the frozen source s shows
          Native         \* sources that are native records with provenance

ClaimIds == DOMAIN Claim
WitnessIds == DOMAIN Witness

NoSubmission == [none |-> "submission"]
NoAssessment == [none |-> "assessment"]

ClaimRef(k) == [kind |-> "CLAIM", id |-> k]
WitnessRef(w) == [kind |-> "WITNESS", id |-> w]

Ids(refs, kind) == {r.id : r \in {x \in refs : x.kind = kind}}

\* A plan and its sources are finite, and a calculation names its operands by their ids
ASSUME GateAssumption ==
  /\ IsFiniteSet(Checks) /\ Upstream \in [Checks -> SUBSET Checks]
  /\ \A c \in Checks : Contract[c].sources \subseteq DOMAIN Observed
  /\ IsFiniteSet(WitnessIds)
  /\ \A w \in WitnessIds :
       /\ Witness[w].check \in Checks
       /\ Ids(Witness[w].refs, "CLAIM") \subseteq ClaimIds
       /\ Ids(Witness[w].refs, "WITNESS") \subseteq WitnessIds

\* The CHECKs whose results a CHECK may build on: reachable_ids over upstream_check_ids
UpstreamOf ==
  [c \in Checks |->
     LET near[n \in 0..Cardinality(Checks)] ==
           IF n = 0 THEN {c}
           ELSE LET met == near[n - 1] IN met \cup UNION {Upstream[d] : d \in met}
     IN near[Cardinality(Checks)]]

Submitted(A, c) == A.sub[c] # NoSubmission

-----------------------------------------------------------------------------
(* The closure of accepted terms. *)

\* A slip, for mutation
AnyOwnedWitness(A, node, w) ==
  LET owner == Witness[w].check
  IN owner \in UpstreamOf[node] /\ Submitted(A, owner)

\* A witness counts under its owner: the CHECK itself or one it declares upstream,
\* and only while the owner's active submission still carries it
OwnedWitness(A, node, w) ==
  LET owner == Witness[w].check
  IN /\ owner \in UpstreamOf[node]
     /\ Submitted(A, owner)
     /\ w \in A.sub[owner].witnesses

\* _validate_witness and _validate_term_ref: depth first, the path guarding against cycles
ValidWitness(A, c, w) ==
  LET valid[v \in Checks \X WitnessIds \X SUBSET WitnessIds] ==
        LET node == v[1]
            x == v[2]
            path == v[3]
            owner == Witness[x].check
        IN /\ x \in A.witnesses
           /\ OwnedWitness(A, node, x)
           /\ x \notin path
           /\ Ids(Witness[x].refs, "CLAIM") \subseteq A.claims \cap A.sub[owner].claims
           /\ \A p \in Ids(Witness[x].refs, "WITNESS") :
                valid[<<owner, p, path \cup {x}>>]
  IN valid[<<c, w, {}>>]

ValidRefs(A, c, refs) ==
  /\ Ids(refs, "CLAIM") \subseteq A.claims \cap A.sub[c].claims
  /\ \A w \in Ids(refs, "WITNESS") : ValidWitness(A, c, w)

\* _validate_binding
ValidBinding(A, c, b) ==
  /\ b.check = c
  /\ ValidRefs(A, c, b.refs)

\* What a witness rests on, operands of operands included
Basis ==
  [x \in WitnessIds |->
     LET near[n \in 0..Cardinality(WitnessIds)] ==
           IF n = 0 THEN {x}
           ELSE LET met == near[n - 1]
                IN met \cup UNION {Ids(Witness[w].refs, "WITNESS") : w \in met}
     IN near[Cardinality(WitnessIds)]]

Lineage(ws) == UNION {Basis[w] : w \in ws}

BindingsOf(A, a) == {b \in A.bindings : b.id \in a.bindings}

AcceptedWitnesses(A, a) ==
  Lineage(a.witnesses \cup UNION {Ids(b.refs, "WITNESS") : b \in BindingsOf(A, a)})

Operands(ws, kind) == UNION {Ids(Witness[w].refs, kind) : w \in ws}

AcceptedClaims(A, a) ==
  a.claims \cup (UNION {Ids(b.refs, "CLAIM") : b \in BindingsOf(A, a)})
           \cup Operands(AcceptedWitnesses(A, a), "CLAIM")

\* _accepted_term_closure
ClosureAccepted(A, c, a) ==
  /\ a.claims \subseteq A.claims \cap A.sub[c].claims
  /\ a.bindings \subseteq {b.id : b \in A.bindings} \cap A.sub[c].bindings
  /\ \A b \in BindingsOf(A, a) : ValidBinding(A, c, b)
  /\ a.witnesses \subseteq A.witnesses \cap A.sub[c].witnesses
  /\ \A w \in a.witnesses : ValidWitness(A, c, w)

-----------------------------------------------------------------------------
(* Sources. *)

ClaimSources(ks) == {Claim[k].source : k \in ks}

\* _evidence_review_source_failure: the frozen bytes or record field still say it
Reproduces(k) == Claim[k].value \in Observed[Claim[k].source]

SourcesAccepted(A, c, a) ==
  /\ ClaimSources(AcceptedClaims(A, a)) \subseteq Contract[c].sources
  /\ \A k \in AcceptedClaims(A, a) : Reproduces(k)
  /\ a.sources \subseteq DOMAIN Observed
  /\ ClaimSources(AcceptedClaims(A, a)) \subseteq a.sources

\* A strong classification cites what it uses and has examined the whole snapshot
StrongSources(A, c, a) ==
  LET used == AcceptedClaims(A, a)
  IN /\ a.sources = ClaimSources(used)
     /\ a.examined = Contract[c].sources
     /\ used # {}
     /\ \A k \in used : ~Claim[k].low

-----------------------------------------------------------------------------
(* The terminal Binding of a strong classification. *)

TerminalStatus(relation) ==
  IF relation = "CHECK_SATISFIED" THEN "SUPPORTED" ELSE "CONTRADICTED"

Opposite(s) == IF s = "SUPPORTED" THEN "CONTRADICTED" ELSE "SUPPORTED"

BoundWitnesses(b) == Lineage(Ids(b.refs, "WITNESS"))
BoundClaims(b) == Ids(b.refs, "CLAIM") \cup Operands(BoundWitnesses(b), "CLAIM")

\* A slip, for mutation
OnlyAccepted(A, c, a, b) ==
  /\ A.sub[c].witnesses \subseteq AcceptedWitnesses(A, a)
  /\ Contract[c].calculates => BoundWitnesses(b) # {}

\* No calculation of the CHECK may be left out of the conclusion: those no other
\* calculation consumes must be bound and accepted directly
CalculationsConsumed(A, c, a, b) ==
  LET own == {w \in A.sub[c].witnesses : Witness[w].check = c}
      terminal == own \ Operands(own, "WITNESS")
  IN /\ A.sub[c].witnesses \subseteq AcceptedWitnesses(A, a)
     /\ terminal \subseteq a.witnesses \cap Ids(b.refs, "WITNESS")
     /\ Contract[c].calculates => BoundWitnesses(b) # {}

\* A decisive link ties the classification to a boolean the CHECK really bound
LinksAgree(A, c, a, b) ==
  \A l \in a.links :
    /\ Witness[l.witness].boolean
    /\ l.witness \in BoundWitnesses(b) \cap A.sub[c].witnesses \cap AcceptedWitnesses(A, a)
    /\ a.status = IF Witness[l.witness].holds THEN l.when_true ELSE Opposite(l.when_true)

\* _evidence_review_terminal_failure
TerminalAccepted(A, c, a) ==
  /\ Cardinality(a.bindings) = 1
  /\ \A b \in BindingsOf(A, a) :
       /\ TerminalStatus(b.relation) = a.status
       /\ BoundClaims(b) # {}
       /\ Contract[c].live => ClaimSources(BoundClaims(b)) \cap Native # {}
       /\ CalculationsConsumed(A, c, a, b)
       /\ LinksAgree(A, c, a, b)

-----------------------------------------------------------------------------
\* The kernel accepts the Verifier's assessment of c as the result of the node
Passes(A, c) ==
  LET a == A.assess[c]
  IN /\ Submitted(A, c)
     /\ a # NoAssessment
     /\ ClosureAccepted(A, c, a)
     /\ SourcesAccepted(A, c, a)
     /\ a.consistent
     /\ IF a.status = "NOT_FOUND" THEN a.missing
        ELSE StrongSources(A, c, a) /\ TerminalAccepted(A, c, a)

\* _compile_check: status and terms of the node result
NodeResult(A, c) ==
  IF Passes(A, c)
  THEN [status |-> A.assess[c].status,
        claims |-> AcceptedClaims(A, A.assess[c]),
        bindings |-> A.assess[c].bindings,
        witnesses |-> AcceptedWitnesses(A, A.assess[c])]
  ELSE [status |-> "NOT_FOUND", claims |-> {}, bindings |-> {}, witnesses |-> {}]
=============================================================================
