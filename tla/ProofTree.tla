---------------------------- MODULE ProofTree ----------------------------
(***************************************************************************)
(* How the proof kernel turns CHECK results into a verdict for each        *)
(* requirement (compile_review_artifact), over a ProofPlan that the plan   *)
(* gate has accepted (validate_graph, PlanConformanceGate).                *)
(*                                                                         *)
(* A plan is a DAG of CHECK leaves under ALL and ANY nodes, with one root  *)
(* for each requirement.  A proof signature names, for each requirement,   *)
(* the facets a proof must cover and the proof paths that may close each   *)
(* facet; the gate accepts a plan only when no facet can be bypassed.      *)
(* CHECKs are concluded and reopened one at a time, as frontiers are       *)
(* committed and rechecked, and the proof is recompiled at every state.    *)
(***************************************************************************)
EXTENDS FiniteSets, Integers

CONSTANTS Checks,        \* CHECK nodes
          Inner,         \* ALL and ANY nodes
          Requirements,  \* active_requirement_ids
          RootOf,        \* plan.roots
          Facets,        \* Facets[q]: facet ids of the signature of q
          Paths,         \* Paths[f]: proof paths of a facet
          WitnessPath,   \* pairs <<facet, path>> whose proof needs a WITNESS
          NeedsPolicy,   \* requirements whose signature names a policy
          Composition,   \* "ALL_REQUIRED" or "ANY_SUFFICIENT" for each q
          PlanSpace      \* the plans the planner may propose

ASSUME RequirementsAssumption == NeedsPolicy \subseteq Requirements

Nodes == Checks \cup Inner

\* A plan has finitely many nodes, each of one kind, and its roots are among them
ASSUME NodesAssumption ==
  /\ IsFiniteSet(Nodes) /\ Checks \cap Inner = {}
  /\ \A q \in Requirements : RootOf[q] \in Nodes

AllFacets == UNION {Facets[q] : q \in Requirements}
NoPath == "no_path"
Statuses == {"SUPPORTED", "CONTRADICTED", "NOT_FOUND"}

VARIABLES plan,    \* [kind, deps, path, policy]: the accepted ProofPlan
          status,  \* status of each CHECK, as its gates left it
          sealed   \* the artifact's hashes match its contents

treeVars == <<plan, status, sealed>>

-----------------------------------------------------------------------------
(* The plan gate. *)

\* reachable_ids: what a walk over depends_on meets from a node
Reachable(p, n) ==
  LET near[k \in 0..Cardinality(Inner)] ==
        IF k = 0 THEN {n}
        ELSE LET met == near[k - 1]
             IN met \cup UNION {p.deps[x] : x \in met \cap Inner}
  IN near[Cardinality(Inner)]

ChecksUnder(p, n) == Reachable(p, n) \cap Checks

\* validate_graph: aggregates have dependencies, no cycle, every node leads to a root
WellFormed(p) ==
  /\ \A n \in Inner : p.deps[n] # {} /\ p.deps[n] \subseteq Nodes
  /\ \A n \in Inner : \A d \in p.deps[n] : n \notin Reachable(p, d)
  /\ Nodes = UNION {Reachable(p, RootOf[q]) : q \in Requirements}

\* _can_succeed: the two-valued reading of a plan, Good being the true CHECKs
CanSucceed(p, root, Good) ==
  LET holds[n \in Nodes] ==
        IF n \in Checks THEN n \in Good
        ELSE IF p.kind[n] = "ALL" THEN \A d \in p.deps[n] : holds[d]
        ELSE \E d \in p.deps[n] : holds[d]
  IN holds[root]

CoversFacet(p, c, f) == p.path[c][f] # NoPath

\* Every path of a facet is taken by some CHECK and suffices without the other paths
FacetReachable(p, q, f) ==
  LET under == {c \in ChecksUnder(p, RootOf[q]) : CoversFacet(p, c, f)}
  IN /\ under # {}
     /\ \A x \in Paths[f] :
          /\ \E c \in under : p.path[c][f] = x
          /\ CanSucceed(p, RootOf[q],
                        {c \in Checks : CoversFacet(p, c, f) => p.path[c][f] = x})
          /\ q \in NeedsPolicy /\ <<f, x>> \in WitnessPath =>
               \A c \in under : p.path[c][f] = x => c \in p.policy

\* A slip, for mutation
AllFacetsTogether(p, q) ==
  ~CanSucceed(p, RootOf[q], {c \in Checks : \A f \in Facets[q] : ~CoversFacet(p, c, f)})

\* No root of ALL_REQUIRED succeeds without a facet; ANY_SUFFICIENT needs one of them
CannotBypass(p, q) ==
  LET Without(fs) == {c \in Checks : \A f \in fs : ~CoversFacet(p, c, f)}
  IN IF Composition[q] = "ALL_REQUIRED"
     THEN \A f \in Facets[q] : ~CanSucceed(p, RootOf[q], Without({f}))
     ELSE /\ ~CanSucceed(p, RootOf[q], Without(Facets[q]))
          /\ \A f \in Facets[q] :
               CanSucceed(p, RootOf[q],
                          Without(Facets[q]) \cup {c \in Checks : CoversFacet(p, c, f)})

\* The signature's policy is declared under the root and no success avoids it
PolicyCovered(p, q) ==
  q \in NeedsPolicy =>
     /\ ChecksUnder(p, RootOf[q]) \cap p.policy # {}
     /\ ~CanSucceed(p, RootOf[q], Checks \ p.policy)

Conforms(p) ==
  /\ WellFormed(p)
  /\ \A q \in Requirements :
       /\ \A f \in Facets[q] : FacetReachable(p, q, f)
       /\ PolicyCovered(p, q)
       /\ CannotBypass(p, q)

-----------------------------------------------------------------------------
(* The kernel's verdict. *)

\* A slip, for mutation
AggregateEager(kind, found) ==
  IF kind = "ALL"
  THEN IF "CONTRADICTED" \in found THEN "CONTRADICTED"
       ELSE IF "SUPPORTED" \in found THEN "SUPPORTED" ELSE "NOT_FOUND"
  ELSE IF "SUPPORTED" \in found THEN "SUPPORTED"
       ELSE IF found \subseteq {"CONTRADICTED"} THEN "CONTRADICTED" ELSE "NOT_FOUND"

\* _aggregate: the three-valued reading of ALL and ANY
Aggregate(kind, found) ==
  IF kind = "ALL"
  THEN IF "CONTRADICTED" \in found THEN "CONTRADICTED"
       ELSE IF found \subseteq {"SUPPORTED"} THEN "SUPPORTED" ELSE "NOT_FOUND"
  ELSE IF "SUPPORTED" \in found THEN "SUPPORTED"
       ELSE IF found \subseteq {"CONTRADICTED"} THEN "CONTRADICTED" ELSE "NOT_FOUND"

\* A broken seal leaves every CHECK NOT_FOUND, whatever was assessed
CheckStatus(c) == IF sealed THEN status[c] ELSE "NOT_FOUND"

\* NodeResult.status in static_order of depends_on
Results ==
  LET result[n \in Nodes] ==
        IF n \in Checks THEN CheckStatus(n)
        ELSE Aggregate(plan.kind[n], {result[d] : d \in plan.deps[n]})
  IN result

ReachableChecks(q) == ChecksUnder(plan, RootOf[q])

\* One DecisionProof: supporting, contradicting and unresolved CHECKs of a root
Decision(q) ==
  LET under == ReachableChecks(q)
      With(s) == {c \in under : CheckStatus(c) = s}
  IN  [status |-> Results[RootOf[q]], supporting |-> With("SUPPORTED"),
       contradicting |-> With("CONTRADICTED"), unresolved |-> With("NOT_FOUND")]

\* ProofObligations: only a root that is NOT_FOUND asks for its missing facts
Obligations(required) ==
  LET open == {q \in Requirements : Decision(q).status = "NOT_FOUND"} IN
  UNION {{[requirement |-> q, check |-> c, blocking |-> q \in required] :
            c \in Decision(q).unresolved} : q \in open}

-----------------------------------------------------------------------------
TreeInit ==
  /\ plan \in {p \in PlanSpace : Conforms(p)}
  /\ status = [c \in Checks |-> "NOT_FOUND"]
  /\ sealed = TRUE

\* A frontier commits the result of one CHECK
Conclude(c) ==
  /\ status[c] = "NOT_FOUND"
  /\ \E s \in {"SUPPORTED", "CONTRADICTED"} : status' = [status EXCEPT ![c] = s]
  /\ UNCHANGED <<plan, sealed>>

\* A revision drops the result of one CHECK
Reopen(c) ==
  /\ status[c] # "NOT_FOUND"
  /\ status' = [status EXCEPT ![c] = "NOT_FOUND"]
  /\ UNCHANGED <<plan, sealed>>

\* The artifact's contents leave its hashes behind, or it is finalized again
Reseal == sealed' = ~sealed /\ UNCHANGED <<plan, status>>

TreeNext == (\E c \in Checks : Conclude(c) \/ Reopen(c)) \/ Reseal

TreeSpec == TreeInit /\ [][TreeNext]_treeVars

-----------------------------------------------------------------------------
TreeTypeOK ==
  /\ plan.kind \in [Inner -> {"ALL", "ANY"}]
  /\ plan.deps \in [Inner -> SUBSET Nodes]
  /\ plan.policy \subseteq Checks
  /\ \A c \in Checks, f \in AllFacets : plan.path[c][f] \in Paths[f] \cup {NoPath}
  /\ status \in [Checks -> Statuses]
  /\ sealed \in BOOLEAN

\* A verdict is exactly what no missing CHECK can change: a root is SUPPORTED when
\* it holds with every open CHECK taken as refuted, CONTRADICTED when it fails with
\* every open CHECK taken as proved, and open otherwise (kernel._aggregate folded
\* over the plan by compile_review_artifact, CHECKs shared between roots included).
VerdictIsForced ==
  \A q \in Requirements :
    LET proved == {c \in Checks : CheckStatus(c) = "SUPPORTED"}
        possible == {c \in Checks : CheckStatus(c) # "CONTRADICTED"}
    IN Results[RootOf[q]] =
         IF CanSucceed(plan, RootOf[q], proved) THEN "SUPPORTED"
         ELSE IF ~CanSucceed(plan, RootOf[q], possible) THEN "CONTRADICTED"
         ELSE "NOT_FOUND"

\* An accepted plan cannot prove a requirement around its signature: a SUPPORTED
\* root of ALL_REQUIRED has a supported CHECK for every facet, ANY_SUFFICIENT for
\* one of them, and a required policy was declared by a CHECK that supports it
\* (PlanConformanceGate against the kernel's aggregation).
FacetNotBypassed ==
  \A q \in Requirements :
    Decision(q).status = "SUPPORTED" =>
      LET covered == {f \in Facets[q] :
                        \E c \in Decision(q).supporting : CoversFacet(plan, c, f)}
      IN /\ IF Composition[q] = "ALL_REQUIRED" THEN covered = Facets[q] ELSE covered # {}
         /\ q \in NeedsPolicy => Decision(q).supporting \cap plan.policy # {}
=============================================================================
