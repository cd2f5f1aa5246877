--------------------------- MODULE MCProofTree ---------------------------
EXTENDS ConsumerReport, TLC

CONSTANTS a, b, c, d, r, m, pay, audit, other, amount, vendor

MCRootOf == (pay :> r) @@ (audit :> m)
MCFacets == (pay :> {amount, vendor}) @@ (audit :> {amount})
MCPaths == (amount :> {"p1", "p2"}) @@ (vendor :> {"p1"})
MCWitnessPath == {<<amount, "p2">>}
MCComposition == (pay :> "ALL_REQUIRED") @@ (audit :> "ANY_SUFFICIENT")

Label(x, y) == (amount :> x) @@ (vendor :> y)

\* What the four CHECKs declare: two paths of one facet and one of another, a CHECK
\* that may serve both, and one that may be outside the signature
PathChoices ==
  {(a :> Label("p1", va)) @@ (b :> Label(pb, NoPath)) @@ (c :> Label(NoPath, vc))
     @@ (d :> ld) :
     va \in {"p1", NoPath}, pb \in {"p2", "p1"}, vc \in {"p1", NoPath},
     ld \in {Label(NoPath, NoPath), Label("p2", NoPath), Label(NoPath, "p1")}}

MCPlanSpace ==
  {[kind |-> (r :> kr) @@ (m :> km), deps |-> (r :> dr) @@ (m :> dm),
    path |-> x, policy |-> y] :
     kr \in {"ALL", "ANY"}, km \in {"ALL", "ANY"},
     dr \in {{m} \cup x : x \in SUBSET {a, b, c, d}},
     dm \in {{}, {a, b}, {b, d}, {a, c}, {a, b, d}, {a, b, c}, {r, a}},
     x \in PathChoices, y \in {{a, b}, {c}, {b, d}}}

\* nothing, another requirement, or one the plan does not know
MCCaseRequirements == {{}, {audit}, {pay, other}}

\* a claim under each CHECK, and a calculation of d from the claim of a
MCCites == (a :> {"ta"}) @@ (b :> {"tb"}) @@ (c :> {"tc"}) @@ (d :> {"td"})
MCOperands == [t \in {"ta", "tb", "tc", "td"} |-> IF t = "td" THEN {"ta"} ELSE {}]
=============================================================================
