-------------------------- MODULE MCReviewBatch --------------------------
EXTENDS ReviewBatch, TLC

CONSTANTS c1, c2, k1, k2, kx, w1, w2, w3, b1, b2, b3, b4, doc, rec

MCUpstream == (c1 :> {}) @@ (c2 :> {c1})
MCContract ==
  (c1 :> [sources |-> {doc}, calculates |-> FALSE, live |-> FALSE])
    @@ (c2 :> [sources |-> {doc, rec}, calculates |-> TRUE, live |-> TRUE])
MCObserved == (doc :> {10}) @@ (rec :> {20})
MCClaim ==
  (k1 :> [source |-> doc, value |-> 10, low |-> FALSE])
    @@ (k2 :> [source |-> rec, value |-> 20, low |-> FALSE])
    @@ (kx :> [source |-> doc, value |-> 99, low |-> FALSE])

Calc(c, refs, bool, true) == [check |-> c, refs |-> refs, boolean |-> bool, holds |-> true]

\* c1 calculates w1 from its document; c2 calculates w2 from the record and w1, and
\* compares it (w3)
MCWitness ==
  (w1 :> Calc(c1, {ClaimRef(k1)}, FALSE, FALSE))
    @@ (w2 :> Calc(c2, {ClaimRef(k2), WitnessRef(w1)}, FALSE, FALSE))
    @@ (w3 :> Calc(c2, {WitnessRef(w2)}, TRUE, FALSE))

Bind(id, c, refs, relation) == [id |-> id, check |-> c, refs |-> refs, relation |-> relation]
B1 == Bind(b1, c1, {ClaimRef(k1), WitnessRef(w1)}, "CHECK_SATISFIED")
B2 == Bind(b2, c1, {ClaimRef(k1)}, "CHECK_SATISFIED")
B3 == Bind(b3, c2, {ClaimRef(k2), WitnessRef(w2), WitnessRef(w3)}, "CHECK_VIOLATED")
B4 == Bind(b4, c2, {ClaimRef(k2), WitnessRef(w1)}, "CHECK_SATISFIED")

Sub(ks, bs, ws, note) == [claims |-> ks, bindings |-> bs, witnesses |-> ws, note |-> note]
Gap == Sub({}, {}, {}, TRUE)

MCCandidate ==
  (c1 :> {Sub({k1}, {B1}, {w1}, FALSE), Sub({k1}, {B2}, {}, FALSE),
          Sub({k1}, {B2}, {w1}, FALSE), Gap})
    @@ (c2 :> {Sub({k2}, {B3}, {w2, w3}, FALSE), Sub({k2}, {B4}, {w1}, FALSE),
               Sub({k2}, {B3}, {w2}, FALSE), Gap})

Review(status, ks, bs, ws, sources, examined, links) ==
  [status |-> status, claims |-> ks, bindings |-> bs, witnesses |-> ws, sources |-> sources,
   examined |-> examined, links |-> links, consistent |-> TRUE,
   missing |-> status = "NOT_FOUND"]
Link(w, s) == [witness |-> w, when_true |-> s]

MCAssessment ==
  (c1 :> {Review("SUPPORTED", {k1}, {b1}, {w1}, {doc}, {doc}, {}),
          Review("SUPPORTED", {k1}, {b2}, {}, {doc}, {doc}, {}),
          Review("SUPPORTED", {k1}, {b2}, {w1}, {doc}, {doc}, {}),
          Review("CONTRADICTED", {k1}, {b1}, {w1}, {doc}, {doc}, {}),
          Review("NOT_FOUND", {}, {}, {}, {}, {doc}, {})})
    @@ (c2 :> {Review("CONTRADICTED", {k2}, {b3}, {w2, w3}, {doc, rec}, {doc, rec},
                      {Link(w3, "SUPPORTED")}),
               Review("CONTRADICTED", {k2}, {b3}, {w2, w3}, {doc, rec}, {doc, rec},
                      {Link(w3, "CONTRADICTED")}),
               Review("SUPPORTED", {k2}, {b4}, {w1}, {doc, rec}, {doc, rec}, {}),
               Review("NOT_FOUND", {k2}, {b4}, {w1}, {doc, rec}, {doc, rec}, {}),
               Review("NOT_FOUND", {}, {}, {}, {}, {doc, rec}, {})})
==========================================================================
