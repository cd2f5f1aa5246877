---------------------------- MODULE MCRegistered ----------------------------
(* Registered reviews: a proposal going through its stages, and one case in *)
(* the strict lane.  The two share no state, so each behaviour is one of    *)
(* them; lane says which.                                                   *)
EXTENDS StrictLane, ProofDag

-----------------------------------------------------------------------------
Row(source, values, state) == [source |-> source, values |-> values, state |-> state]
Scenario(broken, rows) ==
  [broken |-> broken, vendor |-> "v1", workcenter |-> "w1",
   rows |-> [r \in Orders \cup Productions |-> rows[r]]]

\* the order is broken, or the production, or the order has no row at all
MCScenarios ==
  {Scenario({"po"}, [po |-> Row("v1", "x", "purchase"), mo |-> Row("w1", "y", "done")]),
   Scenario({"mo"}, [po |-> Row("v1", "x", "purchase"), mo |-> Row("w1", "y", "confirmed")]),
   Scenario({"po", "mo"}, [po |-> NoRow, mo |-> Row("w2", "y", "done")])}

Target(ref, source, values, state) ==
  [ref |-> ref, source |-> source, values |-> values, state |-> state]
MCProposals ==
  {Target("po", "v1", "x", "purchase"), Target("po", "v2", "x", "purchase"),
   Target("mo", "w1", "y", "confirmed"), Target("mo", "w2", "y", "done")}

MCProgram == <<Fresh, Exact, Scope>>

-----------------------------------------------------------------------------
(* The registered catalogue, with the checks that neither read another's    *)
(* result nor depend on the stage folded into one.                          *)
Plan == {"portfolio", "lineage"}
MCShared ==
  [s \in Plan \cup {"released"} |->
     IF s = "released" THEN {"so_confirm", "po_confirm", "mo_confirm"} ELSE {}]

Nothing3 == [s \in DOMAIN MCShared |-> {}]
Template(protects, shared, before, checks, post, establishes) ==
  [protects |-> protects, shared |-> shared, before |-> before, checks |-> checks,
   post |-> post, establishes |-> establishes]
Always(stages) == [s \in stages |-> {}]
Rule(template, at, post) == [template |-> template, stage |-> at, post |-> post]

MCCatalog ==
  [disposition |->
     Template({"so_confirm", "so_cancel"},
              [confirm |-> Plan, release |-> Plan, cancel |-> {}],
              Always({"confirm", "release", "cancel"}),
              [predicates |-> {"confirm", "release", "cancel"},
               outcome |-> {"confirm", "release", "cancel"},
               supply |-> {"confirm", "release"}], {}, Nothing3),
   sales |->
     Template({"so_confirm"}, [confirm |-> Plan, release |-> Plan],
              Always({"confirm", "release"}),
              [commitment |-> {"confirm", "release"}], {}, Nothing3),
   purchase |->
     Template({"po_confirm"}, [release |-> Plan, replacement |-> Plan],
              [release |-> {}, replacement |-> {Rule("repair", "cancel", {"cancelled"})}],
              [offer |-> {"release", "replacement"}, avoids |-> {"replacement"}], {}, Nothing3),
   manufacture |->
     Template({"mo_confirm"}, [release |-> Plan], Always({"release"}),
              [closure |-> {"release"}], {"workorders"},
              [Nothing3 EXCEPT !["released"] = {"workorders"}]),
   invoice |->
     Template({"post"}, [s \in {"downpayment", "regular", "balance"} |-> {"released"}],
              [downpayment |-> {}, regular |-> {},
               balance |-> {Rule("invoice", "downpayment", {})}],
              [identity |-> {"downpayment", "regular", "balance"},
               amount |-> {"downpayment", "regular", "balance"}], {}, Nothing3),
   repair |->
     Template({"po_cancel", "mo_cancel"}, [cancel |-> {}], Always({"cancel"}),
              [disrupted |-> {"cancel"}], {"cancelled"}, Nothing3)]

MCRecipes ==
  [c \in {"predicates", "outcome", "supply", "commitment", "offer", "avoids", "closure",
          "workorders", "identity", "amount", "disrupted", "cancelled"} \cup DOMAIN MCShared |->
     IF c = "outcome" THEN {"predicates"}
     ELSE IF c = "supply" THEN Plan
     ELSE IF c = "commitment" THEN {"portfolio"}
     ELSE IF c = "closure" THEN {"lineage"}
     ELSE IF c = "identity" THEN {"released"} ELSE {}]

\* proof_templates.json asks no template for a postcondition it does not observe
ASSUME CatalogOffersItsPosts == PostsAreOffered
\* and no recipe for what its action does not bring to the plan
ASSUME CatalogOffersItsReads == ReadsAreOffered

Asks(id, kind, at, ref) == [id |-> id, kind |-> kind, stage |-> at, ref |-> ref]

\* two broken orders replaced by one, with a sale that either template may take
Repair == <<Asks("c", "po_cancel", "cancel", 1), Asks("c", "po_cancel", "cancel", 2),
            Asks("r", "po_confirm", "replacement", 3), Asks("s", "so_confirm", "confirm", 4)>>
\* from the release of a sale and its production to its last invoice
Supply == <<Asks("b", "post", "balance", 1), Asks("s", "so_confirm", "release", 2),
            Asks("m", "mo_confirm", "release", 3), Asks("d", "post", "downpayment", 4)>>
\* a screening that confirms one order and cancels another, no replacement in sight
Screen == <<Asks("s", "so_confirm", "confirm", 1), Asks("x", "so_cancel", "cancel", 2)>>
\* not admitted, since its cancellation is not in one piece, and not routed
Split == <<Repair[1], Repair[3], Repair[2]>>
Lone == <<Repair[3], Repair[4]>>

MCSealed == {Repair, Supply, Screen, Split, Lone}

-----------------------------------------------------------------------------
VARIABLE lane

\* the state of the other lane stays what it was
LaneInit ==
  /\ lane \in {"strict", "stages"}
  /\ Init
  /\ DagInit
  /\ IF lane = "strict" THEN proposal = Screen
     ELSE /\ ~odoo.order.locked /\ odoo.order.invoice_ids = Bills
          /\ \A b \in Bills : odoo.bills[b].state = "draft"
          /\ case.scenario = CHOOSE s \in Scenarios : TRUE
          /\ case.target = CHOOSE t \in Proposals : TRUE

LaneNext ==
  /\ UNCHANGED lane
  /\ \/ lane = "strict" /\ Next /\ UNCHANGED dagVars
     \/ lane = "stages" /\ DagNext /\ UNCHANGED vars

LaneSpec == LaneInit /\ [][LaneNext]_<<vars, dagVars, lane>>
=============================================================================
