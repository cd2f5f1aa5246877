---------------------------- MODULE ERPResolvers ----------------------------
(***************************************************************************)
(* The registered checks of a supply cancellation                          *)
(* (capabilities/erp_resolvers.py) and the admission of the reads a        *)
(* purchase order's check rests on                                         *)
(* (capabilities/purchase_order_cancellation.py), as pure functions.       *)
(*                                                                         *)
(* A record is a purchase order or a manufacturing order; what the checks  *)
(* compare field by field is one value, what ties it to the disruption     *)
(* (its vendor, its workcenter) another.                                   *)
(***************************************************************************)
EXTENDS Naturals, FiniteSets

CONSTANTS Orders, Productions   \* refs of purchase.order and of mrp.production

LocalChecks == {"target_is_exact_disrupted_commitment",
                "target_is_fresh_and_natively_cancellable",
                "cancellation_scope_is_exact"}
Exact == "target_is_exact_disrupted_commitment"
Fresh == "target_is_fresh_and_natively_cancellable"
Scope == "cancellation_scope_is_exact"

Absent == "absent"
NoRow == [source |-> Absent, values |-> Absent, state |-> Absent]

(***************************************************************************)
(* Admission: the order and its bills were read one after the other; the   *)
(* bills read must be those the order names.                               *)
(***************************************************************************)

Admissible(order, bills) ==
  /\ {b.id : b \in bills} = order.invoice_ids
  /\ Cardinality(bills) = Cardinality(order.invoice_ids)
  /\ order.state # "" /\ \A b \in bills : b.state # ""

\* A slip, for mutation: the bills are left out of the revision
LineageOfOrder(order, bills) == {order}
Lineage(order, bills) == {order} \cup bills
BlockingBills(bills) == {b.id : b \in {x \in bills : x.state \notin {"cancel", "draft"}}}

Admitted(order, bills) ==
  [revision |-> Lineage(order, bills), state |-> order.state, locked |-> order.locked,
   blocking |-> BlockingBills(bills)]

(***************************************************************************)
(* Selecting the inputs of a check from its frozen sources: the scenario,  *)
(* and the admitted snapshot of each purchase order.                       *)
(***************************************************************************)
Broken(scenario) == scenario.broken
Observed(scenario, ref) == scenario.rows[ref]

Selectable(local, scenarios, live, targets) ==
  /\ Cardinality(scenarios) = 1
  /\ LET scenario == CHOOSE s \in scenarios : TRUE IN
     /\ \A t \in targets : Observed(scenario, t.ref) # NoRow
     /\ local = Exact => \A t \in targets :
          /\ Observed(scenario, t.ref).values # Absent
          /\ Observed(scenario, t.ref).source # Absent
          /\ (IF t.ref \in Orders THEN scenario.vendor ELSE scenario.workcenter) # Absent
     /\ local = Fresh => \A t \in targets :
          IF t.ref \in Orders THEN t.ref \in DOMAIN live
                              ELSE Observed(scenario, t.ref).state # Absent

TargetRecord(local, scenario, live, t) ==
  [ref |-> t.ref, proposal |-> t,
   observed |-> IF local = Fresh /\ t.ref \in Orders
                THEN [state |-> live[t.ref].state, locked |-> live[t.ref].locked,
                      blocking |-> live[t.ref].blocking, revision |-> live[t.ref].revision]
                ELSE [source |-> Observed(scenario, t.ref).source,
                      values |-> Observed(scenario, t.ref).values,
                      state |-> Observed(scenario, t.ref).state]]

SelectInputs(local, scenario, live, targets) ==
  [broken |-> Broken(scenario), vendor |-> scenario.vendor, workcenter |-> scenario.workcenter,
   rows |-> {TargetRecord(local, scenario, live, t) : t \in targets}]

(***************************************************************************)
(* Replaying a check on its inputs.                                        *)
(***************************************************************************)
ScopeIsExact(in) ==
  LET refs == {row.ref : row \in in.rows} IN
  /\ in.broken \ refs = {} /\ refs \ in.broken = {} /\ in.broken # {}

ExactRow(in, row) ==
  /\ row.proposal.values = row.observed.values
  /\ row.proposal.source = row.observed.source
  /\ row.proposal.source = IF row.ref \in Orders THEN in.vendor ELSE in.workcenter

FreshRow(row) ==
  IF row.ref \in Orders
  THEN /\ ~row.observed.locked
       /\ row.observed.blocking = {}
       /\ row.proposal.state = row.observed.state
       /\ row.proposal.revision = row.observed.revision
  ELSE /\ row.observed.state \in {"draft", "confirmed", "progress", "to_close"}
       /\ row.proposal.state = row.observed.state

Replay(local, in) ==
  IF local = Scope THEN ScopeIsExact(in)
  ELSE /\ in.rows # {}
       /\ \A row \in in.rows :
            row.ref \in in.broken /\ (IF local = Exact THEN ExactRow(in, row) ELSE FreshRow(row))
=============================================================================
