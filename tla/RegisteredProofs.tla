--------------------------- MODULE RegisteredProofs ---------------------------
(***************************************************************************)
(* Registered reviews.  The strict lane: what a closed check says is true  *)
(* of the sealed records (VerdictIsTrue), a fresh purchase order is still  *)
(* cancellable while its lineage is what was sealed (SealedIsCancellable), *)
(* and the Executor follows the program (ProgramIsFollowed), for any       *)
(* scenarios, proposals, bills and program.  The stages: no action is      *)
(* reviewed before its time (StageInOrder) and what is demanded of earlier *)
(* actions is observed in the same plan (DemandsObserved,                  *)
(* PostconditionsGuard), for any catalogue, proposals and receipts; there  *)
(* is a next stage until every action is done (StagesGoOn).                *)
(***************************************************************************)
EXTENDS StrictLane, ProofDag, ClosureLemmas, TLAPS

-----------------------------------------------------------------------------
(* The inductive invariant.                                                *)

OrderRecord ==
  [state : {"purchase"}, locked : BOOLEAN, invoice_ids : SUBSET Bills, write_date : Nat]
BillRecord == [id : Bills, state : {"draft", "posted"}, write_date : Nat]
Verdict == {"", "SUPPORTED", "CONTRADICTED", "NOT_FOUND"}

\* what is admitted comes from some order and some bills
Snapshot == {Admitted(o, bs) : o \in OrderRecord, bs \in SUBSET BillRecord}

OdooTyped ==
  /\ odoo \in [order : OrderRecord, bills : [Bills -> BillRecord], clock : Nat]
  /\ order \in OrderRecord \cup {NotRead}

ReadsTyped ==
  /\ admitted \in Snapshot \cup {NotRead}
  /\ case = [scenario |-> case.scenario, target |-> case.target,
             sealed |-> case.sealed, frozen |-> case.frozen]
  /\ case.sealed \in Snapshot \cup {NotRead}

\* before the seal nothing is closed; what is closed was replayed on the sealed records
Judged(c) ==
  /\ verdict[c] = StatusOf(Replay(c, InputsOf(c, case.sealed)))
  /\ Selectable(c, {case.scenario}, Live(case.sealed), Targets)

VerdictsJudged ==
  /\ verdict \in [LocalChecks -> Verdict]
  /\ phase \in {"reading", "proposed"} => \A c \in LocalChecks : verdict[c] = ""
  /\ phase \notin {"reading", "proposed"} => case.sealed \in Snapshot
  /\ phase = "proposed" => admitted \in Snapshot
  /\ \A c \in LocalChecks : verdict[c] # "" => Judged(c)

IInv == OdooTyped /\ ReadsTyped /\ VerdictsJudged

-----------------------------------------------------------------------------
(* Records of the two kinds are never equal, so a lineage determines the   *)
(* order and the bills it was made of.                                     *)

LEMMA KindsDiffer ==
  ASSUME NEW o \in OrderRecord, NEW b \in BillRecord
  PROVE o # b
<1>1. DOMAIN o = {"state", "locked", "invoice_ids", "write_date"}
  BY DEF OrderRecord
<1>2. DOMAIN b = {"id", "state", "write_date"}
  BY DEF BillRecord
<1>. QED BY <1>1, <1>2

LEMMA LineageDetermines ==
  ASSUME NEW o1 \in OrderRecord, NEW o2 \in OrderRecord,
         NEW bs1 \in SUBSET BillRecord, NEW bs2 \in SUBSET BillRecord,
         Lineage(o1, bs1) = Lineage(o2, bs2)
  PROVE o1 = o2 /\ bs1 = bs2
<1>1. {o1} \cup bs1 = {o2} \cup bs2
  BY DEF Lineage
<1>2. o1 \notin bs2 /\ o2 \notin bs1
  BY KindsDiffer
<1>3. o1 = o2
  BY <1>1, <1>2
<1>. QED BY <1>1, <1>2, <1>3, KindsDiffer

\* StatusOf is SUPPORTED exactly when the replay succeeds
LEMMA StatusIsResult ==
  ASSUME NEW r \in BOOLEAN
  PROVE /\ StatusOf(r) = "SUPPORTED" <=> r
        /\ StatusOf(r) # "" /\ StatusOf(r) \in Verdict
<1>1. CASE r = TRUE
  BY <1>1 DEF StatusOf, Verdict
<1>2. CASE r = FALSE
  BY <1>2 DEF StatusOf, Verdict
<1>. QED BY <1>1, <1>2

LEMMA ReplayIsBoolean ==
  ASSUME NEW c \in LocalChecks, NEW in
  PROVE Replay(c, in) \in BOOLEAN
BY DEF Replay, ScopeIsExact

LEMMA LiveTyped ==
  ASSUME OdooTyped
  PROVE LiveOrder \in OrderRecord /\ LiveBills \in SUBSET BillRecord
<1>1. odoo.order \in OrderRecord /\ odoo.bills \in [Bills -> BillRecord]
  BY DEF OdooTyped
<1>2. odoo.order.invoice_ids \in SUBSET Bills
  BY <1>1 DEF OrderRecord
<1>. QED BY <1>1, <1>2 DEF LiveOrder, LiveBills

LEMMA SnapshotFields ==
  ASSUME NEW o \in OrderRecord, NEW bs \in SUBSET BillRecord
  PROVE /\ Admitted(o, bs).revision = Lineage(o, bs)
        /\ Admitted(o, bs).locked = o.locked
        /\ Admitted(o, bs).blocking = BlockingBills(bs)
        /\ Admitted(o, bs).state = o.state
BY DEF Admitted

LEMMA NoneBlocking ==
  ASSUME NEW bs \in SUBSET BillRecord, BlockingBills(bs) = {}
  PROVE \A b \in bs : b.state \in {"cancel", "draft"}
BY DEF BlockingBills

-----------------------------------------------------------------------------
(* The steps.                                                              *)

LEMMA InitTyped == Init => IInv
<1> SUFFICES ASSUME Init PROVE IInv
  OBVIOUS
<1>1. OdooTyped
  <2>1. PICK locked \in BOOLEAN, ids \in SUBSET Bills, state \in {"draft", "posted"} :
          odoo = [order |-> [state |-> "purchase", locked |-> locked, invoice_ids |-> ids,
                             write_date |-> 0],
                  bills |-> [b \in Bills |-> [id |-> b, state |-> state, write_date |-> 0]],
                  clock |-> 0]
    BY DEF Init, OdooInit
  <2>2. odoo.order \in OrderRecord
    BY <2>1 DEF OrderRecord
  <2>3. odoo.bills \in [Bills -> BillRecord]
    <3>1. \A b \in Bills : [id |-> b, state |-> state, write_date |-> 0] \in BillRecord
      BY DEF BillRecord
    <3>2. odoo.bills = [b \in Bills |-> [id |-> b, state |-> state, write_date |-> 0]]
      BY <2>1
    <3>. QED BY <3>1, <3>2
  <2>4. odoo \in [order : OrderRecord, bills : [Bills -> BillRecord], clock : Nat]
    BY <2>1, <2>2, <2>3
  <2>. QED BY <2>4 DEF Init, OdooTyped
<1>2. ReadsTyped
  <2>1. PICK s \in Scenarios, p \in Proposals :
          case = [scenario |-> s, target |-> p, sealed |-> NotRead, frozen |-> NotRead]
    BY DEF Init
  <2>. QED BY <2>1 DEF Init, ReadsTyped
<1>3. VerdictsJudged
  <2>1. verdict = [c \in LocalChecks |-> ""] /\ phase = "reading"
    BY DEF Init
  <2>. QED BY <2>1 DEF VerdictsJudged, Verdict
<1>. QED BY <1>1, <1>2, <1>3 DEF IInv

\* what was judged stays judged while the case is the same
LEMMA SameCaseSameJudgement ==
  ASSUME NEW c \in LocalChecks, Judged(c), UNCHANGED verdict,
         case'.scenario = case.scenario, case'.target = case.target,
         case'.sealed = case.sealed
  PROVE Judged(c)'
BY DEF Judged, InputsOf, Live, Targets

LEMMA OdooStep ==
  ASSUME OdooTyped, OdooChanges
  PROVE OdooTyped'
<1>0. /\ odoo = [order |-> odoo.order, bills |-> odoo.bills, clock |-> odoo.clock]
      /\ odoo.order \in OrderRecord /\ odoo.bills \in [Bills -> BillRecord] /\ odoo.clock \in Nat
      /\ Now \in Nat
  BY DEF OdooTyped, Now
<1>1. ASSUME NEW new, Change(new),
             new \in [order : OrderRecord, bills : [Bills -> BillRecord], clock : Nat]
      PROVE OdooTyped'
  <2>1. odoo' \in [order : OrderRecord, bills : [Bills -> BillRecord], clock : Nat]
    BY <1>1 DEF Change
  <2>. QED BY <2>1, <1>1 DEF Change, OdooTyped
<1>2. CASE Change([odoo EXCEPT !.order.locked = ~@, !.order.write_date = Now])
  <2>1. [odoo.order EXCEPT !.locked = ~@, !.write_date = Now] \in OrderRecord
    BY <1>0 DEF OrderRecord
  <2>2. [odoo EXCEPT !.order.locked = ~@, !.order.write_date = Now]
          \in [order : OrderRecord, bills : [Bills -> BillRecord], clock : Nat]
    BY <1>0, <2>1 DEF OrderRecord
  <2>. QED BY <1>1, <1>2, <2>2
<1>3. CASE \E b \in Bills \ LiveOrder.invoice_ids :
             Change([odoo EXCEPT !.order.invoice_ids = @ \cup {b}, !.order.write_date = Now])
  <2>1. PICK b \in Bills :
          Change([odoo EXCEPT !.order.invoice_ids = @ \cup {b}, !.order.write_date = Now])
    BY <1>3
  <2>2. [odoo EXCEPT !.order.invoice_ids = @ \cup {b}, !.order.write_date = Now]
          \in [order : OrderRecord, bills : [Bills -> BillRecord], clock : Nat]
    BY <1>0 DEF OrderRecord
  <2>. QED BY <1>1, <2>1, <2>2
<1>4. ASSUME NEW b \in Bills, Change([odoo EXCEPT !.bills[b] = Turned(@)])
      PROVE OdooTyped'
  <2>1. odoo.bills[b] \in BillRecord
    BY <1>0
  <2>2. Turned(odoo.bills[b]) \in BillRecord
    BY <2>1, <1>0 DEF Turned, BillRecord
  <2>3. [odoo EXCEPT !.bills[b] = Turned(@)]
          \in [order : OrderRecord, bills : [Bills -> BillRecord], clock : Nat]
    BY <1>0, <2>2
  <2>. QED BY <1>1, <1>4, <2>3
<1>. QED BY <1>2, <1>3, <1>4 DEF OdooChanges

LEMMA AdmitStep ==
  ASSUME IInv, AdmitReads
  PROVE admitted' \in Snapshot
<1>1. PICK bills \in {{odoo.bills[b] : b \in order.invoice_ids}, LiveBills} :
        admitted' = Admitted(order, bills)
  BY DEF AdmitReads
<1>2. order \in OrderRecord
  BY DEF AdmitReads, IInv, OdooTyped
<1>3. bills \in SUBSET BillRecord
  <2>1. order.invoice_ids \in SUBSET Bills /\ odoo.bills \in [Bills -> BillRecord]
    BY <1>2 DEF OrderRecord, IInv, OdooTyped
  <2>. QED BY <2>1, LiveTyped DEF IInv
<1>. QED BY <1>1, <1>2, <1>3 DEF Snapshot

LEMMA ReadsStep ==
  ASSUME IInv, UNCHANGED <<case, phase, verdict>>,
         OdooTyped', admitted' \in Snapshot \cup {NotRead},
         admitted \in Snapshot => admitted' \in Snapshot
  PROVE IInv'
<1>1. ReadsTyped'
  BY DEF IInv, ReadsTyped
<1>2. \A c \in LocalChecks : Judged(c)' <=> Judged(c)
  BY DEF Judged, InputsOf, Live, Targets
<1>. QED BY <1>1, <1>2 DEF IInv, VerdictsJudged

\* A step that keeps the case and the verdicts, and stays behind the seal
LEMMA PhaseStep ==
  ASSUME IInv, UNCHANGED <<odoo, order, admitted, case, verdict>>,
         phase \notin {"reading", "proposed"}, phase' \notin {"reading", "proposed"}
  PROVE IInv'
<1>1. OdooTyped' /\ ReadsTyped'
  BY DEF IInv, OdooTyped, ReadsTyped
<1>2. \A c \in LocalChecks : Judged(c)' <=> Judged(c)
  BY DEF Judged, InputsOf, Live, Targets
<1>. QED BY <1>1, <1>2 DEF IInv, VerdictsJudged

LEMMA CompiledIsJudged ==
  ASSUME NEW c \in LocalChecks, NEW status, Compiles(c, status)
  PROVE /\ case.frozen = case.sealed
        /\ status = StatusOf(Replay(c, InputsOf(c, case.sealed)))
        /\ Selectable(c, {case.scenario}, Live(case.sealed), Targets)
BY DEF Compiles, LineageHolds

LEMMA VerifyStep ==
  ASSUME IInv, VerifyAndCompile
  PROVE IInv'
<1>1. PICK said \in [LocalChecks -> {"SUPPORTED", "CONTRADICTED", "NOT_FOUND"}] :
        verdict' = [c \in LocalChecks |->
          IF c \notin Closed /\ Compiles(c, said[c]) THEN said[c] ELSE verdict[c]]
  BY DEF VerifyAndCompile
<1>2. OdooTyped' /\ ReadsTyped'
  BY DEF IInv, OdooTyped, ReadsTyped, VerifyAndCompile
<1>3. verdict' \in [LocalChecks -> Verdict]
  BY <1>1 DEF IInv, VerdictsJudged, Verdict
<1>4. /\ phase = "verifying" /\ phase' = "stopped"
      /\ UNCHANGED <<admitted, case>>
  BY DEF VerifyAndCompile
<1>5. ASSUME NEW c \in LocalChecks, verdict'[c] # ""
      PROVE Judged(c)'
  <2>1. CASE c \notin Closed /\ Compiles(c, said[c])
    <3>1. verdict'[c] = StatusOf(Replay(c, InputsOf(c, case.sealed)))
      BY <1>1, <2>1, CompiledIsJudged
    <3>. QED BY <1>4, <2>1, <3>1, CompiledIsJudged DEF Judged, InputsOf, Live, Targets
  <2>2. CASE ~(c \notin Closed /\ Compiles(c, said[c]))
    <3>1. verdict'[c] = verdict[c]
      BY <1>1, <2>2
    <3>2. Judged(c)
      BY <1>5, <3>1 DEF IInv, VerdictsJudged
    <3>. QED BY <1>4, <3>1, <3>2 DEF Judged, InputsOf, Live, Targets
  <2>. QED BY <2>1, <2>2
<1>. QED BY <1>2, <1>3, <1>4, <1>5 DEF IInv, VerdictsJudged

LEMMA ProposeStep ==
  ASSUME IInv, Propose
  PROVE IInv'
<1>1. /\ phase = "reading" /\ phase' = "proposed" /\ admitted \in Snapshot
      /\ UNCHANGED <<odoo, order, admitted, verdict>>
  BY DEF Propose, IInv, ReadsTyped
<1>2. ReadsTyped'
  BY <1>1 DEF Propose, IInv, ReadsTyped
<1>3. \A c \in LocalChecks : verdict'[c] = ""
  BY <1>1 DEF IInv, VerdictsJudged
<1>. QED BY <1>1, <1>2, <1>3 DEF IInv, OdooTyped, VerdictsJudged

LEMMA SealStep ==
  ASSUME IInv, Seal
  PROVE IInv'
<1>1. /\ phase = "proposed" /\ phase' = "sealed" /\ admitted \in Snapshot
      /\ UNCHANGED <<odoo, order, admitted, verdict>>
  BY DEF Seal, IInv, VerdictsJudged
<1>2. ReadsTyped' /\ case'.sealed = admitted
  BY <1>1 DEF Seal, IInv, ReadsTyped
<1>3. \A c \in LocalChecks : verdict'[c] = ""
  BY <1>1 DEF IInv, VerdictsJudged
<1>. QED BY <1>1, <1>2, <1>3 DEF IInv, OdooTyped, VerdictsJudged

LEMMA ResumeStep ==
  ASSUME IInv, Resume
  PROVE IInv'
<1>1. /\ phase = "stopped" /\ phase' \in {"sealed", "source_changed"}
      /\ UNCHANGED <<odoo, order, admitted, verdict>>
  BY DEF Resume
<1>2. /\ ReadsTyped' /\ case'.scenario = case.scenario /\ case'.target = case.target
      /\ case'.sealed = case.sealed
  BY <1>1 DEF Resume, IInv, ReadsTyped
<1>3. \A c \in LocalChecks : Judged(c) => Judged(c)'
  BY <1>1, <1>2, SameCaseSameJudgement
<1>. QED BY <1>1, <1>2, <1>3 DEF IInv, OdooTyped, VerdictsJudged

LEMMA StepKeepsIInv ==
  ASSUME IInv, [Next]_vars
  PROVE IInv'
<1>1. CASE OdooChanges
  <2>1. OdooTyped'
    BY <1>1, OdooStep DEF IInv
  <2>2. UNCHANGED <<admitted, case, phase, verdict>>
    BY <1>1 DEF OdooChanges, Change
  <2>. QED BY <2>1, <2>2, ReadsStep DEF IInv, ReadsTyped
<1>2. CASE ReadOrder
  <2>1. OdooTyped'
    BY <1>2, LiveTyped DEF ReadOrder, IInv, OdooTyped
  <2>. QED BY <1>2, <2>1, ReadsStep DEF ReadOrder, IInv, ReadsTyped
<1>3. CASE AdmitReads
  <2>1. OdooTyped' /\ UNCHANGED <<case, phase, verdict>>
    BY <1>3 DEF AdmitReads, IInv, OdooTyped
  <2>. QED BY <1>3, <2>1, AdmitStep, ReadsStep
<1>4. CASE Propose
  BY <1>4, ProposeStep
<1>5. CASE Seal
  BY <1>5, SealStep
<1>6. CASE Preflight
  BY <1>6, PhaseStep DEF Preflight
<1>7. ASSUME NEW c \in LocalChecks, RunRegisteredCheck(c)
      PROVE IInv'
  <2>1. phase = "executing" /\ UNCHANGED <<odoo, order, admitted, case, phase, verdict>>
    BY <1>7 DEF RunRegisteredCheck, Calls
  <2>. QED BY <2>1, PhaseStep
<1>8. ASSUME NEW args, SubmitCheck(args)
      PROVE IInv'
  <2>1. phase = "executing" /\ UNCHANGED <<odoo, order, admitted, case, phase, verdict>>
    BY <1>8 DEF SubmitCheck, Calls
  <2>. QED BY <2>1, PhaseStep
<1>9. CASE ExecutorStops
  BY <1>9, PhaseStep DEF ExecutorStops
<1>10. CASE VerifyAndCompile
  BY <1>10, VerifyStep
<1>11. CASE Resume
  BY <1>11, ResumeStep
<1>12. CASE UNCHANGED vars
  <2>1. OdooTyped' /\ UNCHANGED <<admitted, case, phase, verdict>>
    BY <1>12 DEF vars, IInv, OdooTyped
  <2>. QED BY <2>1, ReadsStep DEF IInv, ReadsTyped
<1>. QED BY <1>1, <1>2, <1>3, <1>4, <1>5, <1>6, <1>7, <1>8, <1>9, <1>10, <1>11, <1>12 DEF Next

LEMMA IInvHolds == Spec => []IInv
<1>1. Init => IInv
  BY InitTyped
<1>2. IInv /\ [Next]_vars => IInv'
  BY StepKeepsIInv
<1>. QED BY <1>1, <1>2, PTL DEF Spec

-----------------------------------------------------------------------------
(* What a replay says, read off the scenario, the target and the snapshot. *)

LEMMA OneRow ==
  ASSUME NEW c
  PROVE InputsOf(c, case.sealed).rows =
          {TargetRecord(c, case.scenario, Live(case.sealed), case.target)}
BY DEF InputsOf, SelectInputs, Targets

LEMMA ScopeSays ==
  Replay(Scope, InputsOf(Scope, case.sealed)) <=> case.scenario.broken = {case.target.ref}
<1> DEFINE in == InputsOf(Scope, case.sealed)
<1>1. in.broken = case.scenario.broken
  BY DEF InputsOf, SelectInputs, Broken
<1> DEFINE one == TargetRecord(Scope, case.scenario, Live(case.sealed), case.target)
<1>2. in.rows = {one} /\ one.ref = case.target.ref
  BY OneRow DEF TargetRecord
<1>. HIDE DEF in, one
<1>3. {row.ref : row \in in.rows} = {case.target.ref}
  BY <1>2
<1>. QED BY <1>1, <1>3 DEF Replay, ScopeIsExact, in

LEMMA ExactSays ==
  LET s == case.scenario
      t == case.target
  IN  Replay(Exact, InputsOf(Exact, case.sealed)) <=>
        /\ t.ref \in s.broken
        /\ t.values = s.rows[t.ref].values
        /\ t.source = s.rows[t.ref].source
        /\ t.source = IF t.ref = Order THEN s.vendor ELSE s.workcenter
<1> DEFINE in == InputsOf(Exact, case.sealed)
           row == TargetRecord(Exact, case.scenario, Live(case.sealed), case.target)
<1>1. /\ in.broken = case.scenario.broken /\ in.vendor = case.scenario.vendor
      /\ in.workcenter = case.scenario.workcenter /\ in.rows = {row}
  BY OneRow DEF InputsOf, SelectInputs, Broken
<1>2. /\ row.ref = case.target.ref /\ row.proposal = case.target
      /\ row.observed.values = case.scenario.rows[case.target.ref].values
      /\ row.observed.source = case.scenario.rows[case.target.ref].source
  BY DEF TargetRecord, Observed, Exact, Fresh
<1>3. Exact # Scope
  BY DEF Exact, Scope
<1> HIDE DEF in, row
<1>4. Replay(Exact, in) <=> row.ref \in in.broken /\ ExactRow(in, row)
  BY <1>1, <1>3 DEF Replay
<1>. QED BY <1>1, <1>2, <1>4, OneOrder DEF ExactRow, in

LEMMA FreshSays ==
  LET s == case.scenario
      t == case.target
      snap == case.sealed
  IN  Replay(Fresh, InputsOf(Fresh, case.sealed)) <=>
        /\ t.ref \in s.broken
        /\ IF t.ref = Order
           THEN /\ ~snap.locked /\ snap.blocking = {} /\ t.state = snap.state
                /\ t.revision = snap.revision
           ELSE /\ t.state = s.rows[t.ref].state
                /\ t.state \in {"draft", "confirmed", "progress", "to_close"}
<1> DEFINE in == InputsOf(Fresh, case.sealed)
           row == TargetRecord(Fresh, case.scenario, Live(case.sealed), case.target)
<1>1. in.broken = case.scenario.broken /\ in.rows = {row}
  BY OneRow DEF InputsOf, SelectInputs, Broken
<1>2. row.ref = case.target.ref /\ row.proposal = case.target
  BY DEF TargetRecord
<1>3. case.target.ref = Order =>
        /\ row.observed.state = case.sealed.state /\ row.observed.locked = case.sealed.locked
        /\ row.observed.blocking = case.sealed.blocking
        /\ row.observed.revision = case.sealed.revision
  BY OneOrder DEF TargetRecord, Live
<1>4. case.target.ref # Order => row.observed.state = case.scenario.rows[case.target.ref].state
  BY OneOrder DEF TargetRecord, Observed
<1>5. Fresh # Scope /\ Fresh # Exact
  BY DEF Exact, Fresh, Scope
<1> HIDE DEF in, row
<1>6. Replay(Fresh, in) <=> row.ref \in in.broken /\ FreshRow(row)
  BY <1>1, <1>5 DEF Replay
<1>. QED BY <1>1, <1>2, <1>3, <1>4, <1>6, OneOrder DEF FreshRow, in

LEMMA SupportedMeansReplayed ==
  ASSUME IInv, NEW c \in LocalChecks, verdict[c] # ""
  PROVE verdict[c] = "SUPPORTED" <=> Replay(c, InputsOf(c, case.sealed))
<1>1. verdict[c] = StatusOf(Replay(c, InputsOf(c, case.sealed)))
  BY DEF IInv, VerdictsJudged, Judged
<1>2. Replay(c, InputsOf(c, case.sealed)) \in BOOLEAN
  BY ReplayIsBoolean
<1>. QED BY <1>1, <1>2, StatusIsResult

-----------------------------------------------------------------------------
(* Whatever the Executor calls and the Verifier claims, a check is closed  *)
(* as SUPPORTED exactly when the sealed records say so: the Kernel's replay *)
(* (kernel.py) is the only way to a verdict.                               *)
THEOREM ClosedIsTrue == Spec => []VerdictIsTrue
<1>1. ASSUME IInv PROVE VerdictIsTrue
  <2>1. \A c \in Closed : c \in LocalChecks /\ verdict[c] # ""
    BY DEF Closed
  <2>2. \A c \in LocalChecks : c \in {Scope, Exact, Fresh}
    BY DEF LocalChecks, Scope, Exact, Fresh
  <2>3. Scope # Exact /\ Scope # Fresh /\ Exact # Fresh
    BY DEF Scope, Exact, Fresh
  <2>4. \A c \in Closed : verdict[c] = "SUPPORTED" <=> Replay(c, InputsOf(c, case.sealed))
    BY <1>1, <2>1, SupportedMeansReplayed
  <2>. QED BY <2>1, <2>2, <2>3, <2>4, ScopeSays, ExactSays, FreshSays DEF VerdictIsTrue
<1>. QED BY <1>1, IInvHolds, PTL

\* A purchase order closed as fresh has no lock and no blocking bill as long as order and
\* bills carry the revision that was sealed, however they were read and changed meanwhile
\* (purchase_order_cancellation.py, erp_resolvers.py).
THEOREM FreshStaysCancellable == Spec => []SealedIsCancellable
<1>1. ASSUME IInv PROVE SealedIsCancellable
  <2> SUFFICES ASSUME verdict[Fresh] = "SUPPORTED", case.target.ref = Order,
                      case.sealed.revision = Lineage(LiveOrder, LiveBills)
               PROVE Cancellable(LiveOrder, LiveBills)
    BY DEF SealedIsCancellable
  <2>1. Fresh \in LocalChecks
    BY DEF Fresh, LocalChecks
  <2>2. ~case.sealed.locked /\ case.sealed.blocking = {}
    BY <1>1, <2>1, SupportedMeansReplayed, FreshSays
  <2>3. case.sealed \in Snapshot
    BY <1>1, <2>1 DEF IInv, VerdictsJudged
  <2>4. PICK o \in OrderRecord, bs \in SUBSET BillRecord : case.sealed = Admitted(o, bs)
    BY <2>3 DEF Snapshot
  <2>5. o = LiveOrder /\ bs = LiveBills
    BY <1>1, <2>4, SnapshotFields, LiveTyped, LineageDetermines DEF IInv
  <2>. QED BY <2>2, <2>4, <2>5, SnapshotFields, NoneBlocking DEF Cancellable
<1>. QED BY <1>1, IInvHolds, PTL

-----------------------------------------------------------------------------
(* The program.  While the Executor runs, what was submitted lies behind   *)
(* the place the program is at, and the arguments it waits for are those   *)
(* of the receipt of the check at that place.                              *)

Args(c) == [check |-> c, witness |-> c, relation |-> RelationOf(witness[c].result)]
Behind == {i \in Steps : submitted[Program[i]] # Nothing}
Answered(i) ==
  submitted[Program[i]] =
    [witness |-> Program[i], relation |-> RelationOf(witness[Program[i]].result)]

ProgramState ==
  [step : Nat, phase : {"run", "submit_1"}, halted : BOOLEAN,
   args : {Nothing} \cup [check : LocalChecks, witness : LocalChecks,
                         relation : {"CHECK_SATISFIED", "CHECK_VIOLATED"}]]

FollowInv ==
  /\ DOMAIN submitted = LocalChecks /\ DOMAIN witness = LocalChecks
  /\ strict \in ProgramState
  /\ phase = "executing" =>
       /\ Behind = Steps \ Ahead
       /\ \A i \in Behind : Answered(i)
       /\ strict.phase = "submit_1" => ~Complete /\ strict.args = Args(Step)

\* the least place ahead is one of the program
LEMMA StepIsAhead ==
  ASSUME strict.step \in Nat, ~Complete
  PROVE  /\ Min(Ahead) \in Ahead /\ \A i \in Ahead : Min(Ahead) <= i
         /\ Min(Ahead) \in Steps /\ Min(Ahead) \in Nat /\ Step = Program[Min(Ahead)]
         /\ Step \in LocalChecks
<1>1. DOMAIN Program \subseteq Nat /\ \A i \in DOMAIN Program : Program[i] \in LocalChecks
  BY ProgramAssumption
<1>2. Ahead \in SUBSET Nat /\ Ahead # {} /\ Ahead \subseteq Steps
  BY <1>1 DEF Ahead, Steps, Complete
<1>3. \E m \in Ahead : \A t \in Ahead : m <= t
  BY <1>2, LeastNumber
<1>4. Min(Ahead) \in Ahead /\ \A i \in Ahead : Min(Ahead) <= i
  BY <1>3 DEF Min
<1>. QED BY <1>1, <1>2, <1>4 DEF Step, Steps

\* no two steps are the same check
LEMMA StepsDiffer ==
  ASSUME NEW i \in Steps, NEW j \in Steps, Program[i] = Program[j]
  PROVE  i = j
BY ProgramAssumption DEF Steps

LEMMA RunFollows ==
  ASSUME FollowInv, NEW c \in LocalChecks, RunRegisteredCheck(c)
  PROVE  FollowInv'
<1>1. /\ phase = "executing" /\ c = Step /\ ~Complete /\ strict.step \in Nat
      /\ UNCHANGED <<phase, submitted, verdict>>
  BY DEF RunRegisteredCheck, Calls, MayRun, FollowInv, ProgramState
<1>2. Steps' = Steps
  BY <1>1 DEF Steps, Closed
<1>3. /\ Min(Ahead) \in Ahead /\ Min(Ahead) \in Steps /\ c = Program[Min(Ahead)]
  BY <1>1, StepIsAhead
<1>4. strict'.step = strict.step
  BY DEF RunRegisteredCheck, FollowInv, ProgramState
<1>5. Ahead' = Ahead /\ Step' = Step /\ (Complete' <=> Complete) /\ Behind' = Behind
  BY <1>1, <1>2, <1>4 DEF Ahead, Step, Complete, Behind
<1>6. \A i \in Behind : i # Min(Ahead) /\ Program[i] # c /\ Program[i] \in LocalChecks
  <2>1. Behind = Steps \ Ahead
    BY <1>1 DEF FollowInv, ProgramState
  <2>2. Steps \subseteq DOMAIN Program
    BY DEF Steps
  <2>. QED BY <2>1, <2>2, <1>3, StepsDiffer, ProgramAssumption
<1>7. \A i \in Behind : witness'[Program[i]] = witness[Program[i]]
  BY <1>6 DEF RunRegisteredCheck, FollowInv, ProgramState
<1>8. \A i \in Behind' : Answered(i)'
  BY <1>1, <1>5, <1>7 DEF FollowInv, ProgramState, Answered
<1>9. DOMAIN witness' = LocalChecks
  BY DEF RunRegisteredCheck, FollowInv, ProgramState
<1>10. strict'.phase = "submit_1" => strict'.args = Args(Step)'
  <2>1. CASE Resolves(c)
    BY <2>1, <1>1, <1>5 DEF RunRegisteredCheck, FollowInv, ProgramState, Args
  <2>2. CASE ~Resolves(c)
    <3>1. strict'.phase = strict.phase
      BY <2>2 DEF RunRegisteredCheck, FollowInv, ProgramState
    <3>. QED BY <3>1 DEF RunRegisteredCheck, MayRun
  <2>. QED BY <2>1, <2>2
<1>11. strict' \in ProgramState
  <2>1. [check |-> c, witness |-> c, relation |-> RelationOf(witness'[c].result)]
          \in [check : LocalChecks, witness : LocalChecks,
              relation : {"CHECK_SATISFIED", "CHECK_VIOLATED"}]
    BY DEF RelationOf
  <2>. QED BY <2>1 DEF RunRegisteredCheck, FollowInv, ProgramState
<1>. QED BY <1>1, <1>2, <1>4, <1>5, <1>8, <1>9, <1>10, <1>11 DEF FollowInv, ProgramState

LEMMA SubmitFollows ==
  ASSUME FollowInv, NEW args, SubmitCheck(args)
  PROVE  FollowInv'
<1>1. /\ phase = "executing" /\ ~Complete /\ strict.step \in Nat
      /\ args = Args(Step) /\ UNCHANGED <<phase, witness, verdict>>
  BY DEF SubmitCheck, Calls, MaySubmit, FollowInv, ProgramState
<1>2. Steps' = Steps
  BY <1>1 DEF Steps, Closed
<1>3. PICK here \in Nat :
      /\ here = Min(Ahead) /\ here \in Ahead /\ \A i \in Ahead : here <= i
      /\ here \in Steps /\ Step = Program[here] /\ Step \in LocalChecks
  BY <1>1, StepIsAhead
<1>4. /\ strict' = [strict EXCEPT !.step = here + 1, !.phase = "run", !.args = Nothing]
      /\ submitted' = [submitted EXCEPT ![Step] =
           [witness |-> Step, relation |-> RelationOf(witness[Step].result)]]
  BY <1>1, <1>3 DEF SubmitCheck, Args
<1>5. /\ strict' \in ProgramState
      /\ strict'.step = here + 1 /\ strict'.phase = "run"
  <2>1. strict \in ProgramState /\ here + 1 \in Nat
    BY DEF FollowInv
  <2>. QED BY <1>4, <2>1 DEF ProgramState
<1>6. \A i \in Steps : i \in Nat /\ Program[i] \in LocalChecks
  BY ProgramAssumption DEF Steps
<1>7. Ahead' = Ahead \ {here}
  <2>1. \A i \in Steps : i \in Ahead' <=> i >= here + 1
    BY <1>2, <1>5 DEF Ahead
  <2>2. \A i \in Steps : i \in Ahead <=> i >= strict.step
    BY DEF Ahead
  <2>3. here >= strict.step
    BY <1>3, <2>2
  <2>4. \A i \in Steps : i \in Ahead' <=> i \in Ahead /\ i # here
    BY <1>1, <1>3, <1>6, <2>1, <2>2, <2>3
  <2>. QED BY <1>2, <2>4 DEF Ahead
<1>8. /\ DOMAIN submitted' = LocalChecks
      /\ submitted'[Step] = [witness |-> Step, relation |-> RelationOf(witness[Step].result)]
      /\ \A c \in LocalChecks \ {Step} : submitted'[c] = submitted[c]
  BY <1>3, <1>4 DEF FollowInv, ProgramState
<1>9. submitted'[Step] # Nothing
  <2>1. submitted'[Step].relation # ""
    BY <1>8 DEF RelationOf
  <2>2. Nothing.relation = ""
    BY DEF Nothing
  <2>. QED BY <2>1, <2>2
<1>10. \A i \in Steps \ {here} : Program[i] # Step
  BY <1>3, StepsDiffer
<1>11. Behind' = Behind \cup {here}
  BY <1>2, <1>3, <1>6, <1>8, <1>9, <1>10 DEF Behind
<1>12. Behind' = (Steps \ Ahead)'
  BY <1>1, <1>2, <1>3, <1>7, <1>11 DEF FollowInv, ProgramState
<1>13. \A i \in Behind' : Answered(i)'
  <2>1. Answered(here)'
    BY <1>1, <1>3, <1>8 DEF Answered
  <2>2. ASSUME NEW i \in Behind, i # here
        PROVE  Answered(i)'
    <3>1. i \in Steps /\ Answered(i)
      BY <1>1, <2>2 DEF Behind, FollowInv, ProgramState
    <3>. QED BY <3>1, <2>2, <1>1, <1>6, <1>8, <1>10 DEF Answered
  <2>. QED BY <2>1, <2>2, <1>11
<1>. QED BY <1>1, <1>5, <1>8, <1>12, <1>13 DEF FollowInv, ProgramState

LEMMA PreflightFollows ==
  ASSUME FollowInv, Preflight
  PROVE  FollowInv'
<1>1. /\ UNCHANGED verdict /\ strict' = NewProgram
      /\ submitted' = [c \in LocalChecks |-> IF c \in Closed THEN submitted[c] ELSE Nothing]
      /\ DOMAIN submitted' = LocalChecks /\ DOMAIN witness' = LocalChecks
  BY DEF Preflight
<1>2. Steps' = Steps
  BY <1>1 DEF Steps, Closed
<1>3. \A i \in Steps : Program[i] \in LocalChecks \ Closed /\ i \in Nat /\ i >= 1
  BY ProgramAssumption DEF Steps
<1>4. Behind' = {}
  BY <1>1, <1>2, <1>3 DEF Behind
<1>5. strict'.step = 1 /\ strict'.phase = "run"
  BY <1>1 DEF NewProgram
<1>6. Ahead' = Steps'
  BY <1>2, <1>3, <1>5 DEF Ahead
<1>7. strict' \in ProgramState
  BY <1>1 DEF NewProgram, ProgramState
<1>. QED BY <1>1, <1>4, <1>5, <1>6, <1>7 DEF FollowInv, ProgramState

LEMMA OthersFollow ==
  ASSUME FollowInv, UNCHANGED <<strict, submitted, witness>>,
         phase' # "executing" \/ UNCHANGED <<phase, verdict>>
  PROVE  FollowInv'
<1>1. CASE phase' # "executing"
  BY <1>1 DEF FollowInv, ProgramState
<1>2. CASE UNCHANGED <<phase, verdict>>
  <2>1. Steps' = Steps
    BY <1>2 DEF Steps, Closed
  <2>2. Ahead' = Ahead /\ Step' = Step /\ (Complete' <=> Complete) /\ Behind' = Behind
    BY <2>1 DEF Ahead, Step, Complete, Behind
  <2>3. Args(Step)' = Args(Step) /\ \A i : Answered(i)' <=> Answered(i)
    BY <2>2 DEF Args, Answered
  <2>. QED BY <1>2, <2>1, <2>2, <2>3 DEF FollowInv, ProgramState
<1>. QED BY <1>1, <1>2

\* Whatever calls the Executor tries, what it submits is the program: the checks that are
\* not closed, in the order of the plan, none after a halt, each with the receipt and the
\* relation the host derived (_sandbox_tools of runtime.py, strict_state).
THEOREM ExecutorFollowsProgram == Spec => []ProgramIsFollowed
<1>1. Init => FollowInv
  <2> SUFFICES ASSUME Init PROVE FollowInv
    OBVIOUS
  <2>1. /\ strict = [step |-> 1, phase |-> "run", args |-> Nothing, halted |-> FALSE]
        /\ DOMAIN submitted = LocalChecks /\ DOMAIN witness = LocalChecks
        /\ phase = "reading"
    BY DEF Init, NewProgram
  <2>. QED BY <2>1 DEF FollowInv, ProgramState
<1>2. FollowInv /\ [Next]_vars => FollowInv'
  <2> SUFFICES ASSUME FollowInv, [Next]_vars PROVE FollowInv'
    OBVIOUS
  <2>1. CASE OdooChanges \/ ReadOrder \/ AdmitReads \/ UNCHANGED vars
    BY <2>1, OthersFollow DEF OdooChanges, Change, ReadOrder, AdmitReads, vars
  <2>2. CASE Propose \/ Seal \/ ExecutorStops \/ VerifyAndCompile \/ Resume
    BY <2>2, OthersFollow DEF Propose, Seal, ExecutorStops, VerifyAndCompile, Resume
  <2>3. CASE Preflight
    BY <2>3, PreflightFollows
  <2>4. ASSUME NEW c \in LocalChecks, RunRegisteredCheck(c)
        PROVE  FollowInv'
    BY <2>4, RunFollows
  <2>5. ASSUME NEW args, SubmitCheck(args)
        PROVE  FollowInv'
    BY <2>5, SubmitFollows
  <2>. QED BY <2>1, <2>2, <2>3, <2>4, <2>5 DEF Next
<1>3. FollowInv => ProgramIsFollowed
  BY DEF FollowInv, ProgramState, ProgramIsFollowed, Behind, Answered
<1>. QED BY <1>1, <1>2, <1>3, PTL DEF Spec

-----------------------------------------------------------------------------
(* What Onward reaches: the smallest set around its start that no edge     *)
(* leads out of.                                                           *)

ClosedUnder(edges, C) == \A e \in edges : e[1] \in C => e[2] \in C

Reaches(edges, from, R) ==
  /\ from \subseteq R /\ ClosedUnder(edges, R)
  /\ \A C : from \subseteq C /\ ClosedUnder(edges, C) => R \subseteq C

LEMMA OnwardReaches ==
  ASSUME NEW U, IsFiniteSet(U), NEW edges, \A e \in edges : e[1] \in U /\ e[2] \in U,
         NEW from \in SUBSET U
  PROVE  Reaches(edges, from, Onward(edges, from))
<1> DEFINE K == {e[1] : e \in edges}
           E == [n \in K |-> {e[2] : e \in {x \in edges : x[1] = n}}]
           N == Cardinality(K)
           Is(f) == f = [k \in 0..N |->
                           IF k = 0 THEN from
                           ELSE f[k - 1] \cup (UNION {E[n] : n \in f[k - 1] \cap K})]
           far == CHOOSE f : Is(f)
<1>1. Onward(edges, from) = far[N]
  BY DEF Onward
<1>2. K \subseteq U /\ IsFiniteSet(K) /\ N \in Nat /\ \A x \in K : E[x] \subseteq U
  <2>1. K \in SUBSET U
    OBVIOUS
  <2>2. IsFiniteSet(K) /\ N \in Nat
    BY <2>1, FS_Subset, FS_CardinalityType
  <2>. QED BY <2>1, <2>2
<1>3. Is(far)
  <2>1. PICK f \in [0..N -> SUBSET U] : Walks(f, from, K, E, N)
    <3> HIDE DEF N, K, E
    <3>. QED BY <1>2, WalkExists
  <2>2. Is(f)
    <3> HIDE DEF N, K, E
    <3>. QED BY <2>1 DEF Walks
  <2>. QED BY <2>2, Zenon
<1>4. Walks(far, from, K, E, N)
  <2> HIDE DEF N, K, E, far
  <2>. QED BY <1>3 DEF Walks
<1>5. \A C : ClosedIn(C, K, E) <=> ClosedUnder(edges, C)
  BY DEF ClosedIn, ClosedUnder
<1>6. SmallestAround(U, K, E, from, far[N])
  <2>1. FullWalk(U, K, E, from, far, far[N])
    <3> HIDE DEF K, E, far
    <3>. QED BY <1>2, <1>4 DEF FullWalk
  <2> HIDE DEF N, K, E, far
  <2>. QED BY <2>1, WalkMeets
<1> HIDE DEF N, K, E, far
<1>. QED BY <1>1, <1>5, <1>6 DEF SmallestAround, Reaches

-----------------------------------------------------------------------------
(* The DAG of a routing.                                                   *)

Nodes(p, route) == Acts(p) \cup SharedOf(route)
Routed(p, route) ==
  p \in Sealed /\ route \in [Acts(p) -> DOMAIN Catalog] /\ Protected(p, route)

\* every edge is one the catalogue gives an action or a shared node
LEMMA EdgesAre ==
  ASSUME NEW p, NEW route, Routed(p, route)
  PROVE  /\ \A e \in Edges(p, route) : /\ e[1] \in Nodes(p, route) /\ e[2] \in Nodes(p, route)
                                       /\ e = <<e[1], e[2]>>
         /\ \A a \in Acts(p) : \A s \in Required(p, route, a) : <<s, a>> \in Edges(p, route)
         /\ \A a \in Acts(p) : \A r \in Rules(p, route, a) : \A b \in Candidates(p, route, r) :
              <<b, a>> \in Edges(p, route)
         /\ \A s \in SharedOf(route) : \A b \in Establishing(p, s) : <<b, s>> \in Edges(p, route)
         /\ \A a \in Acts(p) : Required(p, route, a) \subseteq SharedOf(route)
         /\ SharedOf(route) \in SUBSET DOMAIN Shared
<1>1. \A t \in Range(route) : t \in DOMAIN Catalog
  BY DEF Routed, Range
<1>2. \A a \in Acts(p) : /\ route[a] \in Range(route)
                         /\ Line(p, a).stage \in DOMAIN Catalog[route[a]].shared
  BY DEF Routed, Range, Protected
<1>3. SharedOf(route) \subseteq DOMAIN Shared
  BY <1>1, CatalogAssumption DEF SharedOf, Range
<1>4. \A a \in Acts(p) : Required(p, route, a) \subseteq SharedOf(route)
  BY <1>2 DEF Required, SharedOf, Range
<1>5. /\ \A a, r : Candidates(p, route, r) \subseteq Acts(p)
      /\ \A s : Establishing(p, s) \subseteq Acts(p)
  BY DEF Candidates, Establishing
<1>6. \A e : e \in Edges(p, route) <=>
        \/ \E a \in Acts(p) : \E s \in Required(p, route, a) : e = <<s, a>>
        \/ \E a \in Acts(p) : \E r \in Rules(p, route, a) :
             \E b \in Candidates(p, route, r) : e = <<b, a>>
        \/ \E s \in SharedOf(route) : \E b \in Establishing(p, s) : e = <<b, s>>
  BY DEF Edges
<1>. QED BY <1>3, <1>4, <1>5, <1>6 DEF Nodes

LEMMA NodesFinite ==
  ASSUME NEW p, NEW route, Routed(p, route)
  PROVE  IsFiniteSet(Nodes(p, route)) /\ IsFiniteSet(Acts(p))
<1> DEFINE f == [i \in DOMAIN p |-> p[i].id]
<1>1. f \in Surjection(DOMAIN p, Acts(p)) /\ IsFiniteSet(DOMAIN p)
  BY CatalogAssumption DEF Surjection, Acts, ToSet, Routed
<1> HIDE DEF f
<1>2. IsFiniteSet(Acts(p))
  BY <1>1, FS_Surjection
<1>3. IsFiniteSet(SharedOf(route))
  BY EdgesAre, CatalogAssumption, FS_Subset
<1>. QED BY <1>2, <1>3, FS_Union DEF Nodes

-----------------------------------------------------------------------------
(* Behind an action of the plan, everything is done and nothing is blocked. *)

\* Blocked reaches onward from what an unfinished action leads to
LEMMA BlockedIs ==
  ASSUME NEW p, NEW route, Routed(p, route), NEW done
  PROVE  /\ \A e \in Edges(p, route) : e[1] \in Acts(p) \ done
                                         => e[2] \in Blocked(p, Edges(p, route), done)
         /\ ClosedUnder(Edges(p, route), Blocked(p, Edges(p, route), done))
<1> DEFINE edges == Edges(p, route)
           from == {e[2] : e \in {x \in edges : x[1] \in Acts(p) \ done}}
<1>1. \A e \in edges : e[1] \in Nodes(p, route) /\ e[2] \in Nodes(p, route)
  BY EdgesAre
<1>2. IsFiniteSet(Nodes(p, route)) /\ from \in SUBSET Nodes(p, route)
  BY <1>1, NodesFinite DEF Routed
<1>3. Blocked(p, edges, done) = Onward(edges, from)
  BY DEF Blocked
<1>4. Reaches(edges, from, Onward(edges, from))
  <2> HIDE DEF edges, from
  <2>. QED BY <1>1, <1>2, OnwardReaches
<1>5. \A e \in edges : e[1] \in Acts(p) \ done => e[2] \in from
  OBVIOUS
<1> HIDE DEF edges, from
<1>6. from \subseteq Blocked(p, edges, done) /\ ClosedUnder(edges, Blocked(p, edges, done))
  BY <1>3, <1>4 DEF Reaches
<1>. QED BY <1>5, <1>6 DEF edges

\* what an action that is not blocked follows is done, and is not blocked either
LEMMA FollowsDone ==
  ASSUME NEW p, NEW route, Routed(p, route), NEW done,
         NEW a \in Acts(p), a \notin Blocked(p, Edges(p, route), done)
  PROVE  Follows(p, route, a) \subseteq done \ Blocked(p, Edges(p, route), done)
<1> DEFINE edges == Edges(p, route)
           B == Blocked(p, edges, done)
<1>1. /\ \A e \in edges : e[1] \in Acts(p) \ done => e[2] \in B
      /\ \A e \in edges : e[1] \in B => e[2] \in B
  BY BlockedIs DEF ClosedUnder
<1>2. /\ \A s \in Required(p, route, a) : <<s, a>> \in edges /\ s \in SharedOf(route)
      /\ \A r \in Rules(p, route, a) : \A b \in Candidates(p, route, r) : <<b, a>> \in edges
      /\ \A s \in SharedOf(route) : \A b \in Establishing(p, s) : <<b, s>> \in edges
  BY EdgesAre
<1> SUFFICES ASSUME NEW b \in Follows(p, route, a) PROVE b \in done /\ b \notin B
  OBVIOUS
<1> HIDE DEF edges, B
<1>3. CASE \E r \in Rules(p, route, a) : b \in Candidates(p, route, r)
  <2>1. <<b, a>> \in edges /\ b \in Acts(p)
    BY <1>2, <1>3 DEF Follows
  <2>. QED BY <1>1, <2>1 DEF B, edges
<1>4. CASE \E s \in Required(p, route, a) : Line(p, b).kind \in Shared[s]
  <2>1. PICK s \in Required(p, route, a) : Line(p, b).kind \in Shared[s]
    BY <1>4
  <2>2. b \in Establishing(p, s) /\ b \in Acts(p)
    BY <2>1 DEF Follows, Establishing
  <2>3. <<b, s>> \in edges /\ <<s, a>> \in edges
    BY <1>2, <2>1, <2>2
  <2>. QED BY <1>1, <2>2, <2>3 DEF B, edges
<1>. QED BY <1>3, <1>4 DEF Follows

\* and so is all it follows however far back
LEMMA EarlierDone ==
  ASSUME NEW p, NEW route, Routed(p, route), NEW done,
         NEW a \in Acts(p), a \notin Blocked(p, Edges(p, route), done)
  PROVE  Earlier(p, route, a) \subseteq done
<1> DEFINE U == Acts(p)
           E == [b \in U |-> Follows(p, route, b)]
           N == Cardinality(U)
           Is(f) == f = [k \in 0..N |->
                           IF k = 0 THEN E[a] ELSE f[k - 1] \cup (UNION {E[b] : b \in f[k - 1]})]
           back == CHOOSE f : Is(f)
           G == (done \ Blocked(p, Edges(p, route), done)) \cap U
<1>1. Earlier(p, route, a) = back[N]
  BY DEF Earlier
<1>2. IsFiniteSet(U) /\ N \in Nat
  BY NodesFinite, FS_CardinalityType DEF Routed
<1>3. /\ \A b \in U : E[b] = Follows(p, route, b) /\ E[b] \subseteq U
      /\ E[a] \in SUBSET U
  BY DEF Follows
<1>4. E[a] \subseteq G /\ \A b \in G : E[b] \subseteq G
  BY <1>3, FollowsDone
<1>5. Is(back)
  <2>1. PICK f \in [0..N -> SUBSET U] : WalksAll(f, E[a], E, N)
    <3> HIDE DEF N, U, E
    <3>. QED BY <1>2, <1>3, WalkAllExists
  <2>2. Is(f)
    <3> HIDE DEF N, U, E
    <3>. QED BY <2>1 DEF WalksAll
  <2>. QED BY <2>2, Zenon
<1>6. WalksAll(back, E[a], E, N)
  <2> HIDE DEF N, U, E, back
  <2>. QED BY <1>5 DEF WalksAll
<1>7. SmallestAround(U, U, E, E[a], back[N])
  <2> HIDE DEF E, back
  <2>. QED BY <1>2, <1>3, <1>6, WalkMeetsAll
<1>8. ClosedIn(G, U, E)
  <2> HIDE DEF E, U
  <2>. QED BY <1>4 DEF ClosedIn
<1> HIDE DEF E, U, back, N
<1>9. back[N] \subseteq G
  <2> HIDE DEF G
  <2>. QED BY <1>4, <1>7, <1>8 DEF SmallestAround
<1>. QED BY <1>1, <1>9

-----------------------------------------------------------------------------
(* What a plan is made of.                                                 *)

\* nothing the frontier needs is blocked, and whatever an edge leads from to something
\* needed and unfinished is needed too, unless it is blocked
LEMMA NeededIs ==
  ASSUME NEW p, NEW route, Routed(p, route), NEW done
  PROVE  LET edges == Edges(p, route)
             B == Blocked(p, edges, done)
             needed == Needed(p, edges, done)
         IN  /\ needed \subseteq Nodes(p, route) \ B
             /\ \A e \in edges : e[2] \in needed \ done /\ e[1] \notin B => e[1] \in needed
<1> DEFINE edges == Edges(p, route)
           B == Blocked(p, edges, done)
           open == {e \in edges : e[2] \notin done /\ e[1] \notin B}
           active == Active(p, edges, done)
           C == Nodes(p, route) \ B
<1>1. \A e \in Reversed(open) : /\ e[1] \in Nodes(p, route) /\ e[2] \in Nodes(p, route)
                                /\ e[2] \notin B
  BY EdgesAre DEF Reversed
<1>2. active \in SUBSET Nodes(p, route) /\ active \subseteq C
  BY DEF Active, Nodes
<1>3. IsFiniteSet(Nodes(p, route))
  BY NodesFinite
<1>4. \A e \in open : <<e[2], e[1]>> \in Reversed(open)
  BY DEF Reversed
<1>5. Needed(p, edges, done) = Onward(Reversed(open), active)
  BY DEF Needed
<1>6. \A e \in edges : e[2] \notin done /\ e[1] \notin B => e \in open
  OBVIOUS
<1> HIDE DEF open, active
<1>7. Reaches(Reversed(open), active, Needed(p, edges, done))
  <2> HIDE DEF edges
  <2>. QED BY <1>1, <1>2, <1>3, <1>5, OnwardReaches
<1>8. ClosedUnder(Reversed(open), C)
  BY <1>1 DEF ClosedUnder
<1> HIDE DEF C, edges, B
<1>9. Needed(p, edges, done) \subseteq C
  BY <1>2, <1>7, <1>8 DEF Reaches
<1>10. \A e \in edges : e[2] \in Needed(p, edges, done) \ done /\ e[1] \notin B
                          => e[1] \in Needed(p, edges, done)
  <2> SUFFICES ASSUME NEW e \in edges, e[2] \in Needed(p, edges, done) \ done, e[1] \notin B
               PROVE  e[1] \in Needed(p, edges, done)
    OBVIOUS
  <2>1. <<e[2], e[1]>> \in Reversed(open)
    BY <1>4, <1>6
  <2>. QED BY <1>7, <2>1 DEF Reaches, ClosedUnder
<1>. QED BY <1>9, <1>10 DEF C, edges, B

\* A CHECK of the plan belongs to a node that is needed; one of an action still to come, or
\* of a shared node, to a node that is not done.
LEMMA CheckIs ==
  ASSUME NEW p, NEW route, NEW done, done \subseteq Acts(p), NEW x \in Specs(p, route, done)
  PROVE  /\ x.at \in Needed(p, Edges(p, route), done)
         /\ x.kind = "action" => x.at \in Acts(p) \ done
         /\ x.kind = "shared" => x.at \notin Acts(p) /\ x.at \notin done
<1>1. PICK n \in Needed(p, Edges(p, route), done) : x \in ChecksAt(p, route, done, n)
  BY DEF Specs
<1>2. CASE n \notin Acts(p)
  BY <1>1, <1>2 DEF ChecksAt
<1>3. CASE n \in done
  BY <1>1, <1>3 DEF ChecksAt
<1>4. CASE n \in Acts(p) \ done
  BY <1>1, <1>4 DEF ChecksAt
<1>. QED BY <1>2, <1>3, <1>4

\* The postconditions observed of an action are CHECKs upstream of every CHECK of what the
\* action leads to.
LEMMA GuardIs ==
  ASSUME NEW p, NEW route, Routed(p, route), NEW done, done \subseteq Acts(p),
         NEW x \in Specs(p, route, done), x.at \notin done,
         NEW b \in Acts(p), <<b, x.at>> \in Edges(p, route), NEW c \in Catalog[route[b]].post
  PROVE  /\ b \in done
         /\ <<x, [at |-> b, check |-> c, kind |-> "post_action"]>>
              \in PlanOf(p, route, done).upstream
<1> DEFINE edges == Edges(p, route)
           B == Blocked(p, edges, done)
           y == [at |-> b, check |-> c, kind |-> "post_action"]
           specs == Specs(p, route, done)
<1>1. x.at \in Needed(p, edges, done) /\ x.at \notin B
  BY CheckIs, NeededIs
<1>2. b \in done /\ b \notin B
  BY <1>1, BlockedIs DEF ClosedUnder
<1>3. b \in Needed(p, edges, done)
  <2>1. <<b, x.at>>[2] \in Needed(p, edges, done) \ done /\ <<b, x.at>>[1] \notin B
    BY <1>1, <1>2
  <2>. QED BY <2>1, NeededIs
<1>4. y \in ChecksAt(p, route, done, b)
  BY <1>2 DEF ChecksAt
<1>5. y \in specs
  BY <1>3, <1>4 DEF Specs
<1>6. y \in Upstream(edges, specs, x)
  BY <1>5 DEF Upstream
<1>7. PlanOf(p, route, done).upstream = UNION {{z} \X Upstream(edges, specs, z) : z \in specs}
  BY DEF PlanOf
<1> HIDE DEF y, edges, specs
<1>8. <<x, y>> \in PlanOf(p, route, done).upstream
  <2>1. x \in specs
    BY DEF specs
  <2>. QED BY <1>6, <1>7, <2>1
<1>. QED BY <1>2, <1>8 DEF y

-----------------------------------------------------------------------------
(* The invariant: receipts are truthful, so what a stage counts as done    *)
(* has happened, and the stage is what its routing lowers to.              *)

StageInv ==
  /\ proposal \in Sealed
  /\ \A x \in receipts : \A r \in DOMAIN x : x[r] = "SUCCEEDED" => r \in happened
  /\ stage = NoStage \/
       \E route, done :
         /\ Routed(proposal, route) /\ Expands(proposal, route)
         /\ done \subseteq Acts(proposal) /\ stage = PlanOf(proposal, route, done)
         /\ \A b \in done : RefsOf(proposal, b) \subseteq happened

LEMMA StageInit == DagInit => StageInv
BY DEF DagInit, StageInv

LEMMA PerformStep ==
  ASSUME StageInv, Perform
  PROVE  StageInv'
<1>1. PICK refs : \E effect \in SUBSET refs :
        /\ receipts' = receipts \cup
             {[r \in refs |-> IF r \in effect THEN "SUCCEEDED" ELSE "FAILED"]}
        /\ happened' = happened \cup effect
  BY DEF Perform
<1>2. UNCHANGED <<proposal, stage>>
  BY DEF Perform
<1>3. \A x \in receipts' : \A r \in DOMAIN x : x[r] = "SUCCEEDED" => r \in happened'
  BY <1>1 DEF StageInv
<1>4. happened \subseteq happened'
  BY <1>1
<1>. QED BY <1>2, <1>3, <1>4 DEF StageInv

\* An accepted answer routes a sealed proposal to a DAG.
LEMMA RoutingsAre ==
  ASSUME NEW r \in Routings
  PROVE  Routed(r.proposal, r.route) /\ Expands(r.proposal, r.route)
<1>1. PICK p \in Sealed : \E route \in [Acts(p) -> DOMAIN Catalog], left \in BOOLEAN :
        Expands(p, route) /\ r = [proposal |-> p, route |-> route, unresolved |-> left]
  BY DEF Routings
<1>. QED BY <1>1 DEF Routed, Expands

\* What can be lowered comes from an accepted answer, behind some of its actions.
LEMMA LoweredAre ==
  ASSUME NEW r, NEW done
  PROVE  <<r, done>> \in Lowered <=>
           r \in Routings /\ done \in SUBSET Acts(r.proposal) /\ Lowers(r, done)
<1>1. <<r, done>> \in Lowered <=>
        \E q \in Routings : \E d \in SUBSET Acts(q.proposal) : Lowers(q, d) /\ <<r, done>> = <<q, d>>
  BY DEF Lowered
<1>. QED BY <1>1

\* what a review may come out with
LEMMA StagesAre ==
  ASSUME NEW s \in Stages
  PROVE  \E r \in Routings : \E done \in SUBSET Acts(r.proposal) :
           s = PlanOf(r.proposal, r.route, done) /\ s.proposal = r.proposal /\ s.done = done
<1>1. PICK x \in Lowered : s = PlanOf(x[1].proposal, x[1].route, x[2])
  BY DEF Stages
<1>2. PICK r \in Routings : \E done \in SUBSET Acts(r.proposal) : x = <<r, done>>
  BY DEF Lowered
<1>3. PICK done \in SUBSET Acts(r.proposal) : x = <<r, done>>
  BY <1>2
<1>4. s = PlanOf(r.proposal, r.route, done)
  BY <1>1, <1>3
<1>5. s.proposal = r.proposal /\ s.done = done
  BY <1>4 DEF PlanOf
<1>. QED BY <1>4, <1>5

LEMMA ReviewStep ==
  ASSUME StageInv, Review
  PROVE  StageInv'
<1>1. PICK some \in SUBSET receipts :
        stage' \in {s \in Stages : s.proposal = proposal /\ s.done = Completed(proposal, some)}
  BY DEF Review
<1>2. UNCHANGED <<proposal, happened, receipts>>
  BY DEF Review
<1>3. PICK r \in Routings : \E done \in SUBSET Acts(r.proposal) :
        /\ stage' = PlanOf(r.proposal, r.route, done)
        /\ stage'.proposal = r.proposal /\ stage'.done = done
  BY <1>1, StagesAre
<1>4. PICK done \in SUBSET Acts(r.proposal) :
        /\ stage' = PlanOf(r.proposal, r.route, done)
        /\ stage'.proposal = r.proposal /\ stage'.done = done
  BY <1>3
<1>5. r.proposal = proposal /\ done = Completed(proposal, some)
  BY <1>1, <1>4
<1>6. Routed(proposal, r.route) /\ Expands(proposal, r.route)
  BY <1>5, RoutingsAre
<1>7. \A b \in done : RefsOf(proposal, b) \subseteq happened
  BY <1>5 DEF Completed, StageInv
<1>. QED BY <1>2, <1>4, <1>5, <1>6, <1>7 DEF StageInv

LEMMA StageInvHolds == DagSpec => []StageInv
<1>1. StageInv /\ [DagNext]_dagVars => StageInv'
  <2>1. ASSUME StageInv, UNCHANGED dagVars PROVE StageInv'
    BY <2>1 DEF StageInv, dagVars
  <2>. QED BY <2>1, PerformStep, ReviewStep DEF DagNext
<1>. QED BY <1>1, StageInit, PTL DEF DagSpec

\* No action is reviewed before what the catalogue puts before it has happened, however far
\* back: a stage takes up only actions that no unfinished one leads to, and it learns what is
\* finished from receipts (lower_erp_stage_to_proof_plan, _completed_action_ids_from_sources).
THEOREM NothingOutOfTurn == DagSpec => []StageInOrder
<1>1. ASSUME StageInv PROVE StageInOrder
  <2>1. CASE stage = NoStage
    BY <2>1 DEF StageInOrder, NoStage
  <2>2. CASE stage # NoStage
    <3>1. PICK route, done :
            /\ Routed(proposal, route) /\ done \subseteq Acts(proposal)
            /\ stage = PlanOf(proposal, route, done)
            /\ \A b \in done : RefsOf(proposal, b) \subseteq happened
      BY <1>1, <2>2 DEF StageInv
    <3>2. stage.checks = Specs(proposal, route, done) /\ stage.route = route
      BY <3>1 DEF PlanOf
    <3>3. ASSUME NEW x \in Specs(proposal, route, done), x.kind = "action"
          PROVE  Earlier(proposal, route, x.at) \subseteq done
      BY <3>1, <3>3, CheckIs, NeededIs, EarlierDone
    <3>. QED BY <3>1, <3>2, <3>3 DEF StageInOrder
  <2>. QED BY <2>1, <2>2
<1>. QED BY <1>1, StageInvHolds, PTL

DemandsObserved ==
  \A x \in stage.checks : x.kind \in {"action", "shared"} =>
    \A c \in Demanded(proposal, stage.route, x.at) : \E b \in Acts(proposal) :
      <<x, [at |-> b, check |-> c, kind |-> "post_action"]>> \in stage.upstream

\* Whatever is demanded of the actions before a node is a CHECK of the same plan upstream of
\* every CHECK of that node, for any catalogue the compiler accepts
\* (_registered_dependencies, compile_registered_proof_dag, lower_erp_stage_to_proof_plan).
THEOREM DemandsAreObserved == DagSpec => []DemandsObserved
<1>1. ASSUME StageInv PROVE DemandsObserved
  <2>1. CASE stage = NoStage
    BY <2>1 DEF NoStage, DemandsObserved
  <2>2. CASE stage # NoStage
    <3>1. PICK route, done :
            /\ Routed(proposal, route) /\ Expands(proposal, route)
            /\ done \subseteq Acts(proposal) /\ stage = PlanOf(proposal, route, done)
      BY <1>1, <2>2 DEF StageInv
    <3>2. /\ stage.checks = Specs(proposal, route, done) /\ stage.route = route
          /\ stage.upstream = PlanOf(proposal, route, done).upstream
      BY <3>1 DEF PlanOf
    <3>3. ASSUME NEW x \in Specs(proposal, route, done), x.kind \in {"action", "shared"},
                 NEW c \in Demanded(proposal, route, x.at)
          PROVE  \E b \in Acts(proposal) :
                   <<x, [at |-> b, check |-> c, kind |-> "post_action"]>>
                     \in PlanOf(proposal, route, done).upstream
      <4>1. x.at \in Nodes(proposal, route) /\ x.at \notin done
        BY <3>1, <3>3, CheckIs, NeededIs
      <4>2. PICK b \in Before(Edges(proposal, route), x.at) \cap Acts(proposal) :
              c \in Catalog[route[b]].post
        BY <3>1, <3>3, <4>1 DEF Expands, Nodes
      <4>3. \A e \in Edges(proposal, route) : e = <<e[1], e[2]>>
        BY <3>1, EdgesAre
      <4>4. <<b, x.at>> \in Edges(proposal, route)
        BY <4>2, <4>3 DEF Before
      <4>. QED BY <3>1, <4>1, <4>2, <4>4, GuardIs
    <3>. QED BY <3>2, <3>3 DEF DemandsObserved
  <2>. QED BY <2>1, <2>2
<1>. QED BY <1>1, StageInvHolds, PTL

\* And it is a CHECK of every action it is demanded of, when the catalogue asks a template
\* only for what it observes: the code compares what is demanded with what all the actions
\* before a node observe together (compile_registered_proof_dag).
THEOREM PostconditionsAlwaysGuard ==
  ASSUME PostsAreOffered
  PROVE  DagSpec => []PostconditionsGuard
<1>1. ASSUME StageInv PROVE PostconditionsGuard
  <2>1. CASE stage = NoStage
    BY <2>1 DEF PostconditionsGuard, NoStage
  <2>2. CASE stage # NoStage
    <3>1. PICK route, done :
            /\ Routed(proposal, route) /\ done \subseteq Acts(proposal)
            /\ stage = PlanOf(proposal, route, done)
      BY <1>1, <2>2 DEF StageInv
    <3>2. /\ stage.checks = Specs(proposal, route, done) /\ stage.route = route
          /\ stage.upstream = PlanOf(proposal, route, done).upstream
      BY <3>1 DEF PlanOf
    <3>3. \A a \in Acts(proposal) : /\ route[a] \in DOMAIN Catalog
                                    /\ Line(proposal, a).stage \in DOMAIN Catalog[route[a]].shared
      BY <3>1 DEF Routed, Protected
    <3>4. ASSUME NEW x \in Specs(proposal, route, done), x.kind = "action",
                 NEW r \in Rules(proposal, route, x.at),
                 NEW b \in Candidates(proposal, route, r), NEW c \in r.post
          PROVE  <<x, [at |-> b, check |-> c, kind |-> "post_action"]>>
                   \in PlanOf(proposal, route, done).upstream
      <4>1. x.at \in Acts(proposal) \ done
        BY <3>1, <3>4, CheckIs
      <4>2. b \in Acts(proposal) /\ route[b] = r.template
        BY DEF Candidates
      <4>3. <<b, x.at>> \in Edges(proposal, route)
        BY <3>1, <4>1, EdgesAre
      <4>4. c \in Catalog[route[b]].post
        BY <3>3, <4>1, <4>2 DEF PostsAreOffered, Rules
      <4>. QED BY <3>1, <4>1, <4>2, <4>3, <4>4, GuardIs
    <3>5. ASSUME NEW x \in Specs(proposal, route, done), x.kind = "shared",
                 NEW b \in Establishing(proposal, x.at),
                 NEW c \in Catalog[route[b]].establishes[x.at]
          PROVE  <<x, [at |-> b, check |-> c, kind |-> "post_action"]>>
                   \in PlanOf(proposal, route, done).upstream
      <4>1. x.at \notin done /\ x.at \in SharedOf(route) /\ x.at \in DOMAIN Shared
        BY <3>1, <3>5, CheckIs, NeededIs, EdgesAre DEF Nodes
      <4>2. b \in Acts(proposal) /\ <<b, x.at>> \in Edges(proposal, route)
        BY <3>1, <4>1, EdgesAre DEF Establishing
      <4>3. c \in Catalog[route[b]].post
        BY <3>3, <4>1, <4>2 DEF PostsAreOffered
      <4>. QED BY <3>1, <4>1, <4>2, <4>3, GuardIs
    <3>. QED BY <3>2, <3>4, <3>5 DEF PostconditionsGuard
  <2>. QED BY <2>1, <2>2
<1>. QED BY <1>1, StageInvHolds, PTL

-----------------------------------------------------------------------------
(* There is always a next stage.                                           *)

\* What can be reached from a node
Far(p, route, n) == Onward(Edges(p, route), {n})

\* It is the smallest set around the node that no edge leads out of.
LEMMA FarIs ==
  ASSUME NEW p, NEW route, Routed(p, route), NEW n \in Nodes(p, route)
  PROVE  /\ Reaches(Edges(p, route), {n}, Far(p, route, n))
         /\ Far(p, route, n) \subseteq Nodes(p, route)
         /\ IsFiniteSet(Far(p, route, n)) /\ Cardinality(Far(p, route, n)) \in Nat
         /\ Cardinality(Far(p, route, n)) <= Cardinality(Nodes(p, route))
<1> DEFINE edges == Edges(p, route)
           U == Nodes(p, route)
<1>1. \A e \in edges : e[1] \in U /\ e[2] \in U
  BY EdgesAre
<1>2. IsFiniteSet(U)
  BY NodesFinite
<1>3. {n} \in SUBSET U
  OBVIOUS
<1>4. Far(p, route, n) = Onward(edges, {n})
  BY DEF Far
<1> HIDE DEF edges, U
<1>5. Reaches(edges, {n}, Far(p, route, n))
  BY <1>1, <1>2, <1>3, <1>4, OnwardReaches
<1>6. ClosedUnder(edges, U)
  BY <1>1 DEF ClosedUnder
<1>7. Far(p, route, n) \subseteq U
  BY <1>3, <1>5, <1>6 DEF Reaches
<1>8. /\ IsFiniteSet(Far(p, route, n))
      /\ Cardinality(Far(p, route, n)) <= Cardinality(U)
  BY <1>2, <1>7, FS_Subset
<1>9. Cardinality(Far(p, route, n)) \in Nat
  BY <1>8, FS_CardinalityType
<1>. QED BY <1>5, <1>7, <1>8, <1>9 DEF edges, U

\* What is blocked can be reached from what an unfinished action leads to.
LEMMA BlockedBy ==
  ASSUME NEW p, NEW route, Routed(p, route), NEW done,
         NEW n \in Blocked(p, Edges(p, route), done)
  PROVE  \E e \in Edges(p, route) : /\ e[1] \in Acts(p) \ done
                                    /\ n \in Far(p, route, e[2])
<1> DEFINE edges == Edges(p, route)
           open == {x \in edges : x[1] \in Acts(p) \ done}
           from == {e[2] : e \in open}
           C == UNION {Far(p, route, e[2]) : e \in open}
<1>1. \A e \in edges : e[1] \in Nodes(p, route) /\ e[2] \in Nodes(p, route)
  BY EdgesAre
<1>2. IsFiniteSet(Nodes(p, route)) /\ from \in SUBSET Nodes(p, route)
  BY <1>1, NodesFinite
<1>3. n \in Onward(edges, from)
  BY DEF Blocked
<1>4. Reaches(edges, from, Onward(edges, from))
  <2> HIDE DEF edges, from
  <2>. QED BY <1>1, <1>2, OnwardReaches
<1>5. \A e \in open : Reaches(edges, {e[2]}, Far(p, route, e[2]))
  BY <1>1, FarIs
<1>6. \A x : x \in from => \E e \in open : x = e[2]
  OBVIOUS
<1>7. \A x : x \in C <=> \E e \in open : x \in Far(p, route, e[2])
  OBVIOUS
<1>8. \A e \in open : e \in edges /\ e[1] \in Acts(p) \ done
  OBVIOUS
<1> HIDE DEF edges, open, from, C
<1>9. from \subseteq C
  BY <1>5, <1>6, <1>7 DEF Reaches
<1>10. ClosedUnder(edges, C)
  BY <1>5, <1>7 DEF Reaches, ClosedUnder
<1>11. n \in C
  BY <1>3, <1>4, <1>9, <1>10 DEF Reaches
<1>. QED BY <1>7, <1>8, <1>11 DEF edges

\* Some unfinished action is not blocked: of those from which most can be reached, no
\* unfinished one leads to it, or more could be reached from that one.
LEMMA ActiveExists ==
  ASSUME NEW p, NEW route, Routed(p, route), Acyclic(Edges(p, route)),
         NEW done \in SUBSET Acts(p), done # Acts(p)
  PROVE  Active(p, Edges(p, route), done) # {}
<1> DEFINE edges == Edges(p, route)
           open == Acts(p) \ done
           N == Cardinality(Nodes(p, route))
           size(n) == Cardinality(Far(p, route, n))
           T == {k \in Nat : \E a \in open : k + size(a) = N}
<1>1. N \in Nat
  BY NodesFinite, FS_CardinalityType
<1>2. \A a \in open : a \in Nodes(p, route)
  BY DEF Nodes
<1>3. \A a \in open : size(a) \in Nat /\ size(a) <= N
  BY <1>2, FarIs
<1>4. PICK a \in open : \A b \in open : size(b) <= size(a)
  <2>1. \A b \in open : N - size(b) \in T
    <3> HIDE DEF N, size, open
    <3>. QED BY <1>1, <1>3
  <2>2. T # {} /\ T \in SUBSET Nat
    <3> HIDE DEF N, size
    <3>. QED BY <2>1
  <2>3. PICK k \in T : \A t \in T : k <= t
    <3> HIDE DEF T
    <3>. QED BY <2>2, LeastNumber
  <2>4. PICK a \in open : k + size(a) = N
    BY <2>3
  <2>5. \A b \in open : size(b) <= size(a)
    <3> TAKE b \in open
    <3>1. k <= N - size(b) /\ k \in Nat
      BY <2>1, <2>2, <2>3
    <3> HIDE DEF N, size, open, T
    <3>. QED BY <1>1, <1>3, <2>4, <3>1
  <2>. QED BY <2>5
<1>5. a \notin Blocked(p, edges, done)
  <2> SUFFICES ASSUME a \in Blocked(p, edges, done) PROVE FALSE
    OBVIOUS
  <2>1. PICK e \in edges : e[1] \in open /\ a \in Far(p, route, e[2])
    BY BlockedBy
  <2> DEFINE b == e[1]
  <2>2. b \in Nodes(p, route) /\ e[2] \in Nodes(p, route) /\ a \in Nodes(p, route)
    BY <1>2, <2>1, EdgesAre
  <2>3. /\ Reaches(edges, {b}, Far(p, route, b))
        /\ Reaches(edges, {e[2]}, Far(p, route, e[2]))
        /\ Reaches(edges, {a}, Far(p, route, a))
    BY <2>2, FarIs
  <2>4. b \notin Far(p, route, e[2])
    BY <2>1 DEF Acyclic, Far
  <2>5. Far(p, route, a) \subseteq Far(p, route, e[2])
    BY <2>1, <2>3 DEF Reaches
  <2>6. b \in Far(p, route, b) /\ Far(p, route, e[2]) \subseteq Far(p, route, b)
    BY <2>1, <2>3 DEF Reaches, ClosedUnder
  <2>7. Far(p, route, a) \subseteq Far(p, route, b) \ {b}
    BY <2>4, <2>5, <2>6
  <2>8. IsFiniteSet(Far(p, route, b)) /\ size(b) \in Nat /\ size(a) \in Nat
    BY <2>2, FarIs
  <2>9. /\ IsFiniteSet(Far(p, route, b) \ {b})
        /\ Cardinality(Far(p, route, b) \ {b}) = size(b) - 1
    BY <2>6, <2>8, FS_RemoveElement
  <2>10. size(a) <= Cardinality(Far(p, route, b) \ {b})
    BY <2>7, <2>9, FS_Subset
  <2>11. size(b) <= size(a)
    BY <1>4, <2>1
  <2> HIDE DEF size, b
  <2>. QED BY <2>8, <2>9, <2>10, <2>11
<1>. QED BY <1>4, <1>5 DEF Active

\* In a plan every recipe finds the one check it reads.
LEMMA OneProducer ==
  ASSUME ReadsAreOffered, NEW p, NEW route, Routed(p, route), Expands(p, route),
         NEW done \in SUBSET Acts(p), NEW x \in Specs(p, route, done),
         NEW producer \in Recipes[x.check]
  PROVE  Cardinality(Matches(Specs(p, route, done), x, producer)) = 1
<1> DEFINE edges == Edges(p, route)
           B == Blocked(p, edges, done)
           needed == Needed(p, edges, done)
           specs == Specs(p, route, done)
           n == x.at
           t == route[n]
           at == Line(p, n).stage
<1>1. /\ n \in needed /\ x \in ChecksAt(p, route, done, n)
  <2>1. PICK m \in needed : x \in ChecksAt(p, route, done, m)
    BY DEF Specs
  <2>2. x.at = m
    BY <2>1 DEF ChecksAt
  <2>. QED BY <2>1, <2>2
<1>2. needed \subseteq Nodes(p, route) \ B
  BY NeededIs
<1>3. n \in Acts(p) \ done
  <2>1. CASE n \notin Acts(p)
    <3>1. n \in DOMAIN Shared /\ x.check = n
      BY <1>1, <1>2, <2>1, EdgesAre DEF Nodes, ChecksAt
    <3>. QED BY <3>1 DEF ReadsAreOffered
  <2>2. CASE n \in done
    <3>1. x.check \in Catalog[t].post
      BY <1>1, <2>2 DEF ChecksAt
    <3>2. t \in DOMAIN Catalog
      BY <2>2 DEF Routed
    <3>. QED BY <3>1, <3>2 DEF ReadsAreOffered
  <2>. QED BY <2>1, <2>2
<1>4. /\ x.kind = "action" /\ x.check \in AppliesAt(t, at)
      /\ t \in DOMAIN Catalog /\ at \in DOMAIN Catalog[t].shared
  BY <1>1, <1>3 DEF ChecksAt, Routed, Protected
<1>5. \/ producer \in AppliesAt(t, at) \ DOMAIN Shared
      \/ producer \in Catalog[t].shared[at] \ DOMAIN Catalog[t].checks
  BY <1>4 DEF ReadsAreOffered
<1>6. \A y : y \in specs <=> \E m \in needed : y \in ChecksAt(p, route, done, m)
  BY DEF Specs
<1>7. ASSUME NEW y \in Matches(specs, x, producer)
      PROVE  \/ y = [at |-> n, check |-> producer, kind |-> "action"]
                  /\ producer \in AppliesAt(t, at)
             \/ y = [at |-> producer, check |-> producer, kind |-> "shared"]
                  /\ producer \in DOMAIN Shared
  <2>1. PICK m \in needed : y \in ChecksAt(p, route, done, m)
    BY <1>6 DEF Matches
  <2>2. y.check = producer /\ (y.at = n \/ y.kind = "shared")
    BY DEF Matches
  <2>3. CASE m \notin Acts(p)
    <3>1. y = [at |-> m, check |-> m, kind |-> "shared"]
      BY <2>1, <2>3 DEF ChecksAt
    <3>2. m \in DOMAIN Shared
      BY <1>2, <2>3, EdgesAre DEF Nodes
    <3>. QED BY <2>2, <3>1, <3>2
  <2>4. CASE m \in done
    <3>1. y.kind = "post_action" /\ y.at = m
      BY <2>1, <2>4 DEF ChecksAt
    <3>. QED BY <1>3, <2>2, <2>4, <3>1
  <2>5. CASE m \in Acts(p) \ done
    <3>1. PICK c \in AppliesAt(route[m], Line(p, m).stage) :
            y = [at |-> m, check |-> c, kind |-> "action"]
      BY <2>1, <2>5 DEF ChecksAt
    <3>. QED BY <2>2, <3>1
  <2>. QED BY <2>3, <2>4, <2>5
<1>8. CASE producer \in AppliesAt(t, at) \ DOMAIN Shared
  <2> DEFINE y == [at |-> n, check |-> producer, kind |-> "action"]
  <2>1. y \in ChecksAt(p, route, done, n)
    BY <1>3, <1>8 DEF ChecksAt
  <2>2. y \in Matches(specs, x, producer)
    BY <1>1, <1>6, <2>1 DEF Matches
  <2>3. Matches(specs, x, producer) = {y}
    BY <1>7, <1>8, <2>2
  <2>. QED BY <2>3, FS_Singleton
<1>9. CASE producer \in Catalog[t].shared[at] \ DOMAIN Catalog[t].checks
  <2> DEFINE y == [at |-> producer, check |-> producer, kind |-> "shared"]
  <2>1. producer \in Required(p, route, n)
    BY <1>9 DEF Required
  <2>2. <<producer, n>> \in edges /\ producer \in SharedOf(route)
    BY <1>3, <2>1, EdgesAre
  <2>3. producer \notin Acts(p)
    BY <2>2 DEF Expands
  <2>4. producer \notin B
    BY <1>1, <1>2, <2>2, BlockedIs DEF ClosedUnder
  <2>5. producer \in needed
    BY <1>1, <1>3, <2>2, <2>4, NeededIs
  <2>6. y \in ChecksAt(p, route, done, producer)
    BY <2>3 DEF ChecksAt
  <2>7. y \in Matches(specs, x, producer)
    BY <1>6, <2>5, <2>6 DEF Matches
  <2>8. producer \notin AppliesAt(t, at)
    BY <1>9 DEF AppliesAt
  <2>9. Matches(specs, x, producer) = {y}
    BY <1>7, <2>7, <2>8
  <2>. QED BY <2>9, FS_Singleton
<1>. QED BY <1>5, <1>8, <1>9

\* The frontier is needed.
LEMMA ActiveNeeded ==
  ASSUME NEW p, NEW route, Routed(p, route), NEW done
  PROVE  Active(p, Edges(p, route), done) \subseteq Needed(p, Edges(p, route), done)
<1> DEFINE edges == Edges(p, route)
           open == {e \in edges : e[2] \notin done /\ e[1] \notin Blocked(p, edges, done)}
           active == Active(p, edges, done)
<1>1. \A e \in Reversed(open) : e[1] \in Nodes(p, route) /\ e[2] \in Nodes(p, route)
  BY EdgesAre DEF Reversed
<1>2. active \in SUBSET Nodes(p, route)
  BY DEF Active, Nodes
<1>3. Needed(p, edges, done) = Onward(Reversed(open), active)
  BY DEF Needed
<1>4. IsFiniteSet(Nodes(p, route))
  BY NodesFinite
<1> HIDE DEF open, active
<1>5. Reaches(Reversed(open), active, Onward(Reversed(open), active))
  BY <1>1, <1>2, <1>4, OnwardReaches
<1>. QED BY <1>3, <1>5 DEF Reaches, active

\* As long as an action is unfinished, the plan can be lowered.
LEMMA LowersOn ==
  ASSUME ReadsAreOffered, NEW r \in Routings, ~r.unresolved,
         NEW done \in SUBSET Acts(r.proposal), done # Acts(r.proposal)
  PROVE  Lowers(r, done)
<1> DEFINE p == r.proposal
           route == r.route
           edges == Edges(p, route)
<1>0. Routed(p, route) /\ Expands(p, route)
  BY RoutingsAre
<1>1. PICK a : a \in Active(p, edges, done)
  BY <1>0, ActiveExists DEF Expands
<1>2. a \in Acts(p) \ done
  BY <1>1 DEF Active
<1>3. a \in Needed(p, edges, done)
  BY <1>0, <1>1, ActiveNeeded
<1>4. PICK c : c \in AppliesAt(route[a], Line(p, a).stage)
  BY <1>0, <1>2 DEF Routed, Protected, ReadsAreOffered
<1>5. [at |-> a, check |-> c, kind |-> "action"] \in Specs(p, route, done)
  <2>1. [at |-> a, check |-> c, kind |-> "action"] \in ChecksAt(p, route, done, a)
    BY <1>2, <1>4 DEF ChecksAt
  <2>. QED BY <1>3, <2>1 DEF Specs
<1>6. \A x \in Specs(p, route, done) : \A producer \in Recipes[x.check] :
        Cardinality(Matches(Specs(p, route, done), x, producer)) = 1
  BY <1>0, OneProducer
<1>. QED BY <1>1, <1>5, <1>6 DEF Lowers

\* Whichever receipts are admitted, in whatever order the actions happened, an answer that was
\* accepted has a next stage until every action is done if it leaves no input unresolved, and
\* none at all if it does, given that the catalogue's recipes read what their action brings to
\* the plan (compile_task_compiler_plan, lower_erp_stage_to_proof_plan).
THEOREM AcceptedGoesOn == ASSUME ReadsAreOffered PROVE DagSpec => []StagesGoOn
<1>1. StagesGoOn
  <2> SUFFICES ASSUME NEW some \in SUBSET receipts, Completed(proposal, some) # Acts(proposal),
                      NEW r \in Routings, r.proposal = proposal
               PROVE  <<r, Completed(proposal, some)>> \in Lowered <=> ~r.unresolved
    BY DEF StagesGoOn
  <2> DEFINE done == Completed(proposal, some)
  <2>1. done \in SUBSET Acts(r.proposal) /\ done # Acts(r.proposal)
    BY DEF Completed
  <2>2. Lowers(r, done) <=> ~r.unresolved
    <3>1. ~r.unresolved => Lowers(r, done)
      BY <2>1, LowersOn
    <3>2. Lowers(r, done) => ~r.unresolved
      BY DEF Lowers
    <3>. QED BY <3>1, <3>2
  <2>. QED BY <2>1, <2>2, LoweredAre
<1>. QED BY <1>1, PTL
=============================================================================
