----------------------------- MODULE StrictLane -----------------------------
(***************************************************************************)
(* The strict lane of a registered ERP review: the reads are admitted and  *)
(* sealed into the contracts of the checks, the checks are compiled into a *)
(* program of calls, the Executor (a model) makes calls against it, the    *)
(* Fine Verifier (another) classifies what was submitted and the Kernel    *)
(* replays every check before it believes either.  The records live in     *)
(* Odoo and change all the while.                                          *)
(***************************************************************************)
EXTENDS ERPResolvers, Sequences, FiniteSetsExt

CONSTANTS Order,       \* the purchase order that may be cancelled
          Bills,       \* ids of its vendor bills
          Scenarios,   \* frozen scenarios the run may start from
          Proposals,   \* what may be proposed: [ref, source, values, state]
          Program,     \* the checks in the order of the plan, a sequence
          MaxChanges,  \* how often Odoo changes
          MaxRuns      \* runs of the Executor

\* this module follows a single purchase order
ASSUME OneOrder == Orders = {Order}

\* the checks of a plan have different ids (ProofPlan)
ASSUME ProgramAssumption ==
  /\ Program \in Seq(LocalChecks)
  /\ \A i, j \in DOMAIN Program : Program[i] = Program[j] => i = j

VARIABLES odoo,      \* [order, bills, clock] as they are now
          order,     \* the order as read, or NotRead
          admitted,  \* the admitted snapshot, or NotRead
          case,      \* [scenario, target, sealed, frozen]: what the run is about
          phase,     \* where the run is
          strict,    \* [step, phase, args, halted]: the program as it runs
          witness,   \* [LocalChecks -> the receipt of its resolver, or NoWitness]
          submitted, \* [LocalChecks -> what was submitted for it, or Nothing]
          verdict,   \* [LocalChecks -> status the Kernel closed it with, or ""]
          runs       \* runs of the Executor so far

vars == <<odoo, order, admitted, case, phase, strict, witness, submitted, verdict, runs>>

NotRead == [state |-> "none"]
NoWitness == [ok |-> FALSE]
Nothing == [witness |-> "", relation |-> ""]
RelationOf(result) == IF result THEN "CHECK_SATISFIED" ELSE "CHECK_VIOLATED"
StatusOf(result) == IF result THEN "SUPPORTED" ELSE "CONTRADICTED"

(***************************************************************************)
(* Odoo, as it is and as it was read.  Every change moves a write date.    *)
(***************************************************************************)
LiveOrder == odoo.order
LiveBills == {odoo.bills[b] : b \in LiveOrder.invoice_ids}

Cancellable(o, bs) == ~o.locked /\ \A b \in bs : b.state \in {"cancel", "draft"}

OdooInit ==
  \E locked \in BOOLEAN, ids \in SUBSET Bills, state \in {"draft", "posted"} :
    odoo = [order |-> [state |-> "purchase", locked |-> locked, invoice_ids |-> ids,
                       write_date |-> 0],
            bills |-> [b \in Bills |-> [id |-> b, state |-> state, write_date |-> 0]],
            clock |-> 0]

Change(new) ==
  /\ odoo.clock < MaxChanges
  /\ odoo' = [new EXCEPT !.clock = @ + 1]
  /\ UNCHANGED <<order, admitted, case, phase, strict, witness, submitted, verdict, runs>>

Now == odoo.clock + 1
Turned(bill) == [bill EXCEPT !.state = IF @ = "draft" THEN "posted" ELSE "draft",
                             !.write_date = Now]
OdooChanges ==
  \/ Change([odoo EXCEPT !.order.locked = ~@, !.order.write_date = Now])
  \/ \E b \in Bills \ LiveOrder.invoice_ids :
       Change([odoo EXCEPT !.order.invoice_ids = @ \cup {b}, !.order.write_date = Now])
  \/ \E b \in Bills :
       Change([odoo EXCEPT !.bills[b] = Turned(@)])

Reading == phase \in {"reading", "proposed", "stopped"}

ReadOrder ==
  /\ Reading /\ order' = LiveOrder
  /\ UNCHANGED <<odoo, admitted, case, phase, strict, witness, submitted, verdict, runs>>

\* the bills are read after the order that names them
AdmitReads ==
  /\ Reading /\ order # NotRead
  /\ \E bills \in {{odoo.bills[b] : b \in order.invoice_ids}, LiveBills} :
       /\ Admissible(order, bills)
       /\ admitted' = Admitted(order, bills)
  /\ order' = NotRead
  /\ UNCHANGED <<odoo, case, phase, strict, witness, submitted, verdict, runs>>

-----------------------------------------------------------------------------
(***************************************************************************)
(* The run: seal, preflight, execute, verify, compile.                     *)
(***************************************************************************)
Live(snapshot) == [r \in {Order} |-> snapshot]
Targets == {case.target}
InputsOf(local, snapshot) == SelectInputs(local, case.scenario, Live(snapshot), Targets)

NewProgram == [step |-> 1, phase |-> "run", args |-> Nothing, halted |-> FALSE]
Closed == {c \in LocalChecks : verdict[c] # ""}

\* the program: the places in the plan of the checks that are not closed yet
Steps == {i \in DOMAIN Program : Program[i] \notin Closed}

Init ==
  /\ OdooInit
  /\ order = NotRead /\ admitted = NotRead
  /\ \E s \in Scenarios, p \in Proposals :
       case = [scenario |-> s, target |-> p, sealed |-> NotRead, frozen |-> NotRead]
  /\ phase = "reading"
  /\ strict = NewProgram
  /\ witness = [c \in LocalChecks |-> NoWitness]
  /\ submitted = [c \in LocalChecks |-> Nothing]
  /\ verdict = [c \in LocalChecks |-> ""]
  /\ runs = 0

\* The proposal names the revision it was made against; the checks are sealed with it.
Propose ==
  /\ phase = "reading" /\ admitted # NotRead
  /\ case' = [case EXCEPT !.target = [ref |-> @.ref, source |-> @.source, values |-> @.values,
                                      state |-> @.state, revision |-> admitted.revision]]
  /\ phase' = "proposed"
  /\ UNCHANGED <<odoo, order, admitted, strict, witness, submitted, verdict, runs>>

\* what was read last is sealed, whichever revision the proposal was made against
Seal ==
  /\ phase = "proposed"
  /\ case' = [case EXCEPT !.sealed = admitted, !.frozen = admitted]
  /\ phase' = "sealed"
  /\ UNCHANGED <<odoo, order, admitted, strict, witness, submitted, verdict, runs>>

\* execute_plan: nothing runs unless the inputs of every remaining check can be selected
Preflight ==
  /\ phase = "sealed" /\ runs < MaxRuns
  /\ phase' = IF \A i \in Steps :
                   Selectable(Program[i], {case.scenario}, Live(case.frozen), Targets)
              THEN "executing" ELSE "evidence_incomplete"
  /\ strict' = NewProgram
  /\ submitted' = [c \in LocalChecks |-> IF c \in Closed THEN submitted[c] ELSE Nothing]
  /\ witness' = [c \in LocalChecks |-> IF c \in Closed THEN witness[c] ELSE NoWitness]
  /\ runs' = runs + 1
  /\ UNCHANGED <<odoo, order, admitted, case, verdict>>

Calls == phase = "executing"
Ahead == {i \in Steps : i >= strict.step}
Complete == Ahead = {}
Step == Program[Min(Ahead)]

\* run_registered_check in the sandbox: a receipt of the frozen inputs, made once
Receipt(c) ==
  [ok |-> TRUE, result |-> Replay(c, InputsOf(c, case.frozen)), inputs |-> InputsOf(c, case.frozen),
   bound |-> case.frozen]
Resolves(c) == case.frozen = case.sealed /\ Selectable(c, {case.scenario}, Live(case.frozen), Targets)

\* program_violation: any other call is answered with an error and changes nothing
MayRun(c) == ~strict.halted /\ ~Complete /\ strict.phase = "run" /\ c = Step

RunRegisteredCheck(c) ==
  /\ Calls /\ MayRun(c)
  /\ IF Resolves(c)
     THEN /\ witness' = [witness EXCEPT ![c] = IF @.ok THEN @ ELSE Receipt(c)]
          /\ strict' = [strict EXCEPT
               !.phase = "submit_1",
               !.args = [check |-> c, witness |-> c, relation |-> RelationOf(witness'[c].result)]]
     ELSE /\ strict' = [strict EXCEPT !.halted = TRUE]
          /\ UNCHANGED witness
  /\ UNCHANGED <<odoo, order, admitted, case, phase, submitted, verdict, runs>>

\* A slip, for mutation: the arguments are the Executor's own
MaySubmitAny(args) == ~strict.halted /\ ~Complete /\ strict.phase = "submit_1"
MaySubmit(args) ==
  /\ ~strict.halted /\ ~Complete
  /\ strict.phase = "submit_1" /\ args = strict.args

SubmitCheck(args) ==
  /\ Calls /\ MaySubmit(args)
  /\ submitted' = [submitted EXCEPT ![args.check] =
       [witness |-> args.witness, relation |-> args.relation]]
  /\ strict' = [strict EXCEPT !.step = Min(Ahead) + 1, !.phase = "run", !.args = Nothing]
  /\ UNCHANGED <<odoo, order, admitted, case, phase, witness, verdict, runs>>

\* the completion hook, the turn budget or an error of the model ends the Executor
ExecutorStops ==
  /\ phase = "executing"
  /\ phase' = IF \E i \in Steps : submitted[Program[i]] # Nothing THEN "verifying" ELSE "stopped"
  /\ UNCHANGED <<odoo, order, admitted, case, strict, witness, submitted, verdict, runs>>

\* Kernel: the receipt is of the sealed sources, replays exactly, and the Binding and the
\* Verifier's status say what the replay says
LineageHolds(c) == witness[c].ok /\ witness[c].bound = case.sealed /\ case.frozen = case.sealed

\* A slip, for mutation: the Verifier's status decides
CompilesAsSaid(c, status) == submitted[c] # Nothing /\ LineageHolds(submitted[c].witness)
Compiles(c, status) ==
  LET s == submitted[c]
      replayed == Replay(c, InputsOf(c, case.frozen))
  IN  /\ s # Nothing /\ s.witness = c
      /\ LineageHolds(c)
      /\ Selectable(c, {case.scenario}, Live(case.frozen), Targets)
      /\ witness[c].inputs = InputsOf(c, case.frozen) /\ witness[c].result = replayed
      /\ s.relation = RelationOf(replayed)
      /\ status = StatusOf(replayed)

\* the Verifier may say anything of each submitted check; what compiles is closed
VerifyAndCompile ==
  /\ phase = "verifying"
  /\ \E said \in [LocalChecks -> {"SUPPORTED", "CONTRADICTED", "NOT_FOUND"}] :
       /\ \A c \in Closed \cup {x \in LocalChecks : submitted[x] = Nothing} : said[c] = "NOT_FOUND"
       /\ verdict' = [c \in LocalChecks |->
            IF c \notin Closed /\ Compiles(c, said[c]) THEN said[c] ELSE verdict[c]]
  /\ phase' = "stopped"
  /\ UNCHANGED <<odoo, order, admitted, case, strict, witness, submitted, runs>>

\* _validate_registered_proof_plan: the run goes on only on the sources it was sealed with
Resume ==
  /\ phase = "stopped" /\ Steps # {}
  /\ phase' = IF admitted = case.sealed THEN "sealed" ELSE "source_changed"
  /\ case' = [case EXCEPT !.frozen = admitted]
  /\ UNCHANGED <<odoo, order, admitted, strict, witness, submitted, verdict, runs>>

Next ==
  \/ OdooChanges \/ ReadOrder \/ AdmitReads \/ Propose \/ Seal \/ Preflight
  \/ \E c \in LocalChecks : RunRegisteredCheck(c)
  \/ \E c, w \in LocalChecks, r \in {"CHECK_SATISFIED", "CHECK_VIOLATED"} :
       SubmitCheck([check |-> c, witness |-> w, relation |-> r])
  \/ ExecutorStops \/ VerifyAndCompile \/ Resume

Spec == Init /\ [][Next]_vars

-----------------------------------------------------------------------------
\* What the Executor submits is the program, in its order and nothing after a halt, with the
\* receipt and the relation of each check, whatever calls it tries.
ProgramIsFollowed ==
  LET here == {i \in Steps : submitted[Program[i]] # Nothing} IN
  phase = "executing" =>
    /\ here = Steps \ Ahead
    /\ \A i \in here : submitted[Program[i]] =
         [witness |-> Program[i], relation |-> RelationOf(witness[Program[i]].result)]

\* A closed check says what a person reading the sealed records would say, whatever the
\* Executor called and the Verifier claimed.
VerdictIsTrue ==
  LET s == case.scenario
      t == case.target
      snap == case.sealed
  IN  \A c \in Closed :
        (verdict[c] = "SUPPORTED") <=>
          CASE c = Scope -> s.broken = {t.ref}
            [] c = Exact -> /\ t.ref \in s.broken
                            /\ t.values = s.rows[t.ref].values
                            /\ t.source = s.rows[t.ref].source
                            /\ t.source = IF t.ref = Order THEN s.vendor ELSE s.workcenter
            [] OTHER -> /\ t.ref \in s.broken
                        /\ IF t.ref = Order
                           THEN /\ ~snap.locked /\ snap.blocking = {} /\ t.state = snap.state
                                /\ t.revision = snap.revision
                           ELSE /\ t.state = s.rows[t.ref].state
                                /\ t.state \in {"draft", "confirmed", "progress", "to_close"}

\* A purchase order found fresh and cancellable still is, as long as the order and the
\* bills read afresh carry the lineage that was sealed: the reads of the order and of its
\* bills are taken apart, and the comparison before the write is what joins them.
SealedIsCancellable ==
  (/\ verdict[Fresh] = "SUPPORTED" /\ case.target.ref = Order
   /\ case.sealed.revision = Lineage(LiveOrder, LiveBills))
    => Cancellable(LiveOrder, LiveBills)

=============================================================================
