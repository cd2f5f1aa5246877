--------------------------- MODULE ConsumerReport ---------------------------
(***************************************************************************)
(* What is derived from a compiled proof for whoever writes conclusions    *)
(* (derive_consumer_packet), the report rendered from it                   *)
(* (render_consumer_report) and the check a report must pass before it is  *)
(* written (finalize_consumer_report).                                     *)
(*                                                                         *)
(* The proof is recompiled as CHECKs are concluded and reopened; the run   *)
(* behind it may have ended short.  The case decides which requirements it *)
(* needs, and has no proof while it asks for one the plan does not know.   *)
(* A report is a record of what its tables and its summary say.            *)
(***************************************************************************)
EXTENDS ProofTree

CONSTANTS Required,          \* the requirements a case first needs
          CaseRequirements,  \* the sets of requirements it may need later
          Cites,             \* Cites[c]: terms the result of CHECK c names
          Operands,          \* Operands[t]: terms a witness t was computed from
          FinalTotal,        \* the facet the summary looks at first
          Differences        \* CHECKs with a reconciled difference

VARIABLES execution,  \* artifact.execution_status
          needed      \* ids of the required requirements of the case

reportVars == <<plan, status, sealed, execution, needed>>

Strong == {"SUPPORTED", "CONTRADICTED"}

-----------------------------------------------------------------------------
(* The packet. *)

IntegrityRejected == ~sealed

\* the artifact fits the case: both are about the same requirements
HasProof == needed \subseteq Requirements

Decisions ==
  {[requirement |-> q, decision |-> Decision(q)] : q \in IF HasProof THEN Requirements ELSE {}}

Owed == IF HasProof THEN Obligations(needed) ELSE {}

\* one finding for each CHECK under each root; the decisive ones agree with their root
Findings(decisions) ==
  UNION {LET found == {<<c, "SUPPORTED">> : c \in r.decision.supporting}
                        \cup {<<c, "CONTRADICTED">> : c \in r.decision.contradicting}
                        \cup {<<c, "NOT_FOUND">> : c \in r.decision.unresolved}
         IN  {[root |-> r.requirement, check |-> x[1], status |-> x[2],
               decisive |-> x[2] = r.decision.status] : x \in found} : r \in decisions}

ReviewComplete(findings) ==
  LET asked == {f \in findings : f.root \in needed}
  IN  /\ HasProof
      /\ execution = "COMPLETED" /\ ~IntegrityRejected
      /\ needed # {}
      /\ asked # {} /\ \A f \in asked : f.status \in Strong

\* A slip, for mutation: nothing is owed, so everything is settled
ReadyByObligations(decisions) ==
  /\ execution = "COMPLETED" /\ ~IntegrityRejected
  /\ ~\E o \in Owed : o.blocking /\ o.requirement \in needed
PacketReady(decisions) ==
  /\ HasProof
  /\ execution = "COMPLETED" /\ ~IntegrityRejected
  /\ needed \subseteq {r.requirement : r \in {x \in decisions : x.decision.status \in Strong}}
  /\ ~\E o \in Owed : o.blocking /\ o.requirement \in needed

Reportability(findings, full) ==
  IF IntegrityRejected \/ execution = "FAILED" \/ \A f \in findings : f.status \notin Strong
  THEN "NONE"
  ELSE IF full THEN "FULL" ELSE "PARTIAL"

\* _referenced_terms: what the findings name, and what that was computed from
ReferencedTerms(findings) ==
  LET direct == UNION {Cites[f.check] : f \in {x \in findings : x.status \in Strong}}
      met[k \in 0..Cardinality(DOMAIN Operands)] ==
        IF k = 0 THEN direct
        ELSE LET near == met[k - 1] IN near \cup UNION {Operands[t] : t \in near}
  IN  met[Cardinality(DOMAIN Operands)]

Packet ==
  LET decisions == Decisions
      findings == Findings(decisions)
      complete == ReviewComplete(findings)
      ready == PacketReady(decisions)
  IN  [findings |-> findings,
       roots |-> {[requirement |-> r.requirement, status |-> r.decision.status] : r \in decisions},
       obligations |-> Owed, terms |-> ReferencedTerms(findings),
       flags |-> [execution |-> execution, complete |-> complete, ready |-> ready,
                  reportability |-> Reportability(findings, complete /\ ready)]]

-----------------------------------------------------------------------------
(* The report. *)

\* _consumer_report_summary; the findings are taken in the order of their ids, which the
\* model leaves open
Summary(p) ==
  LET contradicted == {f \in p.findings : f.status = "CONTRADICTED"}
      final == {f \in p.findings : CoversFacet(plan, f.check, FinalTotal) /\ f.status \in Strong}
      said == {r.status : r \in p.roots}
  IN  IF \E f \in contradicted \cup final : f.check \in Differences THEN "reconciliation"
      ELSE IF \E f \in final : f.status = "SUPPORTED" THEN "supported"
      ELSE IF "CONTRADICTED" \in said THEN "contradicted"
      ELSE IF said \subseteq {"SUPPORTED"} THEN "supported" ELSE "open"

Render(p) ==
  [requirements |-> {[id |-> r.requirement, status |-> r.status] : r \in p.roots},
   checks |-> {[id |-> f.check, status |-> f.status] : f \in p.findings},
   terms |-> p.terms,
   gaps |-> {f.check : f \in {x \in p.findings : x.status = "NOT_FOUND"}},
   obligations |-> {<<o.requirement, o.check>> : o \in p.obligations},
   flags |-> p.flags, summary |-> Summary(p)]

\* _proof_id_catalog
Catalog(p) ==
  [requirement |-> {r.requirement : r \in p.roots} \cup {f.root : f \in p.findings}
                     \cup {o.requirement : o \in p.obligations},
   check |-> {f.check : f \in p.findings} \cup {o.check : o \in p.obligations},
   obligation |-> {<<o.requirement, o.check>> : o \in p.obligations}]

ExplicitIds(p, report) ==
  /\ {r.id : r \in report.requirements} \subseteq Catalog(p).requirement
  /\ {r.id : r \in report.checks} \cup report.gaps \subseteq Catalog(p).check
  /\ report.obligations \subseteq Catalog(p).obligation

\* A slip, for mutation: a CHECK is expected to say what its root says
CheckSaysItsRoot(p, row) ==
  \A f \in p.findings : f.check = row.id =>
    \A r \in p.roots : r.requirement = f.root => r.status = row.status
CheckRowMatches(p, row) == \A f \in p.findings : f.check = row.id => f.status = row.status

\* A slip, for mutation: only the rows of the requirements are compared
RootStatuses(p, report) ==
  /\ \A row \in report.requirements : [requirement |-> row.id, status |-> row.status] \in p.roots
  /\ report.flags = p.flags
\* _validate_report_statuses: the rows of both tables, and the metadata lines
ReportStatuses(p, report) ==
  /\ \A row \in report.requirements : [requirement |-> row.id, status |-> row.status] \in p.roots
  /\ \A row \in report.checks : CheckRowMatches(p, row)
  /\ report.flags = p.flags

\* finalize_consumer_report, its regular expressions on wording left out
Accepts(p, report) ==
  /\ p.flags.reportability # "NONE"
  /\ ExplicitIds(p, report) /\ ReportStatuses(p, report)
  /\ report.terms \subseteq p.terms

-----------------------------------------------------------------------------
ReportInit ==
  /\ TreeInit
  /\ execution = "PARTIAL"
  /\ needed = Required

\* the run goes on to its end, or fails
RunEnds ==
  /\ execution = "PARTIAL" /\ execution' \in {"COMPLETED", "FAILED"}
  /\ UNCHANGED <<treeVars, needed>>

\* a patch of the case changes what it requires; explored once the run is over
RequirementsChange ==
  /\ execution = "COMPLETED"
  /\ needed' \in CaseRequirements
  /\ UNCHANGED <<treeVars, execution>>

ReportNext ==
  \/ TreeNext /\ UNCHANGED <<execution, needed>>
  \/ RunEnds \/ RequirementsChange

ReportSpec == ReportInit /\ [][ReportNext]_reportVars

-----------------------------------------------------------------------------
\* Readiness is earned: what the packet calls ready no open CHECK can change, for every
\* requirement the case needs now whatever the proof was compiled for; a complete review
\* is always ready, and nothing is reported of a proof that is not sealed
\* (derive_consumer_packet against the kernel's aggregation).
ReportIsEarned ==
  LET proved == {c \in Checks : CheckStatus(c) = "SUPPORTED"}
      possible == {c \in Checks : CheckStatus(c) # "CONTRADICTED"}
  IN  \E flags \in {Packet.flags} :
        /\ flags.ready => \A q \in needed :
             q \in Requirements
             /\ (CanSucceed(plan, RootOf[q], proved) <=> CanSucceed(plan, RootOf[q], possible))
        /\ flags.complete => flags.ready
        /\ flags.reportability # "NONE" => sealed

\* The canonical report passes the check every report must pass, a CHECK shared by several
\* requirements and obligations of several roots included
\* (render_consumer_report against finalize_consumer_report).
RenderedIsAccepted ==
  \E p \in {Packet} : \E report \in {Render(p)} :
    p.flags.reportability # "NONE" => Accepts(p, report)

\* A report drafted before a step and submitted after it is accepted only if every status
\* and flag it could state is still the same (finalize_consumer_report is given the packet
\* of the moment, the report was written from an earlier one).
StaleDraftRefused ==
  [][\E now \in {Packet'}, then \in {Packet} : \E draft \in {Render(then)} :
       Accepts(now, draft) =>
         /\ {<<f.check, f.status>> : f \in now.findings} = {<<f.check, f.status>> : f \in then.findings}
         /\ now.roots = then.roots /\ now.flags = then.flags]_reportVars

\* A partial report only tells of the parts: its summary calls the requirements supported
\* only when they are (docs: PARTIAL reports local findings only; partial_report_appendix).
PartialSummaryIsPartial ==
  \E p \in {Packet} :
    p.flags.reportability = "PARTIAL" /\ Summary(p) = "supported"
      => \A r \in p.roots : r.status = "SUPPORTED"
=============================================================================
