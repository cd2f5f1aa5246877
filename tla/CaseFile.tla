------------------------------ MODULE CaseFile ------------------------------
(***************************************************************************)
(* The case file of the evidence compiler: case_state.json, the attachment *)
(* manifest beside it, the stored originals and their extraction dossiers. *)
(*                                                                         *)
(* Every load refreshes the case against the manifest and the disk, and    *)
(* every patch loads, changes, refreshes and saves.  The manifest and the  *)
(* case are two files, replaced one after the other; the manifest goes     *)
(* first.  An attachment is read in four steps with no lock held between   *)
(* them.  A review is prepared against a snapshot of the case and comes    *)
(* back later, as an artifact that must match the case it is saved with.   *)
(***************************************************************************)
EXTENDS AttachmentManifest

CONSTANTS Owner,         \* Owner[q]: who establishes requirement q
          Premises,      \* Premises[q]: what conclusion q rests on
          Groups,        \* Groups[q]: what activates the derived requirement q
          Default,       \* Default[q]: q is required unless something says otherwise
          Dynamic,       \* requirements a piece of evidence may bring along
          InvoiceFields, RequiredFields, ApLite, Invoice,
          CoreOf,        \* CoreOf[t]: the requirement a document of type t is about
          Packets,       \* evidence that may be offered
          Reviewed,      \* bound: the evidence that is sent to review
          Requests,      \* requirement updates that may be asked for
          MaxVersion,    \* bound: times an original is rewritten
          Writable,      \* bound: the originals something rewrites
          MaxOps,        \* bound: operations that are asked of the case
          MaxItems,      \* bound: evidence items of the case
          Faults         \* {} or {"crash"}

ReqIds == DOMAIN Owner
Derived == {q \in ReqIds : Owner[q] = "derived"}
Authority == {q \in ReqIds : Owner[q] # "evidence"}

\* What the pack's loader demands of it (the premises of a conclusion are evidence, what
\* evidence may bring along is evidence) and what the policies in use keep to: only a
\* reviewer's conclusion has premises, and conclusions are required by default.
ASSUME PackAssumption ==
  /\ Owner \in [ReqIds -> {"evidence", "reviewer", "derived"}]
  /\ Premises \in [ReqIds -> SUBSET (ReqIds \ Authority)]
  /\ \A q \in ReqIds : Owner[q] # "reviewer" => Premises[q] = {}
  /\ Default \in [ReqIds -> BOOLEAN] /\ \A q \in Authority : Default[q]
  /\ Dynamic \cup InvoiceFields \cup ApLite \subseteq ReqIds \ Authority
  /\ RequiredFields \subseteq InvoiceFields

Offered == Packets \cup Reviewed
Offer(field) == {p[field] : p \in Offered}

\* What a piece of evidence is made of
Evidence ==
  [packet : Offer("packet"), id : Offer("id"), type : Offer("type") \cup {"unknown"},
   ref : Refs, version : Nat, by : {"id", "ref", "name", "text", "none"},
   class : Offer("class") \cup {"quarantined"}, low : BOOLEAN, accepted : BOOLEAN,
   supports : SUBSET ReqIds, stage : Offer("stage") \cup {"superseded"},
   supersedes : SUBSET Offer("id"), source : Offer("source"),
   text : Offer("text") \cup {"redacted"}]

\* The versions an original may come to have
Versions(r) == IF r \in Writable THEN 1..MaxVersion ELSE {1}

\* Whatever a version says, the reader gives it a status
ASSUME OfferAssumption ==
  /\ Offered \subseteq Evidence
  /\ Requests \subseteq [add : Seq(ReqIds), remove : SUBSET ReqIds]
  /\ MaxVersion \in Nat \ {0} /\ MaxOps \in Nat /\ MaxItems \in Nat
  /\ \A r \in Refs : Versions(r) \subseteq DOMAIN Screening[r]
  /\ Faults \subseteq {"crash"}

VARIABLES file,      \* file[r]: version of the bytes of r, 0 when there are none
          dossier,   \* dossier[r]: the last dossier written for r
          man, failed,
          case,      \* case_state.json
          reading,   \* the attachment being read
          review,    \* the review under way: its patch and its artifact
          left       \* operations that may still be asked

caseVars == <<file, dossier, man, failed, case, reading, review, left>>

NoArtifact == [reqs |-> {}, prints |-> {}, decided |-> {}, complete |-> FALSE]
NoReview == [items |-> <<>>, artifact |-> NoArtifact]
Idle == [ref |-> "none", phase |-> "idle", version |-> 0, text |-> 0]
NoDossier == [version |-> 0, text |-> 0]
NewCase == [ev |-> <<>>, req |-> <<>>, artifact |-> NoArtifact, compiled |-> FALSE,
            status |-> "new"]

-----------------------------------------------------------------------------
(* Requirements: a partial function to whether each is required. *)

ApChain(ids) == Invoice \in ids \cap ApLite /\ Cardinality(ids \cap ApLite) >= 3

\* _requirement_required_in_state
Needed(req, q, explicit, was) ==
  LET concludes(b) == \E p \in DOMAIN req : req[p] = b /\ q \in Premises[p]
  IN IF q \in InvoiceFields /\ ApChain(DOMAIN req) THEN FALSE
     ELSE IF concludes(TRUE) THEN TRUE
     ELSE IF ~explicit /\ ~was /\ (q \in Dynamic \/ concludes(FALSE)) THEN FALSE
     ELSE Default[q]

\* _canonicalize_requirement_definitions
Canonical(req) == [q \in DOMAIN req |-> Needed(req, q, FALSE, req[q])]

\* _ensure_requirement_premises
WithPremises(req) ==
  LET conclusions == DOMAIN req \ Derived
      of(p) == {c \in conclusions : p \in Premises[c]}
  IN [p \in DOMAIN req \cup UNION {Premises[c] : c \in conclusions} |->
        (p \in DOMAIN req /\ req[p]) \/ \E c \in of(p) : req[c]]

\* RequirementPack.expand: premises and activated conclusions
Expanded(ids) ==
  LET closed == ids \cup UNION {Premises[q] : q \in ids}
  IN closed \cup {q \in Derived : Groups[q] # {} /\ \A g \in Groups[q] : g \cap closed # {}}

HasEvidence(c, q) ==
  \/ \E i \in DOMAIN c.ev : q \in c.ev[i].supports
  \/ c.compiled /\ q \in c.artifact.decided

\* _apply_requirement_updates: removals first; what has evidence may not go
MayRemove(c, ask) ==
  \A q \in (ask.remove \cap DOMAIN c.req) \ Derived : ~HasEvidence(c, q)
Put(req, q) ==
  IF q \in Derived THEN req
  ELSE [p \in DOMAIN req \cup {q} |->
          IF p # q THEN req[p]
          ELSE IF q \in DOMAIN req THEN Needed(req, q, TRUE, req[q]) ELSE Default[q]]
Updated(c, ask) ==
  LET after[n \in 0..Len(ask.add)] ==
        IF n = 0 THEN [q \in DOMAIN c.req \ (ask.remove \ Derived) |-> c.req[q]]
        ELSE Put(after[n - 1], ask.add[n])
  IN after[Len(ask.add)]

-----------------------------------------------------------------------------
(* Evidence. *)

\* _normalize_evidence_data: an injection is emptied, a foreign document supports
\* nothing, and nobody but the compiler supports a conclusion
Injected(p) == p.class \in {"prompt_injection", "quarantined"}
Normal(p) ==
  IF Injected(p)
  THEN [p EXCEPT !.class = "quarantined", !.type = "unknown", !.low = TRUE, !.supports = {},
                 !.text = "redacted"]
  ELSE IF p.class = "cross_case_sample" THEN [p EXCEPT !.supports = {}]
  ELSE [p EXCEPT !.supports = @ \ Authority]

\* Evidence as the case keeps it: normalised, perhaps superseded since
Item ==
  LET kept == {Normal(p) : p \in Offered}
  IN kept \cup {[p EXCEPT !.stage = "superseded"] : p \in kept}

Supported(items) == (UNION {p.supports : p \in ToSet(items)}) \ Authority

\* _looks_like_wrong_ap_default
WrongDefault(c, sup) ==
  /\ c.ev = <<>> /\ DOMAIN c.req # {} /\ DOMAIN c.req \subseteq ApLite
  /\ sup \cap InvoiceFields # {} /\ sup \cap ApLite = {}

\* _initial_requirement_ids_from_evidence
Initial(items, sup) ==
  LET about == sup \cup {CoreOf[p.type] : p \in ToSet(items)}
      chain == ApChain(about)
      ids == IF chain THEN InvoiceFields \cup ApLite \cup sup
             ELSE IF \/ \E p \in ToSet(items) : p.type = "invoice"
                     \/ sup \cap InvoiceFields # {}
             THEN InvoiceFields \cup sup
             ELSE sup
  IN [q \in ids |-> /\ ~(chain /\ q \in InvoiceFields)
                    /\ ~(q \in Dynamic /\ q \notin RequiredFields)
                    /\ Default[q]]

\* _ensure_requirements_for_evidence: the supports are the ones the packet came with
ReqsFor(c, items) ==
  LET sup == Supported(items)
      base == IF WrongDefault(c, sup) THEN <<>> ELSE c.req
      new == sup \ DOMAIN base
  IN IF sup = {} THEN [ok |-> TRUE, req |-> c.req]
     ELSE IF DOMAIN base = {} THEN [ok |-> TRUE, req |-> Initial(items, sup)]
     ELSE [ok |-> new \subseteq Dynamic,
           req |-> [q \in DOMAIN base \cup new |-> q \in DOMAIN base /\ base[q]]]

\* _append_evidence_updates: the same packet again is nothing, another packet of the
\* same id takes its place only when both come from the same compiler source
AppendOne(acc, raw) ==
  LET p == Normal(raw)
      same == {i \in DOMAIN acc.ev : acc.ev[i].id = p.id}
      at == CHOOSE i \in same : TRUE
      known == \E i \in DOMAIN acc.ev : acc.ev[i].packet = p.packet
  IN IF ~acc.ok \/ known THEN acc
     ELSE IF same = {} THEN [acc EXCEPT !.ev = Append(@, p)]
     ELSE IF p.source # "none" /\ acc.ev[at].source = p.source
     THEN [acc EXCEPT !.ev = ReplaceAt(@, at, p)]
     ELSE [acc EXCEPT !.ok = FALSE]

Appended(ev, items) ==
  LET after[n \in 0..Len(items)] ==
        IF n = 0 THEN [ok |-> TRUE, ev |-> ev] ELSE AppendOne(after[n - 1], items[n])
  IN after[Len(items)]

\* _supersession_map: a trusted correction of one document replaces it, unless two do
CanReplace(x, trusted) ==
  /\ x.id \in trusted /\ ~x.low /\ x.accepted
  /\ x.class = "business_evidence" /\ x.stage = "corrected"
Replacements(ev, trusted, old) ==
  {i \in DOMAIN ev : /\ CanReplace(ev[i], trusted)
                     /\ old.id \in ev[i].supersedes /\ ev[i].id # old.id
                     /\ ev[i].type = old.type}
Superseded(ev, trusted) ==
  {x \in ToSet(ev) : Cardinality(Replacements(ev, trusted, x)) = 1}

\* _apply_supersession_metadata
Marked(ev, trusted) ==
  [i \in DOMAIN ev |-> IF ev[i] \in Superseded(ev, trusted)
                       THEN [ev[i] EXCEPT !.stage = "superseded"] ELSE ev[i]]

\* A slip, for mutation: corrections are not looked at
ActiveAll(ev, trusted) == {x \in ToSet(ev) : x.id \in trusted}

Active(ev, trusted) ==
  {x \in ToSet(ev) : x.id \in trusted} \ Superseded(ev, trusted)

\* _compiler_source_fingerprints: the declared source and the stored text
Prints(items) == {<<x.id, x.source, x.text>> : x \in items}

-----------------------------------------------------------------------------
(* Refreshing a case: what every load and every patch ends with. *)

\* A slip, for mutation: the same sources, whatever they say now
FitsIds(artifact, ids, items) ==
  /\ artifact # NoArtifact
  /\ artifact.reqs = ids /\ {p[1] : p \in artifact.prints} = {x.id : x \in items}

\* _artifact_matches_case
Fits(artifact, ids, items) ==
  /\ artifact # NoArtifact
  /\ artifact.reqs = ids /\ artifact.prints = Prints(items)

\* A slip, for mutation: an interrupted execution may be decided on
DecisionReadyPartial(artifact, req) == \A q \in DOMAIN req : req[q] => q \in artifact.decided

\* derive_consumer_packet: decision_ready
DecisionReady(artifact, req) ==
  /\ artifact.complete
  /\ \A q \in DOMAIN req : req[q] => q \in artifact.decided

RefreshOn(c, linked, basis) ==
  LET req0 == WithPremises(Canonical(c.req))
      trusted == Trusted(basis, failed, file, dossier, c.ev)
      ev == Marked(c.ev, trusted)
      req1 == [q \in DOMAIN req0 \ Derived |-> req0[q]]
      ids == Expanded(DOMAIN req1)
      compiled == Fits(c.artifact, ids, Active(ev, trusted))
      req == IF compiled
             THEN [q \in DOMAIN req1 \cup ids |->
                     IF q \in DOMAIN req1 THEN req1[q] ELSE Default[q]]
             ELSE req1
      ready == ev # <<>> /\ req # <<>> /\ compiled /\ DecisionReady(c.artifact, req)
  IN [man |-> linked,
      active |-> Active(ev, trusted),
      case |-> [ev |-> ev, req |-> req, artifact |-> c.artifact, compiled |-> compiled,
                status |-> IF ready THEN "ready"
                           ELSE IF ev # <<>> THEN "collecting" ELSE "new"]]

\* A slip, for mutation: what may be trusted is settled before the evidence is linked
RefreshEarly(c, m) == RefreshOn(c, Link(m, failed, c.ev), m)

Refresh(c, m) == LET linked == Link(m, failed, c.ev) IN RefreshOn(c, linked, linked)

\* _apply_patch on a loaded case: what the case is to become, and whether it may
Patched(c, items, ask, artifact) ==
  LET updated == [c EXCEPT !.req = WithPremises(Updated(c, ask))]
      reqs == ReqsFor(updated, items)
      appended == Appended(c.ev, items)
  IN [ok   |-> MayRemove(c, ask) /\ reqs.ok /\ appended.ok,
      case |-> [updated EXCEPT !.req = reqs.req, !.ev = appended.ev,
                  !.artifact = IF artifact = NoArtifact THEN @ ELSE artifact]]

NoRequest == [add |-> <<>>, remove |-> {}]

-----------------------------------------------------------------------------
CaseInit ==
  /\ file = [r \in Refs |-> 0] /\ dossier = [r \in Refs |-> NoDossier]
  /\ man = <<>> /\ failed = {} /\ case = NewCase
  /\ reading = Idle /\ review = NoReview /\ left = MaxOps

Asked == left > 0 /\ left' = left - 1

\* An upload is copied among the originals and its text extracted
ReadUpload(r) ==
  /\ Asked
  /\ reading = Idle
  /\ file' = [file EXCEPT ![r] = 1]
  /\ reading' = [ref |-> r, phase |-> "read", version |-> 0, text |-> 1]
  /\ UNCHANGED <<dossier, man, failed, case, review>>

\* An original the manifest knows is read again, from where it is stored
ReadStored(r) ==
  /\ Asked
  /\ reading = Idle /\ r \in DOMAIN man /\ file[r] # 0
  /\ reading' = [ref |-> r, phase |-> "read", version |-> 0, text |-> file[r]]
  /\ UNCHANGED <<file, dossier, man, failed, case, review>>

ReadFails(r) ==
  /\ Asked
  /\ reading = Idle
  /\ failed' = failed \cup {NameOf[r]}
  /\ UNCHANGED <<file, dossier, man, case, reading, review>>

\* The first upsert hashes the original as it is by then
Register ==
  /\ reading.phase = "read"
  /\ man' = Upsert(man, reading.ref, file[reading.ref], 0, Screening[reading.ref][reading.text])
  /\ reading' = [reading EXCEPT !.phase = "entered", !.version = file[reading.ref]]
  /\ UNCHANGED <<file, dossier, failed, case, review, left>>

WriteDossier ==
  /\ reading.phase = "entered"
  /\ dossier' = [dossier EXCEPT ![reading.ref] =
                   [version |-> reading.version, text |-> reading.text]]
  /\ reading' = [reading EXCEPT !.phase = "dossier"]
  /\ UNCHANGED <<file, man, failed, case, review, left>>

\* The second upsert hashes it once more
RegisterDossier ==
  /\ reading.phase = "dossier"
  /\ man' = Upsert(man, reading.ref, file[reading.ref], reading.text,
                    Screening[reading.ref][reading.text])
  /\ reading' = Idle
  /\ UNCHANGED <<file, dossier, failed, case, review, left>>

\* write_case_file may name any path of the case
Overwrite(r) ==
  /\ Asked
  /\ r \in Writable /\ 0 < file[r] /\ file[r] < MaxVersion
  /\ file' = [file EXCEPT ![r] = @ + 1]
  /\ UNCHANGED <<dossier, man, failed, case, reading, review>>

Summarise(r) ==
  /\ Asked
  /\ r \in DOMAIN man
  /\ man' = Weaken(man, r)
  /\ UNCHANGED <<file, dossier, failed, case, reading, review>>

Load ==
  LET r == Refresh(case, man)
  IN /\ man' = r.man /\ case' = r.case
     /\ UNCHANGED <<file, dossier, failed, reading, review, left>>

\* The writes of a patch, in order: the manifest, then the case (then the audit log,
\* which nothing reads).  A crash may keep the first alone.
WriteBoth(loaded, final) ==
  /\ man' = final.man
  /\ \/ case' = final.case
     \/ "crash" \in Faults /\ case' = loaded.case

\* A refused patch leaves what its load wrote
Refused(loaded) == man' = loaded.man /\ case' = loaded.case

ApplyPatch(items, ask) ==
  /\ Asked
  /\ \E loaded \in {Refresh(case, man)} :
       LET patch == Patched(loaded.case, items, ask, NoArtifact)
       IN /\ Len(patch.case.ev) <= MaxItems
          /\ IF patch.ok THEN WriteBoth(loaded, Refresh(patch.case, loaded.man))
             ELSE Refused(loaded)
  /\ UNCHANGED <<file, dossier, failed, reading, review>>

\* The compiler reviews the case as it would be with the new evidence
StartReview(items, complete) ==
  /\ Asked
  /\ review = NoReview
  /\ \E loaded \in {Refresh(case, man)} :
       LET patch == Patched(loaded.case, items, NoRequest, NoArtifact)
           then == Refresh(patch.case, loaded.man)
           ids == Expanded(DOMAIN then.case.req \ Derived)
       IN /\ patch.ok /\ ids # {} /\ Len(patch.case.ev) <= MaxItems
          /\ \E decided \in {ids} \cup (IF complete THEN {ids \ Authority} ELSE {}) :
               review' = [items |-> items,
                          artifact |-> [reqs |-> ids, prints |-> Prints(then.active),
                                        decided |-> decided, complete |-> complete]]
          /\ man' = loaded.man /\ case' = loaded.case
  /\ UNCHANGED <<file, dossier, failed, reading>>

\* apply_review_patch: refused after the refresh when the artifact does not fit; the
\* refresh has linked the refused evidence in the manifest by then
ApplyReview ==
  /\ review # NoReview
  /\ \E loaded \in {Refresh(case, man)} :
       LET patch == Patched(loaded.case, review.items, NoRequest, review.artifact)
           final == Refresh(patch.case, loaded.man)
       IN /\ Len(patch.case.ev) <= MaxItems
          /\ IF ~patch.ok THEN Refused(loaded)
             ELSE IF final.case.compiled THEN WriteBoth(loaded, final)
             ELSE man' = final.man /\ case' = loaded.case
  /\ review' = NoReview
  /\ UNCHANGED <<file, dossier, failed, reading, left>>

\* The backend stops: what it held in memory is gone
Crash ==
  /\ "crash" \in Faults
  /\ reading # Idle \/ review # NoReview
  /\ reading' = Idle /\ review' = NoReview
  /\ UNCHANGED <<file, dossier, man, failed, case, left>>

CaseNext ==
  \/ \E r \in Refs : ReadUpload(r) \/ ReadStored(r) \/ ReadFails(r)
                       \/ Overwrite(r) \/ Summarise(r)
  \/ Register \/ WriteDossier \/ RegisterDossier \/ Load \/ ApplyReview \/ Crash
  \/ \E p \in Packets : ApplyPatch(<<p>>, NoRequest)
  \/ \E ask \in Requests : ApplyPatch(<<>>, ask)
  \/ \E p \in Reviewed, complete \in BOOLEAN : StartReview(<<p>>, complete)

CaseSpec == CaseInit /\ [][CaseNext]_caseVars

-----------------------------------------------------------------------------
Fresh == Refresh(case, man)

\* The two files and what is being read: known originals with existing bytes, evidence of
\* known shape with distinct ids, conclusions that are required and have their premises.
ManOK(m) ==
  /\ m \in [DOMAIN m -> [version : 1..MaxVersion, status : Statuses, dossier : 0..MaxVersion]]
  /\ DOMAIN m \subseteq Refs
EvOK(ev) == ev \in Seq(Item) /\ \A i, j \in DOMAIN ev : ev[i].id = ev[j].id => i = j
ReqOK(req) ==
  /\ req \in [DOMAIN req -> BOOLEAN] /\ DOMAIN req \subseteq ReqIds
  /\ \A q \in DOMAIN req : q \in Authority => req[q]
  /\ \A q \in DOMAIN req : Premises[q] \subseteq DOMAIN req
CaseOK(c) == EvOK(c.ev) /\ ReqOK(c.req)

CaseTypeOK ==
  /\ file \in [Refs -> 0..MaxVersion] /\ \A r \in Refs : file[r] \in Versions(r) \cup {0}
  /\ dossier \in [Refs -> [version : 0..MaxVersion, text : 0..MaxVersion]]
  /\ ManOK(man)
  /\ failed \subseteq {NameOf[r] : r \in Refs}
  /\ CaseOK(case) /\ Len(case.ev) <= MaxItems
  /\ case.compiled \in BOOLEAN /\ case.status \in {"new", "collecting", "ready"}
  /\ reading \in [ref : Refs \cup {"none"}, phase : {"idle", "read", "entered", "dossier"},
                  version : 0..MaxVersion, text : 0..MaxVersion]
  /\ reading.phase # "idle" =>
       /\ reading.ref \in Refs /\ reading.text \in Versions(reading.ref)
       /\ file[reading.ref] # 0
  /\ review.items \in Seq(Offered) /\ left \in 0..MaxOps

\* A case that loads as ready for its report rests on what is there now: its artifact
\* decides every required requirement, speaks of exactly the evidence the case counts,
\* and none of that evidence belongs to an original that was rewritten, excluded or
\* quarantined since (_refresh_requirements, trusted_sources_for_evidence).
ReadyIsCurrent ==
  LET now == Fresh
  IN now.case.status = "ready" =>
       /\ \A q \in DOMAIN now.case.req : now.case.req[q] => q \in case.artifact.decided
       /\ case.artifact.complete
       /\ {p[1] : p \in case.artifact.prints} = {x.id : x \in now.active}
       /\ \A x \in now.active :
            /\ <<x.id, x.source, x.text>> \in case.artifact.prints
            /\ \A r \in Precise(man, failed, x) : man[r].status \notin {"excluded", "quarantined"}
            /\ x.by = "id" => file[x.ref] = x.version

\* Loading a case twice in a row is loading it once: what a refresh writes to the two
\* files does not change what the next one finds (_load, link_manifest_evidence,
\* _apply_supersession_metadata).
RefreshStable ==
  LET once == Fresh
      again == Refresh(once.case, once.man)
  IN again = once

\* What the evidence of the run keeps to, and nothing in the code asks of it: no document
\* has two corrections, or no correction is corrected.  Where one of two corrections of a
\* document is itself corrected, marking it settles which of the two stands, but the
\* document is only marked by the next load.
SimpleCorrections ==
  \/ \A p, q \in Offered : p.id # q.id => p.supersedes \cap q.supersedes = {}
  \/ \A p, q \in Offered : p.stage = "corrected" => p.id \notin q.supersedes

\* A document and its one accepted correction are never counted together: a correction
\* that is counted beside what it corrects is not the only one the case trusts
\* (_supersession_map, _active_evidence_items).
Corrects(y, x) ==
  /\ y.stage = "corrected" /\ y.accepted /\ ~y.low /\ y.class = "business_evidence"
  /\ x.id \in y.supersedes /\ x.id # y.id /\ x.type = y.type
CorrectionReplaces ==
  LET now == Fresh
  IN \A x, y \in now.active :
       Corrects(y, x) => \E z \in ToSet(now.case.ev) \ {y} :
                           Corrects(z, x) /\ Trusts(now.man, failed, file, dossier, z)

\* Once a piece of evidence finds its original out of place, nothing from that original
\* counts, in whatever order the pieces came (link_manifest_evidence, _merge_status).
ExcludedTogether ==
  LET now == Fresh
  IN \A y \in ToSet(now.case.ev), x \in now.active :
       StatusFrom(y) = "excluded" => Linked(man, failed, y) \cap Precise(man, failed, x) = {}

\* An original once quarantined stays so, whatever is read, summarised or patched
\* afterwards, whichever step a crash interrupts (_merge_status).
QuarantineHolds ==
  [][\A r \in DOMAIN man :
       man[r].status = "quarantined" => r \in DOMAIN man' /\ man'[r].status = "quarantined"]_caseVars

\* "Atomically persist the evidence patch and its validated model work": a review patch
\* that is refused leaves the case and the manifest as its load had them.
RefusedChangesNothing ==
  [][(review # NoReview /\ review' = NoReview /\ reading' = reading /\ case' = Fresh.case)
     => man' \in {man, Fresh.man}]_caseVars
=============================================================================
