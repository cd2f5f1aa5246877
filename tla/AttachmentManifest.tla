------------------------- MODULE AttachmentManifest -------------------------
(***************************************************************************)
(* The attachment manifest of a case: which stored originals the case has, *)
(* what the reader extracted from each, and how far each may be believed.  *)
(* This module gives the operations of the manifest on its value; CaseFile *)
(* says when the program performs them.                                    *)
(*                                                                         *)
(* A manifest is a partial function from stored originals to entries.  An  *)
(* attachment id hashes the path and the bytes of the original, so within  *)
(* an original the version of the bytes is the id.  A failed read leaves an *)
(* entry without an original: only its name matters, and `failed' keeps it. *)
(***************************************************************************)
EXTENDS Naturals, FiniteSets, Sequences, SequencesExt

CONSTANTS Refs,        \* stored originals of the case
          Plain,       \* the originals that are themselves text
          NameOf,      \* NameOf[r]: file name of r
          Screening    \* Screening[r][v]: status the reader gives to what r says
                       \* in version v

ASSUME ManifestAssumption ==
  /\ IsFiniteSet(Refs) /\ Plain \subseteq Refs
  /\ \A r \in Refs : \A v \in DOMAIN Screening[r] :
       Screening[r][v] \in {"active", "weak", "excluded", "quarantined"}

Statuses == {"error", "active", "weak", "excluded", "quarantined"}
Believed == {"active", "weak"}

\* A slip, for mutation: the later status wins
MergeLast(old, new) == IF new = "error" THEN old ELSE new

\* _merge_status: a better reading lifts "weak", otherwise the worse status stays
Rank == [s \in Statuses |->
           CASE s = "quarantined" -> 5 [] s = "excluded" -> 4 [] s = "weak" -> 3
             [] s = "active" -> 2 [] s = "error" -> 1]

Merge(old, new) ==
  IF new = "error" THEN old
  ELSE IF old = "weak" /\ new = "active" THEN new
  ELSE IF Rank[old] >= Rank[new] THEN old ELSE new

\* _status_from_evidence.  An injection never reaches the manifest under that
\* name: the case store has already renamed its classification "quarantined".
StatusFrom(item) ==
  CASE item.class \in {"prompt_injection"} -> "quarantined"
    [] item.class \in {"irrelevant", "wrong_workflow", "cross_case_sample"} -> "excluded"
    [] item.class = "unclear" \/ item.low \/ item.supports = {} -> "weak"
    [] OTHER -> "active"

-----------------------------------------------------------------------------
(* Finding the entry of a piece of evidence. *)

Matches(man, item) ==
  CASE item.by = "id"   -> {r \in DOMAIN man : r = item.ref /\ man[r].version = item.version}
    [] item.by = "ref"  -> {r \in DOMAIN man : r = item.ref}
    [] item.by = "name" -> {r \in DOMAIN man : NameOf[r] = NameOf[item.ref]}
    [] OTHER -> {}

\* _find_precise_manifest_entry: one match only, and a failed read of the same
\* name is a match
Precise(man, failed, item) ==
  IF \/ Cardinality(Matches(man, item)) # 1
     \/ item.by = "name" /\ NameOf[item.ref] \in failed
  THEN {} ELSE Matches(man, item)

\* Evidence that names no attachment is placed by what it talks about
Linked(man, failed, item) ==
  IF item.by = "text" THEN {item.ref} \cap DOMAIN man ELSE Precise(man, failed, item)

\* link_manifest_evidence: each item in turn has its say on the status of its entry (the
\* ids it collects are for display).  Which entry an item finds does not rest on statuses.
LinkedStatus(man, failed, items, r) ==
  LET after[n \in 0..Len(items)] ==
        IF n = 0 THEN man[r].status
        ELSE IF r \in Linked(man, failed, items[n])
             THEN Merge(after[n - 1], StatusFrom(items[n]))
             ELSE after[n - 1]
  IN after[Len(items)]

Link(man, failed, items) ==
  [r \in DOMAIN man |-> [man[r] EXCEPT !.status = LinkedStatus(man, failed, items, r)]]

-----------------------------------------------------------------------------
(* Trust: the runtime owns the text behind a piece of evidence. *)

\* _trusted_source_texts: a dossier counts when its bytes and its id are the ones
\* of the entry; an original that is text speaks for itself
HasText(man, dossier, r) ==
  \/ man[r].dossier # 0 /\ dossier[r] = [version |-> man[r].version, text |-> man[r].dossier]
  \/ r \in Plain

\* A slip, for mutation: the stored original is not hashed again
TrustsUnhashed(man, failed, file, dossier, item) ==
  \E r \in Precise(man, failed, item) :
    man[r].status \in Believed /\ HasText(man, dossier, r)

Trusts(man, failed, file, dossier, item) ==
  \E r \in Precise(man, failed, item) :
    /\ man[r].status \in Believed
    /\ file[r] = man[r].version
    /\ HasText(man, dossier, r)

\* trusted_sources_for_evidence: ids of the items it can vouch for
Trusted(man, failed, file, dossier, items) ==
  {item.id : item \in {x \in ToSet(items) : Trusts(man, failed, file, dossier, x)}}

-----------------------------------------------------------------------------
(* Reading an attachment. *)

\* upsert_manifest_read_items: what was known of the original stays known
Upsert(man, r, version, dossier, status) ==
  LET known == r \in DOMAIN man
      entry == [version |-> version,
                status  |-> IF known THEN Merge(man[r].status, status) ELSE status,
                dossier |-> IF known /\ dossier = 0 THEN man[r].dossier ELSE dossier]
  IN [s \in DOMAIN man \cup {r} |-> IF s = r THEN entry ELSE man[s]]

\* update_manifest_summaries: a summary that misses something weakens the entry
Weaken(man, r) == [man EXCEPT ![r].status = IF @ = "active" THEN "weak" ELSE @]
=============================================================================
