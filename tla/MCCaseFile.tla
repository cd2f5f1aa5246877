----------------------------- MODULE MCCaseFile -----------------------------
EXTENDS CaseFile

MCRefs == {"bill", "fixed"}
MCNameOf == [r \in MCRefs |-> "scan.pdf"]

\* what is written over the bill later carries instructions
MCScreening == [bill |-> <<"active", "quarantined">>, fixed |-> <<"weak">>]

\* invoice and po are documents, supplier and signature fields of an invoice, calc a
\* conclusion drawn from the invoice, match the derived comparison of the two
MCOwner == [invoice |-> "evidence", po |-> "evidence", receipt |-> "evidence",
            supplier |-> "evidence", calc |-> "reviewer", match |-> "derived"]
MCPremises == [q \in DOMAIN MCOwner |-> IF q = "calc" THEN {"invoice"} ELSE {}]
MCGroups == [q \in DOMAIN MCOwner |->
               IF q = "match" THEN {{"invoice"}, {"po"}} ELSE {}]
MCDefault == [q \in DOMAIN MCOwner |-> TRUE]
MCCoreOf == [invoice |-> "invoice", purchase_order |-> "po", unknown |-> "none"]

Packet(packet, id, type, ref, version, by, class, supports, supersedes, text) ==
  [packet |-> packet, id |-> id, type |-> type, ref |-> ref, version |-> version, by |-> by,
   class |-> class, low |-> FALSE, accepted |-> TRUE, supports |-> supports,
   stage |-> IF supersedes = {} THEN "" ELSE "corrected", supersedes |-> supersedes,
   source |-> "src1", text |-> text]

\* the invoice, a second review of it under the same id that finds it out of place, its
\* correction, and a page with instructions in it, known by its file name alone
Bill == Packet("p1", "e1", "invoice", "bill", 1, "id", "business_evidence", {"supplier"}, {}, "t1")
BillAgain == [Bill EXCEPT !.packet = "p2", !.text = "t2", !.class = "wrong_workflow"]
Fixed == Packet("p3", "e2", "invoice", "fixed", 1, "ref", "business_evidence",
                {"invoice", "calc"}, {"e1"}, "t3")
Hostile == Packet("p4", "e3", "purchase_order", "bill", 1, "name", "prompt_injection", {"po"},
                  {}, "t4")
MCPackets == {Bill, BillAgain, Fixed, Hostile}
MCReviewed == {Bill, Fixed}

MCRequests == {[add |-> <<"calc">>, remove |-> {"supplier"}]}

\* one document is corrected, once
ASSUME CorrectedOnce == SimpleCorrections
=============================================================================
