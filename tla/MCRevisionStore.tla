-------------------------- MODULE MCRevisionStore --------------------------
EXTENDS RevisionStore

\* r1 hosts the child, r2 is a later turn of the same case
MCRoleOf == [m1 |-> "planner", m2 |-> "executor"]
MCCallsOf == [r1 |-> {"m1", "m2"}, r2 |-> {}]
MCDecisionsOf ==
  [r1 |-> {[action |-> "call_tool", target |-> "read_attachment"]}, r2 |-> {}]

Report(kind, error, of) ==
  [kind |-> kind, name |-> "read_attachment", error |-> error, child |-> of]
MCFindings == {<<Report("guard", TRUE, "")>>, <<Report("tool", FALSE, "k1")>>}

MCParentOf == [k1 |-> "r1"]
MCDownstream == [a |-> {"a", "b"}, b |-> {"b"}]
Correct(id, target) == [id |-> id, target |-> target, refs |-> {"src"}]
MCCorrections == {Correct("x", "a"), Correct("x", "b"), Correct("y", "b")}
=============================================================================
