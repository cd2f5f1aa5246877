------------------------------ MODULE ProofDag ------------------------------
(***************************************************************************)
(* A proposal whose actions depend on each other is reviewed in stages:    *)
(* each review routes every action to a registered template, expands the   *)
(* templates into a DAG of actions and shared nodes, and lowers what the   *)
(* receipts of finished actions allow into the CHECKs of one proof plan.   *)
(* The model that routes may route differently each time; the host acts on *)
(* Odoo when and in what order it likes, and admits any of its receipts.   *)
(***************************************************************************)
EXTENDS Naturals, FiniteSets, Sequences, SequencesExt

CONSTANTS Catalog,      \* template -> what proof_templates.json registers for it
          Shared,       \* shared node -> the kinds of action that establish it
          Recipes,      \* check -> the checks whose results it reads
          Sealed,       \* the proposals a manifest may list
          MaxReceipts   \* receipts the host obtains

\* a shared node is registered before a template may require it, and nothing is infinite
ASSUME CatalogAssumption ==
  /\ IsFiniteSet(DOMAIN Shared)
  /\ \A t \in DOMAIN Catalog : \A at \in DOMAIN Catalog[t].shared :
       Catalog[t].shared[at] \subseteq DOMAIN Shared
  /\ \A p \in Sealed : IsFiniteSet(DOMAIN p)

VARIABLES proposal,  \* the admitted proposal: a sequence of [id, kind, stage, ref]
          happened,  \* the records whose action has taken effect
          receipts,  \* [records -> outcome] for each time the host acted
          stage      \* the plan under review, or NoStage

dagVars == <<proposal, happened, receipts, stage>>

NoStage == [checks |-> {}]

\* Manager actions group the lines of a proposal, one line for each record
Acts(p) == {x.id : x \in ToSet(p)}
Line(p, a) == CHOOSE x \in ToSet(p) : x.id = a
RefsOf(p, a) == {x.ref : x \in {y \in ToSet(p) : y.id = a}}

\* ActionProposal: one action per record
WellSealed(p) == \A i, j \in DOMAIN p : p[i].ref = p[j].ref => i = j

\* _manager_request_from_proposal: one kind and stage per action, and grouping the records
\* by action must give back what was sealed, in its order
Requested(p) ==
  /\ WellSealed(p)
  /\ \A x, y \in ToSet(p) : x.id = y.id => x.kind = y.kind /\ x.stage = y.stage
  /\ \A i, j, k \in DOMAIN p : i < j /\ j < k /\ p[i].id = p[k].id => p[j].id = p[i].id

-----------------------------------------------------------------------------
(* The DAG that a routing of the actions to templates expands to. *)

SharedOf(route) == UNION {UNION Range(Catalog[t].shared) : t \in Range(route)}

Required(p, route, a) == Catalog[route[a]].shared[Line(p, a).stage]
Rules(p, route, a) == Catalog[route[a]].before[Line(p, a).stage]
Candidates(p, route, rule) ==
  {b \in Acts(p) : route[b] = rule.template /\ Line(p, b).stage = rule.stage}
Establishing(p, s) == {b \in Acts(p) : Line(p, b).kind \in Shared[s]}

\* _registered_dependencies: what waits for what
Edges(p, route) ==
  (UNION {(Required(p, route, a) \cup (UNION {Candidates(p, route, r) : r \in Rules(p, route, a)}))
            \X {a} : a \in Acts(p)})
  \cup (UNION {Establishing(p, s) \X {s} : s \in SharedOf(route)})

Before(edges, n) == {e[1] : e \in {x \in edges : x[2] = n}}
Reversed(edges) == {<<e[2], e[1]>> : e \in edges}

\* and the postconditions it asks of them
Demanded(p, route, n) ==
  IF n \in Acts(p) THEN UNION {r.post : r \in Rules(p, route, n)}
  ELSE UNION {Catalog[route[b]].establishes[n] : b \in Establishing(p, n)}

\* What can be reached from a set of nodes along the edges
Onward(edges, from) ==
  LET sources == {e[1] : e \in edges}
      after == [n \in sources |-> {e[2] : e \in {x \in edges : x[1] = n}}]
      far[k \in 0..Cardinality(sources)] ==
        IF k = 0 THEN from
        ELSE far[k - 1] \cup (UNION {after[n] : n \in far[k - 1] \cap sources})
  IN far[Cardinality(sources)]

Acyclic(edges) == \A e \in edges : e[1] \notin Onward(edges, {e[2]})

\* compile_task_compiler_plan: each action under a template made for it
Protected(p, route) ==
  \A a \in Acts(p) : /\ Line(p, a).kind \in Catalog[route[a]].protects
                     /\ Line(p, a).stage \in DOMAIN Catalog[route[a]].shared

\* _registered_dependencies, compile_registered_proof_dag: no node is there twice, no stage
\* prerequisite and no postcondition is missing from the proposal, and the edges make a DAG
Expands(p, route) ==
  /\ Protected(p, route)
  /\ Acts(p) \cap SharedOf(route) = {}
  /\ \A a \in Acts(p) : \A r \in Rules(p, route, a) : Candidates(p, route, r) # {}
  /\ \A n \in Acts(p) \cup SharedOf(route) :
       Demanded(p, route, n)
         \subseteq UNION {Catalog[route[b]].post : b \in Before(Edges(p, route), n) \cap Acts(p)}
  /\ Acyclic(Edges(p, route))

\* The answers of the Task Compiler that are accepted: a route for a sealed proposal, with
\* or without inputs that it leaves to the Manager unresolved and that are passed on
Routings ==
  UNION {{[proposal |-> p, route |-> route, unresolved |-> left] :
             route \in {r \in [Acts(p) -> DOMAIN Catalog] : Expands(p, r)}, left \in BOOLEAN} :
           p \in Sealed}

-----------------------------------------------------------------------------
(* The stage: the frontier of the DAG behind the actions that are done. *)

\* A target with an unfinished action among its sources, and all behind it
Blocked(p, edges, done) ==
  Onward(edges, {e[2] : e \in {x \in edges : x[1] \in Acts(p) \ done}})

Active(p, edges, done) == Acts(p) \ (done \cup Blocked(p, edges, done))

\* Mutant of Needed: the walk stops at shared nodes as it does at finished actions.
NeededAlone(p, edges, done) ==
  LET active == Active(p, edges, done)
  IN active \cup {e[1] : e \in {x \in edges : x[2] \in active /\ x[1] \in Acts(p)}}

\* The nodes whose CHECKs the frontier needs: a finished action ends the walk
Needed(p, edges, done) ==
  Onward(Reversed({e \in edges : e[2] \notin done /\ e[1] \notin Blocked(p, edges, done)}),
         Active(p, edges, done))

\* The checks of a template that apply in a stage
AppliesAt(t, at) == {c \in DOMAIN Catalog[t].checks : at \in Catalog[t].checks[c]}

ChecksAt(p, route, done, n) ==
  IF n \notin Acts(p) THEN {[at |-> n, check |-> n, kind |-> "shared"]}
  ELSE IF n \in done
       THEN {[at |-> n, check |-> c, kind |-> "post_action"] : c \in Catalog[route[n]].post}
       ELSE {[at |-> n, check |-> c, kind |-> "action"] : c \in AppliesAt(route[n], Line(p, n).stage)}

Specs(p, route, done) ==
  UNION {ChecksAt(p, route, done, n) : n \in Needed(p, Edges(p, route), done)}

\* The CHECKs that may be meant by a producer a recipe names
Matches(specs, x, producer) ==
  {y \in specs : y.check = producer /\ (y.at = x.at \/ y.kind = "shared")}

\* Mutant of Upstream: only the recipes name what a CHECK builds on.
UpstreamOfRecipes(edges, specs, x) ==
  UNION {Matches(specs, x, producer) : producer \in Recipes[x.check]}

\* Observed postconditions guard what comes after them; other data is named by recipes
Upstream(edges, specs, x) ==
  {y \in specs : y.kind = "post_action" /\ <<y.at, x.at>> \in edges}
    \cup (UNION {Matches(specs, x, producer) : producer \in Recipes[x.check]})

\* lower_erp_stage_to_proof_plan raises unless every input is resolved, there is a frontier
\* and every producer is one
Lowers(answer, done) ==
  LET p == answer.proposal
      specs == Specs(p, answer.route, done)
  IN /\ ~answer.unresolved
     /\ Active(p, Edges(p, answer.route), done) # {}
     /\ specs # {}
     /\ \A x \in specs : \A producer \in Recipes[x.check] :
          Cardinality(Matches(specs, x, producer)) = 1

PlanOf(p, route, done) ==
  LET specs == Specs(p, route, done)
  IN [proposal |-> p, route |-> route, done |-> done, checks |-> specs,
      upstream |-> UNION {{x} \X Upstream(Edges(p, route), specs, x) : x \in specs}]

\* The answers that can be lowered, each with the finished actions it is lowered behind
Lowered ==
  UNION {{<<r, done>> : done \in {d \in SUBSET Acts(r.proposal) : Lowers(r, d)}} : r \in Routings}

Stages == {PlanOf(x[1].proposal, x[1].route, x[2]) : x \in Lowered}

-----------------------------------------------------------------------------
(* Receipts, and a review of the stage they allow. *)

\* _completed_action_ids_from_sources: two receipts that differ on a record are refused
Consistent(some) ==
  \A x, y \in some : \A r \in DOMAIN x \cap DOMAIN y : x[r] = y[r]

\* Mutant of Completed: an attempted record counts as done.
CompletedOnceTried(p, some) ==
  {a \in Acts(p) : \A r \in RefsOf(p, a) : \E x \in some : r \in DOMAIN x}

Completed(p, some) ==
  {a \in Acts(p) : \A r \in RefsOf(p, a) :
     \E x \in some : r \in DOMAIN x /\ x[r] = "SUCCEEDED"}

DagInit ==
  /\ proposal \in {p \in Sealed : Requested(p)}
  /\ happened = {}
  /\ receipts = {}
  /\ stage = NoStage

\* The host tries some records of an action and gets a truthful receipt; one that covers
\* several actions says no more than one for each
Perform ==
  /\ Cardinality(receipts) < MaxReceipts
  /\ \E a \in Acts(proposal) : \E refs \in SUBSET (RefsOf(proposal, a) \ happened) \ {{}} :
       \E effect \in SUBSET refs :
         /\ receipts' = receipts \cup
              {[r \in refs |-> IF r \in effect THEN "SUCCEEDED" ELSE "FAILED"]}
         /\ happened' = happened \cup effect
  /\ UNCHANGED <<proposal, stage>>

\* evidence_reviewer starts a review with some of the receipts among its sources
Review ==
  /\ \E some \in SUBSET receipts :
       /\ Consistent(some)
       /\ stage' \in {s \in Stages : s.proposal = proposal /\ s.done = Completed(proposal, some)}
  /\ UNCHANGED <<proposal, happened, receipts>>

DagNext == Perform \/ Review

DagSpec == DagInit /\ [][DagNext]_dagVars

-----------------------------------------------------------------------------
\* What an action follows according to the catalogue, however far back
Follows(p, route, a) ==
  {b \in Acts(p) : \/ \E r \in Rules(p, route, a) : b \in Candidates(p, route, r)
                   \/ \E s \in Required(p, route, a) : Line(p, b).kind \in Shared[s]}

Earlier(p, route, a) ==
  LET follows == [b \in Acts(p) |-> Follows(p, route, b)]
      back[k \in 0..Cardinality(Acts(p))] ==
        IF k = 0 THEN follows[a]
        ELSE back[k - 1] \cup (UNION {follows[b] : b \in back[k - 1]})
  IN back[Cardinality(Acts(p))]

\* No action is reviewed before its time: whatever the catalogue puts before it has in fact
\* happened on every record, however the host acted and whichever receipts it admitted
\* (lower_erp_stage_to_proof_plan against the registered prerequisites).
StageInOrder ==
  \A x \in stage.checks :
    x.kind = "action" =>
      \A b \in Earlier(proposal, stage.route, x.at) : RefsOf(proposal, b) \subseteq happened

\* What the registered catalogue keeps to, and nothing in the code asks of it: a template
\* is asked only for postconditions it observes.
PostsAreOffered ==
  \A t \in DOMAIN Catalog : \A at \in DOMAIN Catalog[t].shared :
    /\ \A r \in Catalog[t].before[at] :
         r.template \in DOMAIN Catalog => r.post \subseteq Catalog[r.template].post
    /\ \A s \in DOMAIN Shared : Catalog[t].establishes[s] \subseteq Catalog[t].post

\* What it keeps to as well, and nothing asks of it before a stage is lowered: a template
\* checks something in each of its stages, what the recipe of a check reads applies in the
\* same stage or is a shared node the stage requires, and only checks of actions read any.
ReadsAreOffered ==
  /\ \A s \in DOMAIN Shared : Recipes[s] = {}
  /\ \A t \in DOMAIN Catalog : \A c \in Catalog[t].post : Recipes[c] = {}
  /\ \A t \in DOMAIN Catalog : \A at \in DOMAIN Catalog[t].shared :
       /\ AppliesAt(t, at) # {}
       /\ \A c \in AppliesAt(t, at) : \A producer \in Recipes[c] :
            \/ producer \in AppliesAt(t, at) \ DOMAIN Shared
            \/ producer \in Catalog[t].shared[at] \ DOMAIN Catalog[t].checks

\* "A required observed postcondition is a real guard": each postcondition the catalogue
\* demands of earlier actions is a CHECK of the same plan, upstream of every CHECK of the
\* action or of the shared node that demands it.
PostconditionsGuard ==
  \A x \in stage.checks :
    LET guards(b, post) ==
          \A c \in post :
            <<x, [at |-> b, check |-> c, kind |-> "post_action"]>> \in stage.upstream
    IN CASE x.kind = "action" ->
              \A r \in Rules(proposal, stage.route, x.at) :
                \A b \in Candidates(proposal, stage.route, r) : guards(b, r.post)
         [] x.kind = "shared" ->
              \A b \in Establishing(proposal, x.at) :
                guards(b, Catalog[stage.route[b]].establishes[x.at])
         [] OTHER -> TRUE

\* What the Task Compiler's answer was accepted for can be reviewed to its end: whichever
\* receipts are admitted, in whatever order the actions happened, there is a next stage until
\* every action is done.  Of what compile_task_compiler_plan accepts,
\* lower_erp_stage_to_proof_plan refuses nothing later but the answers that leave inputs
\* unresolved, and those it refuses whatever is finished.
StagesGoOn ==
  LET finished == {Completed(proposal, some) : some \in {x \in SUBSET receipts : Consistent(x)}}
  IN \A r \in {x \in Routings : x.proposal = proposal} :
       \A done \in finished \ {Acts(proposal)} : <<r, done>> \in Lowered <=> ~r.unresolved
=============================================================================
