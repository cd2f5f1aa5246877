------------------------------ MODULE ChildRun ------------------------------
(***************************************************************************)
(* One durable Evidence Compiler run, seen from its run directory: the     *)
(* evidence_reviewer and recheck_evidence_review tools of                  *)
(* compiler_child/extension.py around EvidenceCompilerRuntime.run.         *)
(*                                                                         *)
(* evidence_reviewer starts runtime.run in a worker thread and awaits it.  *)
(* The thread keeps its own latest_checkpoint; checkpoint_sink first       *)
(* replaces checkpoint.json and then appends a checkpoint_saved event, two *)
(* separate steps.  recheck_evidence_review revises checkpoint.json and    *)
(* appends an event.  The parent agent calls the tools one at a time.      *)
(*                                                                         *)
(* What the environment may do beyond that is listed in Faults:            *)
(*   "crash"    the process dies; only the run directory survives          *)
(*   "store"    a write to the run directory raises                        *)
(*   "abandon"  the awaiting tool call is cancelled, or its publish call   *)
(*              raises, while the worker thread goes on                    *)
(*                                                                         *)
(* completed_check_ids is a list; here it is a sequence of the groups of   *)
(* CHECKs appended together, each group being listed in plan order.  The   *)
(* proof terms behind a completed CHECK are left to the other modules.     *)
(***************************************************************************)
EXTENDS Naturals, Sequences

CONSTANTS
    Check,          \* the CHECK nodes of the proof plan
    NoCheck,        \* the empty active_check_id
    Position,       \* place of a CHECK in _ordered_check_ids
    Upstream,       \* upstream_check_ids of a CHECK
    Registered,     \* all CHECKs hold a contract of one capability
    Thread,         \* worker threads
    Correction,     \* correction ids the parent may use
    Idle, Rechecking, \* the tool slot is free, or held by a recheck
    Faults,         \* what the environment may do
    MaxRevision     \* bound on the revisions explored

ASSUME PlanAssumption ==
    /\ NoCheck \notin Check
    /\ Position \in [Check -> Nat]
    /\ Upstream \in [Check -> SUBSET Check]
    /\ \A c, d \in Check : Position[c] = Position[d] => c = d
    /\ \A c \in Check : \A u \in Upstream[c] : Position[u] < Position[c]

ASSUME EnvironmentAssumption ==
    /\ Registered \in BOOLEAN
    /\ Faults \subseteq {"crash", "store", "abandon"}
    /\ Idle # Rechecking /\ Idle \notin Thread /\ Rechecking \notin Thread
    /\ MaxRevision \in Nat

VARIABLES
    requested,  \* request.json exists
    ckpt,       \* checkpoint.json
    tail,       \* the last decodable event: a retry-exhausted pause, or not
    tool,       \* the worker awaited by evidence_reviewer, Rechecking or Idle
    draft,      \* the revision a recheck call is about to write
    pc,         \* where a worker is in runtime.run
    latest,     \* its latest_checkpoint
    todo,       \* the CHECKs its loop has not attempted yet
    after,      \* where it goes once the checkpoint is saved
    outcome     \* how it left runtime.run

vars == <<requested, ckpt, tail, tool, draft,
          pc, latest, todo, after, outcome>>
runDir == <<requested, ckpt, tail>>

Status == {"missing", "running", "completed", "failed"}
CompileStatus == {"none", "COMMITTED", "NON_CONVERGED", "INVALID"}
PC == {"idle", "admit", "write", "record", "plan_ready", "choose",
       "execute", "verify", "finish", "ended"}
Outcome == {"returned", "paused", "rolled_back", "error"}

Checkpoint ==
    [revision    : Nat,
     status      : Status,
     compile     : CompileStatus,
     active      : Check \cup {NoCheck},
     completed   : Seq(SUBSET Check),
     corrections : SUBSET Correction]

Missing ==
    [revision |-> 0, status |-> "missing", compile |-> "none",
     active |-> NoCheck, completed |-> <<>>, corrections |-> {}]

TypeOK ==
    /\ requested \in BOOLEAN
    /\ ckpt \in Checkpoint
    /\ tail \in {"other", "exhausted"}
    /\ tool \in Thread \cup {Idle, Rechecking}
    /\ draft \in Checkpoint
    /\ pc \in [Thread -> PC]
    /\ latest \in [Thread -> Checkpoint]
    /\ todo \in [Thread -> SUBSET Check]
    /\ after \in [Thread -> PC]
    /\ outcome \in [Thread -> Outcome]

-----------------------------------------------------------------------------
(* The proof plan and the list of completed CHECKs                         *)

\* The CHECKs in a completed list.
Done(list) == UNION {list[i] : i \in DOMAIN list}

\* The list is its own CHECKs in plan order.
InPlanOrder(list) ==
    \A i, j \in DOMAIN list :
        i < j => \A c \in list[i], d \in list[j] : Position[c] < Position[d]

UpstreamClosed(S) == \A c \in S : Upstream[c] \subseteq S

\* completed_check_ids == _ordered_check_ids(plan)
IsWholePlan(list) == Done(list) = Check /\ InPlanOrder(list)

\* Mutant of ReadyClosure: every CHECK that passed is committed.
ReadyClosureUnfiltered(passed, done) == passed

\* What _run_registered_batch_frontier commits of the CHECKs that passed all
\* three gates: those whose upstreams are committed already or with them.
ReadyClosure(passed, done) ==
    UNION {S \in SUBSET passed : \A c \in S : Upstream[c] \subseteq S \cup done}

\* Mutant of Downstream: only the CHECK itself is invalidated.
DownstreamItself(c) == {c}

\* The CHECK and everything that consumes its output, directly or not.
Downstream(c) ==
    {d \in Check : \A S \in SUBSET Check :
        /\ c \in S
        /\ \A e \in Check : Upstream[e] \cap S # {} => e \in S
        => d \in S}

AppendGroup(list, group) == IF group = {} THEN list ELSE Append(list, group)

\* The first CHECK the loop has still to attempt.
First(S) == CHOOSE c \in S : \A d \in S : Position[c] <= Position[d]

-----------------------------------------------------------------------------
(* Checkpoints                                                             *)

\* The checkpoint a new run saves before its PLAN_READY pause.
FirstCheckpoint ==
    [Missing EXCEPT !.revision = 1, !.status = "running"]

\* Mutant of ResumedCheckpoint: the resumed run starts over.
ResumedFromScratch(ck) ==
    [ck EXCEPT !.status = "running", !.compile = "none", !.active = NoCheck,
               !.completed = <<>>]

\* A run resumed from a checkpoint that did not converge is a new revision.
ResumedCheckpoint(ck) ==
    [ck EXCEPT !.revision = IF ck.compile = "NON_CONVERGED" THEN @ + 1 ELSE @,
               !.status = "running", !.compile = "none", !.active = NoCheck]

\* The lineage checks of runtime.run that a saved checkpoint could fail.
Admissible(ck) ==
    /\ InPlanOrder(ck.completed)
    /\ UpstreamClosed(Done(ck.completed))

\* Mutant of CommittedCheckpoint: the list is assigned, not extended.
CommittedReplaces(ck, group) ==
    [ck EXCEPT !.completed = AppendGroup(<<>>, group), !.active = NoCheck]

CommittedCheckpoint(ck, group) ==
    [ck EXCEPT !.completed = AppendGroup(@, group), !.active = NoCheck]

\* Mutant of FailedCheckpoint: the compile status ends up in status.
FailedSwapped(ck) == [ck EXCEPT !.status = "INVALID"]

FailedCheckpoint(ck) ==
    [ck EXCEPT !.status = "failed", !.compile = "INVALID"]

ExhaustedCheckpoint(ck) == [ck EXCEPT !.compile = "NON_CONVERGED"]

\* Mutant of FinalCheckpoint: the end of the loop counts as the end of the plan.
FinalUnchecked(ck) ==
    [ck EXCEPT !.status = "completed", !.compile = "COMMITTED", !.active = NoCheck]

FinalCheckpoint(ck) ==
    LET whole == IsWholePlan(ck.completed) IN
    [ck EXCEPT !.status = IF whole THEN "completed" ELSE "running",
               !.compile = IF whole THEN "COMMITTED" ELSE "NON_CONVERGED",
               !.active = NoCheck]

\* revise_compiler_checkpoint with a RECHECK correction.
RevisedCheckpoint(ck, k, c) ==
    [ck EXCEPT !.revision = @ + 1, !.status = "running", !.compile = "none",
               !.active = NoCheck,
               !.completed = [i \in DOMAIN @ |-> @[i] \ Downstream(c)],
               !.corrections = @ \cup {k}]

-----------------------------------------------------------------------------
Init ==
    /\ requested = FALSE
    /\ ckpt = Missing
    /\ tail = "other"
    /\ tool = Idle
    /\ draft = Missing
    /\ pc = [t \in Thread |-> "idle"]
    /\ latest = [t \in Thread |-> Missing]
    /\ todo = [t \in Thread |-> {}]
    /\ after = [t \in Thread |-> "idle"]
    /\ outcome = [t \in Thread |-> "returned"]

Goto(t, label) == pc' = [pc EXCEPT ![t] = label]

\* The worker hands ck to checkpoint_sink and continues at label afterwards.
SaveThen(t, ck, label) ==
    /\ latest' = [latest EXCEPT ![t] = ck]
    /\ after' = [after EXCEPT ![t] = label]
    /\ Goto(t, "write")

\* The worker's thread is gone, and with it everything it held.
Retire(t) ==
    /\ Goto(t, "idle")
    /\ latest' = [latest EXCEPT ![t] = Missing]
    /\ todo' = [todo EXCEPT ![t] = {}]
    /\ after' = [after EXCEPT ![t] = "idle"]
    /\ outcome' = [outcome EXCEPT ![t] = "returned"]

\* The worker leaves runtime.run.
EndWith(t, how) ==
    /\ outcome' = [outcome EXCEPT ![t] = how]
    /\ Goto(t, "ended")

-----------------------------------------------------------------------------
(* evidence_reviewer: start, resume, report                                *)

\* Mutant of Begin: resume looks at the checkpoint only, not at the last event.
BeginUnchecked(t) ==
    /\ tool = Idle
    /\ pc[t] = "idle"
    /\ requested => ckpt.status # "completed"
    /\ ckpt.compile = "NON_CONVERGED" => ckpt.revision < MaxRevision
    /\ requested' = TRUE
    /\ tool' = t
    /\ latest' = [latest EXCEPT ![t] = ckpt]
    /\ Goto(t, "admit")
    /\ UNCHANGED <<ckpt, tail, draft, todo, after, outcome>>

\* A first call writes request.json; a later one resumes the same run unless
\* its checkpoint is final or its last event is a retry-exhausted pause.
Begin(t) ==
    /\ tool = Idle
    /\ pc[t] = "idle"
    /\ requested => ckpt.status # "completed" /\ tail # "exhausted"
    /\ ckpt.compile = "NON_CONVERGED" => ckpt.revision < MaxRevision
    /\ requested' = TRUE
    /\ tool' = t
    /\ latest' = [latest EXCEPT ![t] = ckpt]
    /\ Goto(t, "admit")
    /\ UNCHANGED <<ckpt, tail, draft, todo, after, outcome>>

\* The awaiting tool call sees the worker end and appends child_paused or
\* child_error; a result that was returned leaves no event.
Report(t) ==
    /\ tool = t
    /\ pc[t] = "ended"
    /\ tail' = CASE outcome[t] = "returned" -> tail
                 [] outcome[t] = "rolled_back" -> "exhausted"
                 [] OTHER -> "other"
    /\ tool' = Idle
    /\ Retire(t)
    /\ UNCHANGED <<requested, ckpt, draft>>

\* A worker nobody awaits ends without a trace.
OrphanEnds(t) ==
    /\ tool # t
    /\ pc[t] = "ended"
    /\ Retire(t)
    /\ UNCHANGED <<runDir, tool, draft>>

-----------------------------------------------------------------------------
(* runtime.run, in the worker thread                                       *)

\* A fresh run compiles its plan; that may fail, or be paused by a cancel.
CompilePlan(t) ==
    /\ pc[t] = "admit"
    /\ latest[t] = Missing
    /\ \/ /\ SaveThen(t, FirstCheckpoint, "plan_ready")
          /\ todo' = [todo EXCEPT ![t] = Check]
          /\ UNCHANGED outcome
       \/ /\ \E how \in {"paused", "error"} : EndWith(t, how)
          /\ UNCHANGED <<latest, todo, after>>
    /\ UNCHANGED <<runDir, tool, draft>>

\* A resumed run checks the lineage of its checkpoint and saves the next one.
AdmitCheckpoint(t) ==
    /\ pc[t] = "admit"
    /\ latest[t] # Missing
    /\ IF Admissible(latest[t])
       THEN /\ SaveThen(t, ResumedCheckpoint(latest[t]), "choose")
            /\ todo' = [todo EXCEPT ![t] = Check \ Done(latest[t].completed)]
            /\ UNCHANGED outcome
       ELSE /\ EndWith(t, "error")
            /\ UNCHANGED <<latest, todo, after>>
    /\ UNCHANGED <<runDir, tool, draft>>

WriteCheckpoint(t) ==
    /\ pc[t] = "write"
    /\ ckpt' = latest[t]
    /\ Goto(t, "record")
    /\ UNCHANGED <<requested, tail, tool, draft, latest, todo, after, outcome>>

RecordCheckpoint(t) ==
    /\ pc[t] = "record"
    /\ tail' = "other"
    /\ Goto(t, after[t])
    /\ UNCHANGED <<requested, ckpt, tool, draft, latest, todo, after, outcome>>

\* The plan_ready event always pauses a new run.
PausePlanReady(t) ==
    /\ pc[t] = "plan_ready"
    /\ tail' = "other"
    /\ EndWith(t, "paused")
    /\ UNCHANGED <<requested, ckpt, tool, draft, latest, todo, after>>

\* Mark the next frontier active: all remaining CHECKs of a registered plan,
\* or the first of them.
ChooseFrontier(t) ==
    /\ pc[t] = "choose"
    /\ IF todo[t] = {}
       THEN /\ Goto(t, "finish")
            /\ UNCHANGED <<latest, after>>
       ELSE SaveThen(t, [latest[t] EXCEPT !.active = First(todo[t])], "execute")
    /\ UNCHANGED <<runDir, tool, draft, todo, outcome>>

Focus(t) == IF Registered THEN todo[t] ELSE {latest[t].active}

\* Open the revision's Executor conversation and announce the frontier.
StartExecutor(t) ==
    /\ pc[t] = "execute"
    /\ tail' = "other"
    /\ Goto(t, "verify")
    /\ UNCHANGED <<requested, ckpt, tool, draft, latest, todo, after, outcome>>

\* Mutant of CommitFrontier: a frontier in which nothing passed is tried again.
CommitRetries(t) ==
    /\ pc[t] = "verify"
    /\ \E passed \in SUBSET Focus(t) :
         /\ SaveThen(t, CommittedCheckpoint(latest[t], passed), "choose")
         /\ todo' = [todo EXCEPT ![t] = @ \ passed]
    /\ UNCHANGED <<runDir, tool, draft, outcome>>

\* Executor, Verifier and Kernel accepted the CHECKs in passed.  A batch
\* commits their ready closure and stops; nothing passed when its Executor or
\* Verifier broke the protocol.
CommitFrontier(t) ==
    /\ pc[t] = "verify"
    /\ \E passed \in SUBSET Focus(t) :
         LET group == IF Registered
                      THEN ReadyClosure(passed, Done(latest[t].completed))
                      ELSE passed
         IN  /\ ~Registered => passed # {}
             /\ SaveThen(t, CommittedCheckpoint(latest[t], group), "choose")
    /\ todo' = [todo EXCEPT ![t] = IF Registered THEN {} ELSE @ \ Focus(t)]
    /\ UNCHANGED <<runDir, tool, draft, outcome>>

\* A CHECK used up its attempts and the frontier_rolled_back event paused it.
RollBackCheck(t) ==
    /\ pc[t] = "verify"
    /\ ~Registered
    /\ outcome' = [outcome EXCEPT ![t] = "rolled_back"]
    /\ tail' = "other"
    /\ SaveThen(t, ExhaustedCheckpoint(latest[t]), "ended")
    /\ UNCHANGED <<requested, ckpt, tool, draft, todo>>

\* The same when the event could not be stored: _progress swallows the
\* failure, there is no pause and the loop goes on with the next CHECK.
RollBackUnpaused(t) ==
    /\ "store" \in Faults
    /\ pc[t] = "verify"
    /\ ~Registered
    /\ todo' = [todo EXCEPT ![t] = @ \ Focus(t)]
    /\ SaveThen(t, CommittedCheckpoint(latest[t], {}), "choose")
    /\ UNCHANGED <<runDir, tool, draft, outcome>>

\* The parent cancelled: the next progress event pauses the frontier.  The
\* batch treats the pause as any exception and saves a failed checkpoint.
PauseFrontier(t) ==
    /\ pc[t] = "verify"
    /\ tail' = "other"
    /\ IF Registered
       THEN /\ SaveThen(t, FailedCheckpoint(latest[t]), "ended")
            /\ outcome' = [outcome EXCEPT ![t] = "paused"]
       ELSE /\ EndWith(t, "paused")
            /\ UNCHANGED <<latest, after>>
    /\ UNCHANGED <<requested, ckpt, tool, draft, todo>>

\* A runtime error, or a Kernel diagnostic about the whole artifact.
FailFrontier(t) ==
    /\ pc[t] = "verify"
    /\ outcome' = [outcome EXCEPT ![t] = "error"]
    /\ SaveThen(t, FailedCheckpoint(latest[t]), "ended")
    /\ UNCHANGED <<runDir, tool, draft, todo>>

FinishRun(t) ==
    /\ pc[t] = "finish"
    /\ outcome' = [outcome EXCEPT ![t] = "returned"]
    /\ SaveThen(t, FinalCheckpoint(latest[t]), "ended")
    /\ UNCHANGED <<runDir, tool, draft, todo>>

-----------------------------------------------------------------------------
(* recheck_evidence_review                                                 *)

\* Read checkpoint.json and revise it.  A correction id that is already in
\* the checkpoint returns it unchanged, before the expected revision is
\* compared; otherwise the parent has named the current revision.
BeginRecheck(k, c) ==
    /\ tool = Idle
    /\ ckpt # Missing
    /\ IF k \in ckpt.corrections
       THEN draft' = ckpt
       ELSE /\ ckpt.revision < MaxRevision
            /\ draft' = RevisedCheckpoint(ckpt, k, c)
    /\ tool' = Rechecking
    /\ UNCHANGED <<runDir, pc, latest, todo, after, outcome>>

WriteRevision ==
    /\ tool = Rechecking
    /\ draft # Missing
    /\ ckpt' = draft
    /\ draft' = Missing
    /\ UNCHANGED <<requested, tail, tool, pc, latest, todo, after, outcome>>

RecordRevision ==
    /\ tool = Rechecking
    /\ draft = Missing
    /\ tail' = "other"
    /\ tool' = Idle
    /\ UNCHANGED <<requested, ckpt, draft, pc, latest, todo, after, outcome>>

-----------------------------------------------------------------------------
(* What goes wrong around the run                                          *)

Crash ==
    /\ "crash" \in Faults
    /\ tool # Idle \/ \E t \in Thread : pc[t] # "idle"
    /\ tool' = Idle
    /\ draft' = Missing
    /\ pc' = [t \in Thread |-> "idle"]
    /\ latest' = [t \in Thread |-> Missing]
    /\ todo' = [t \in Thread |-> {}]
    /\ after' = [t \in Thread |-> "idle"]
    /\ outcome' = [t \in Thread |-> "returned"]
    /\ UNCHANGED runDir

\* checkpoint.json, its event or the session store cannot be written: the
\* exception leaves runtime.run.
StoreFails(t) ==
    /\ "store" \in Faults
    /\ pc[t] \in {"write", "record", "execute"}
    /\ EndWith(t, "error")
    /\ UNCHANGED <<runDir, tool, draft, latest, todo, after>>

\* The plan_ready event is not stored; the run continues unpaused.
PlanReadyUnseen(t) ==
    /\ "store" \in Faults
    /\ pc[t] = "plan_ready"
    /\ Goto(t, "choose")
    /\ UNCHANGED <<runDir, tool, draft, latest, todo, after, outcome>>

\* The final event of the tool call is not stored.
ReportFails(t) ==
    /\ "store" \in Faults
    /\ tool = t
    /\ pc[t] = "ended"
    /\ tool' = Idle
    /\ Retire(t)
    /\ UNCHANGED <<runDir, draft>>

\* The revision or its event is not stored.
RecheckFails ==
    /\ "store" \in Faults
    /\ tool = Rechecking
    /\ tool' = Idle
    /\ draft' = Missing
    /\ UNCHANGED <<runDir, pc, latest, todo, after, outcome>>

\* The tool call ends while its worker thread keeps running.
Abandon(t) ==
    /\ "abandon" \in Faults
    /\ tool = t
    /\ pc[t] # "ended"
    /\ tool' = Idle
    /\ UNCHANGED <<runDir, draft, pc, latest, todo, after, outcome>>

-----------------------------------------------------------------------------
Save(t) == WriteCheckpoint(t) \/ RecordCheckpoint(t)

Frontier(t) ==
    \/ ChooseFrontier(t) \/ StartExecutor(t) \/ CommitFrontier(t)
    \/ RollBackCheck(t) \/ RollBackUnpaused(t) \/ PauseFrontier(t)
    \/ FailFrontier(t)

Worker(t) ==
    \/ CompilePlan(t) \/ AdmitCheckpoint(t) \/ Save(t) \/ PausePlanReady(t)
    \/ Frontier(t) \/ FinishRun(t) \/ Report(t) \/ OrphanEnds(t)

Recheck ==
    \/ \E k \in Correction, c \in Check : BeginRecheck(k, c)
    \/ WriteRevision
    \/ RecordRevision

Fault ==
    \/ Crash
    \/ RecheckFails
    \/ \E t \in Thread :
         StoreFails(t) \/ PlanReadyUnseen(t) \/ ReportFails(t) \/ Abandon(t)

Next ==
    \/ \E t \in Thread : Begin(t) \/ Worker(t)
    \/ Recheck
    \/ Fault

Spec == Init /\ [][Next]_vars

\* A worker thread that can step does; the model calls of a frontier return.
Fairness == \A t \in Thread : WF_vars(Worker(t))

FairSpec == Spec /\ Fairness

-----------------------------------------------------------------------------
(* Safety                                                                  *)

(* The CHECKs of the saved checkpoint are closed under their upstreams: no
   run, crash, partial batch or recheck leaves a committed CHECK whose premise
   is not committed (runtime.run refuses such a checkpoint on resume). *)
CompletedClosed == UpstreamClosed(Done(ckpt.completed))

(* A completed checkpoint is COMMITTED and lists the whole plan, however many
   resumes and rechecks led to it: safe_write relies on this. *)
CompletedIsWhole ==
    ckpt.status = "completed" =>
        ckpt.compile = "COMMITTED" /\ IsWholePlan(ckpt.completed)

(* README: append-only checkpoints.  The saved revision never goes back, a
   recorded correction is never lost, and committed CHECKs leave the saved
   checkpoint only when a correction is added: no crash, failed frontier or
   resume loses proved work. *)
AppendOnly ==
    [][/\ ckpt'.revision >= ckpt.revision
       /\ ckpt.corrections \subseteq ckpt'.corrections
       /\ \/ Done(ckpt.completed) \subseteq Done(ckpt'.completed)
          \/ ckpt'.corrections # ckpt.corrections]_ckpt

(* After a retry-exhausted pause nothing runs until a recheck has recorded
   its event: the pause is checked before a worker starts. *)
ExhaustedStops ==
    tail = "exhausted" => \A t \in Thread : pc[t] = "idle"

(* The checkpoint on disk passes the lineage checks of the next resume:
   "the latest checkpoint remains resumable". *)
SavedIsResumable == Admissible(ckpt)

(* Liveness: every started worker leaves runtime.run, whatever the gates
   decide and whatever fails: no frontier is tried for ever. *)
WorkEnds == \A t \in Thread : pc[t] # "idle" ~> pc[t] = "idle"
=============================================================================
