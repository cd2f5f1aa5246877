# TLA+ models of the ERP Evidence Compiler

This directory models the ERP Evidence Compiler from the case a person builds to
the ERP write a proof authorises: the case file and its attachments, the review
run that a Manager starts, inspects, corrects and resumes, the transactions that
commit proof material, the Kernel that turns it into verdicts, the registered
reviews of actions, the report, and the write path that executes a proven
proposal once. TLC checks each part on small instances; TLAPS proves the main
safety properties of all ten passing runs for every value of their constants.
Paths below are relative to the repository's root.

    tlc -workers 2 -config review.cfg MCReviewBatch
    tlapm ChildRunProofs.tla

Every run is listed in `PROJECT.json` with its module, its configuration and
what it shows; every definition that models code is listed there with the
source lines it stands for, and every property with a mutant of the code that
breaks it. Definitions commented "mutant" or "slip" are those: no action uses
them.

## 1. The system

A Manager (the parent agent) works on a case: it reads attachments, proposes
evidence and starts reviews. A review of one proposal runs in a child: the tool
`evidence_reviewer` writes a run directory and starts
`EvidenceCompilerRuntime.run` in a worker thread, which compiles a proof plan (a
DAG of CHECKs), pauses, and on later calls executes the CHECKs, one by one or as
a batch. An Executor model writes evidence terms into a private sandbox, a
Verifier model assesses them, the Kernel replays the proof deterministically;
what passes is committed and a checkpoint saved. The Manager may recheck a
CHECK, which reopens it and everything downstream. The finished proof becomes a
consumer packet and a report; a registered review of actions authorises
`safe_write`.

| Component | Source | State it keeps | Operations | What is hard | What makes it correct |
|---|---|---|---|---|---|
| Child-run tools | `src/erp_agent_odoo/compiler_child/extension.py` | run directory: request, checkpoint, session store | start, resume, report, recheck | worker thread against cancelled call; crash between checkpoint and event; failing writes; replayed corrections | saved work closed, whole when completed, append-only; a blocked run stays blocked |
| Child event file | same | `events.jsonl`, the per-call counter and queue, the parent's cursor and session | append, publish, inspect, resume block | two writers; torn lines; loop against worker; window | ordered, append-only, nothing lost between worker, file, session and parent |
| Run loop, revisions | `backend/app/compiler_runtime/runtime.py` | `latest_checkpoint`, remaining CHECKs | compile, admit, choose, commit, roll back, finish, revise | partial commits over several revisions; pauses raised out of progress events | lineage of a resume holds; a revision's work is not lost |
| CHECK transaction | same | attempts, budget, conversation, candidate, feedback | Executor, Verifier, Kernel replay, rollback | sandboxes shared by reference; repair by either side; limits | only what was judged is committed; it ends |
| Batch transaction, evidence sandbox | same, `sandbox.py` | the candidate sandbox, the committed artifact | reads, claims, calculations, submissions; hook, Verifier, replay, closure, second replay | submissions replaced after they were used; partial commits; a proof compiled again after part is dropped | what is committed replays, and rests on what its owners still submit |
| Proof Kernel | `kernel.py`, `graph_walk.py`, `signatures.py` | none | conformance of plans, CHECK compilation, aggregation, decisions | shared nodes, open CHECKs, facets with alternative paths | verdicts are what no open CHECK can change; no facet is bypassed |
| Artifact consumer | `consumer.py` | none | packet, render, finalize | drafts of an earlier proof; a case whose requirements changed | a report says only what is settled now |
| Registered reviews | `src/erp_agent_odoo/capabilities/`, strict lane of `runtime.py` and `sandbox.py` | a compiled program, receipts, actions done | admit reads, seal, run, submit, classify, replay; route, expand, lower to a stage | tool calls in any order; records changing between reads; receipts of failed actions | what is closed is true of the sealed records; nothing is reviewed before its time |
| Safe write | `src/erp_agent_odoo/capabilities/safe_write.py`, `freshness.py` | the SQLite table of attempts, answer files, the ERP | execute a proposal once, recover | racing callers; crash between row, call and answer; late effects | at most once, in order, receipts earned |
| Case store, attachment manifest | `backend/app/state/`, `backend/app/domain/` | `case_state.json`, the manifest, originals and dossiers | load, read, patch, review patch, refresh | two files replaced one after the other; reads without a lock; corrections in any order | a ready case rests on what is there; a quarantine holds |
| Harness, checkpoint store, Manager's tools | `backend/app/harness.py`, `backend/app/runtime/checkpoints.py`, `backend/app/tools/capabilities.py` | run state, two event files, one file per revision | record, append, save, resume, inspect, recheck, cancel | a counter in memory against two files; latest by number and by time | ids unique, calls logged, pages lossless, corrections kept |
| Models, document extraction, tracing, configuration | `backend/app/llm.py`, `backend/app/tools/`, `backend/app/observability/`, ... | none of interest | calls out | - | - |

Interactions: the Manager calls the tools one at a time; a tool call and its
worker share the checkpoint file, the event file and an event-loop queue; the
runtime calls back into the tools through `checkpoint_sink` and `progress_sink`
and is paused by an exception out of the latter; Executor, Verifier and Kernel
share the candidate sandbox by reference; a review is prepared against a snapshot
of the case and handed back to the case store as an artifact; the callers of
`safe_write` share only the database and the ERP.

## 2. The modules

| Module | Models | Composed or used by |
|---|---|---|
| `ChildRun` | the child-run tools around the run loop, batches and revisions | `MCChildRun`, `ChildRunProofs` |
| `EventLog` | the event file with its writers and readers | `MCEventLog`, `EventLogProofs` |
| `CheckFrontier` | the transaction around one CHECK | `MCCheckFrontier`, `EvidenceProofs` |
| `EvidenceGate` | the Kernel's gate for one CHECK of an evidence review | `ReviewBatch` |
| `ReviewBatch` | the batch transaction over the evidence sandbox, revision by revision | `MCReviewBatch`, `ReviewBatchProofs` |
| `CommitLedger` | what the batch transaction promises, abstractly | `ReviewBatch` (refinement) |
| `ProofTree` | plan conformance, aggregation, decisions, obligations | `ConsumerReport` |
| `ConsumerReport` | packet, rendering and acceptance of reports | `MCProofTree`, `OutcomeProofs` |
| `AttachmentManifest` | the manifest's operations | `CaseFile` |
| `CaseFile` | the case, its manifest, originals, dossiers and reviews | `MCCaseFile`, `EvidenceProofs` |
| `RunTrace` | the harness: events, numbering, trace, save and resume | `RevisionStore` |
| `RevisionStore` | revisions of a child and the Manager's tools on them | `MCRevisionStore`, `RevisionStoreProofs` |
| `ERPResolvers` | the registered checks of a supply cancellation, and admission of reads | `StrictLane` |
| `StrictLane` | the strict lane of a registered review | `MCRegistered`, `RegisteredProofs` |
| `ProofDag` | routing, expansion and stages of registered actions, receipts | `MCRegistered`, `RegisteredProofs` |
| `SafeWrite` | `execute_proposal_once` with its store and the ERP | `MCSafeWrite`, `OutcomeProofs` |
| `ActionLedger` | what `SafeWrite` promises, abstractly | `SafeWrite` (refinement) |
| `ClosureLemmas` | nothing of the code: reachability, least sets, last elements and loops over a list, for the proofs | the proof modules |

### ChildRun

State: `ckpt` is `checkpoint.json`; `requested` and `tail` are the other facts
read back from the run directory (request written, whether the last event is a
retry-exhausted pause); `tool` is the tool slot of the parent; `pc`, `latest`,
`todo`, `after`, `outcome` are a worker thread inside `runtime.run`.
`checkpoint_sink` is two steps, `WriteCheckpoint` and `RecordCheckpoint`, because
a crash or another thread may come between; a recheck is three (`BeginRecheck`,
`WriteRevision`, `RecordRevision`) for the same reason. `AdmitCheckpoint`
contains the lineage checks of a resume that a saved checkpoint can fail.
`ChooseFrontier`, `StartExecutor` and one of `CommitFrontier`, `RollBackCheck`,
`PauseFrontier`, `FailFrontier` are one turn of the frontier loop; `Registered`
chooses between the batch and the CHECK by CHECK path, as `_registered_batch`
does. What a frontier decides is nondeterministic here and is the subject of
`CheckFrontier` and `ReviewBatch`. `completed_check_ids` is a sequence of groups
because plan order within one commit is given by the code and order between
commits is what can go wrong.

Faults: `crash` (the process dies; only the run directory survives), `store` (a
write raises; a failed event of `_progress` is swallowed, a failed checkpoint is
not), `abandon` (the awaiting call is cancelled, the thread of
`asyncio.to_thread` is not).

Abstracted: the text of corrections, proof terms, hashes of sources, plan and
proposal, cancelled and superseded statuses.

### EventLog

State: the lines of the file and how the last one ends; per call the worker's
state, its `next_seq` and the events its call has still to publish; the number a
recheck has taken; the parent's session, its cursor and the lines it has been
shown. A line is a number and a kind; a line `json.loads` refuses is "torn".
`Emit` is `queue_event`: the number, the append and the hand-over to the event
loop. `Publish` and `Return` are the loop that publishes until the worker is
done and the queue empty. `Begin` is guarded by `Blocked`, the code's
`_resume_block`. A recheck takes its number in one step and appends in another.
Faults: `crash`, `tear` (a write leaves half a line or nothing), `separator`
(an event text holds U+2028, U+2029 or U+0085, at which `str.splitlines` breaks
a line that JSON leaves whole), `abandon`.

`LooseLines` is a bound of the exploration, not of the file: once a worker is
loose (its call abandoned) only short files are explored further, because no
property but `PublishedAll` speaks of that part.

Abstracted: what an event says; that a completed or cancelled run is refused for
that reason too (so more calls begin here than in the code). A write that stops
exactly before its line feed is not explored; its line would still be readable
until the next one is glued to it.

### CheckFrontier

State: the attempt, who repairs next, whether there is feedback, the calls left,
and a heap of two sandboxes (the committed one and the conversation's copy) to
which the conversation and the candidate refer, because the code passes them by
reference and the properties are about sharing. A sandbox is a version and a
number of submissions. `ExecutorReturns`, `ExecutorFails` and
`ExecutorLeavesScope` are the outcomes of `execute_plan`; `VerifierAssesses`,
`VerifierRejects` and `VerifierFails` those of `verify`; `Replay` applies
`_frontier_kernel_failures` to any combination of the diagnostics. A call of
`_run_phase` charges the budget once, before its transport attempts.

### EvidenceGate, ReviewBatch and CommitLedger

`ReviewBatch` is `_run_registered_batch_frontier` with the sandbox it works on.
State: `base`, the committed artifact; `box`, the candidate sandbox restored from
it; `focus`, the CHECKs of the batch; the revision and how the last batch ended.
The Executor's tools are actions (`BindClaim`, `BindRecordFieldClaim`,
`ComputeWitness`, `SubmitCheck`), each with the admission the sandbox applies,
upstream admission of other CHECKs' calculations included; `NotSubmitted` is the
completion hook's refusal and `Abort` any other failure; `Judge` is the
Verifier, which may return any of the assessments the constants offer, with the
Kernel's replay, the ready closure and the second compilation that follow it. `EvidenceGate` is the Kernel's side of it: which submitted terms an
accepted Binding reaches, who owns them, what the frozen sources show.
`CommitLedger` says what that amounts to: verdicts are added by closed batches,
never rewritten by a later one, and a recheck opens all that rests on it.

The sandbox is private to a batch: files, pauses and crashes are `ChildRun`'s.
Abstracted: how a quote is compared with a page, decimals, policies and joins
(of which the CHECKs of an evidence review declare none).

### ProofTree and ConsumerReport

A plan of the constant `PlanSpace` that `Conforms` accepts is chosen at the start;
CHECKs are then concluded and reopened in any order and the artifact's seal is
broken and renewed. `Results`, `Decision` and `Obligations` are the Kernel's fold
over the plan. `ConsumerReport` adds the end of the run, the requirements the
case has now, the packet derived from all that, the report rendered from the
packet and the acceptance of a report. A report is a record of what its tables
and its summary state; wording is left out.

### CaseFile and AttachmentManifest

State: the bytes of each original (as a version), its dossier, the manifest, the
case, a read in progress, a review in progress. An attachment is read in the four
steps of the code, without a lock; a load refreshes the case against manifest and
disk; a patch loads, changes, refreshes and saves; a review patch comes back with
an artifact made against an older snapshot. The manifest is written before the
case, and a crash may come between. The requirement tables (`Owner`, `Premises`,
`Groups`, `Default`, `Dynamic`, ...) are constants given by the MC module.

### RunTrace and RevisionStore

`RunTrace` has one step for each append to each of the two event files: an
operation queues its events, and the process may stop between any two. `mem` is
the run state in memory, `saved` the run checkpoint, `Reconciled` the numbering a
resume computes from the files. `RevisionStore` adds the child's revision files
and the tools `inspect`, `recheck` and `cancel`. The child itself is external
there: it saves under the revision it started with. The documents speak of one active
run of a case, but neither `recheck` nor `cancel` looks whether the child runs, so
both may come while it does.

### ERPResolvers, StrictLane and ProofDag

`StrictLane`: Odoo's order and bills change by themselves (`OdooChanges`); they
are read one after the other and admitted (`ReadOrder`, `AdmitReads`); the
proposal names the revision it was made against (`Propose`); `Seal` freezes the
last admitted read into the contracts; `Preflight` compiles the program; the
Executor's calls are `RunRegisteredCheck` and `SubmitCheck` with any arguments,
answered by the program's phase; `VerifyAndCompile` lets the Verifier say
anything of each CHECK and the Kernel replay it; `Resume` compares the sources.
`ERPResolvers` holds the checks and the admission as pure operators, for any set
of targets; a behaviour of `StrictLane` has one target and one purchase order
that is read live, the code any number of each.

`ProofDag`: a proposal is a sequence of lines; the catalogue gives each action
template its shared nodes, its predecessors by stage and their postconditions.
`Expands` is what `compile_task_compiler_plan` accepts of a route, `Routings` the
answers it accepts, which may leave inputs of the Manager unresolved; `Lowers` says when
`lower_erp_stage_to_proof_plan` refuses one (proof_dag.py:537 refuses those inputs),
`PlanOf` what it makes of the stage behind the actions done. The host acts (`Perform`), in whole or in
part, with truthful receipts; a review admits any consistent subset of them.

### SafeWrite and ActionLedger

State: the rows of the table (status and the answer recorded), the ERP's records
as two facts each (changed since the proposal, in the state asked for), calls in
flight, and each caller's own position and copies. Every await and every
database statement is a step: the rows are read once by a caller and judged many
steps later. The ERP may apply a call late, never, or although it answered with
an error, and anybody may edit a record. `ActionLedger` is the promise: record
before calling, call at most once, in order, issue when all is established;
`SafeWrite` is shown to implement it under the mapping at its end.

## 3. The runs

| Run | Instance | Question |
|---|---|---|
| `child` | a plan of 3 CHECKs, one depending on another, CHECK by CHECK; 2 corrections; 3 revisions; crash, store; fairness | Does a recorded retry-exhausted pause stop everything, does the saved checkpoint only move forward, does every worker end, even when the pausing event cannot be written? |
| `child_chain` | 2 CHECKs in a chain, in batches; 2 threads; store, abandon | Is what an orphaned thread, a second worker and a recheck save closed, and resumable when order is forced? |
| `log` | 2 calls, 4 lines, all four faults | Publication, order, inspection, unblocking |
| `frontier_check` | cap 3, budget 5; fairness | Only what was judged as it stands is committed, and it ends |
| `review` | 2 CHECKs, 3 calculations, 3 revisions, 3 submissions a batch | What is committed replays, is owned, leaves no calculation out, and follows the ledger |
| `kernel_tree` | 4 CHECKs under 2 inner nodes, 2 requirements, the plans of `MCPlanSpace` | Verdicts are forced, facets not bypassed, reports earned, drafts refused when stale |
| `case` | 2 originals of one file name, one of them a plain text; 4 pieces of evidence; 5 operations; crash | A ready case is current, a refresh settles, corrections replace, quarantine holds, a document found out of place counts for nothing |
| `store` | 2 runs, 1 child of 2 CHECKs, 5 operations, pages of one event | Ids unique, calls logged, pages lossless, corrections stand but for a race |
| `registered` | strict lane: 3 scenarios, 4 proposals, one change of Odoo, 2 Executor runs; stages: 3 proposals that are admitted and routed, 2 that are not, 5 receipts | The program is followed, verdicts are true, stages are in order and go on, unless inputs are left unresolved |
| `safe_race` | 2 callers, 2 actions; crash, store | At most once, receipts earned, refinement |
| `child_plan_order` | the fork in batches, no fault | expects a violation, see below |
| `review_gap` | as `review` | expects a violation, see below |

Bounds. Three CHECKs, one of them independent, are the smallest plan in which a
batch can commit a CHECK of a later position before one of an earlier and in
which a recheck invalidates some but not all; two revisions past the first let a
recheck follow a partial commit and be followed by another. Two threads are an
orphan and its successor. CHECK by CHECK is the longer loop, so `WorkEnds` is
checked there: a batch takes one turn of it. In the event file, two calls with a
recheck between them and four lines contain every pair of writers and a pause
followed by each kind of event; `LooseLines` = 2 lets a loose worker write beside
a recheck. `Window` = 2, where the code has twelve, so that the window
of an inspection cuts events off. The code's cap of 2 and budget of 4 never exhaust the budget
(`TwoCallsSuffice` proves it), so `frontier_check` gives one attempt more and one
call fewer than three attempts need: it contains the code's two attempts, a
third, and the rollback for an empty budget. Strict resolver CHECKs (`Strict`),
for which feedback is fatal, are covered by the theorems, which hold for both
values.

In `review` the second CHECK consumes a calculation of the first, which is the
smallest instance in which a submission can be replaced after its terms were
used; `MaxNew` = 3 lets one CHECK be submitted twice in a batch and
`MaxRevision` = 3 lets a partial commit be followed by a recheck and another
batch. `MCPlanSpace` varies inner kinds, shared and nested nodes, declared facet
paths and policies; every plan in it that the gate accepts is an initial state.
In `case`, `MaxVersion` = 2 rewrites an original once and `MaxItems` = 2 is an
item and its correction. In `store`, a page of one event is the size at which
every event is a page boundary; `Inspect` costs no operation, so within five
operations three pages are read with appends between them, and the child and the
Manager race in both ways in which a correction can be lost. In `registered`, the
two lanes share no state; `lane` selects one per behaviour, and the state of the other is frozen.
`MaxChanges` = 1 puts a change of Odoo between the two reads, between the read
and the seal, or after it; `MaxRuns` = 2 is a run and its resume; five receipts
let an action of two records fail, succeed in part and be finished. Two callers
and two actions are the smallest instance of `safe_race` with a race and an
order.

The deadlock check is off where the system really stops: a completed run, a
closed call, a transaction that ended, an action blocked after a crash, bounds
used up. It is on in `kernel_tree`, where a CHECK can always be reopened.

Fairness. `ChildRun` assumes weak fairness of each worker thread: the thread is
scheduled and the model calls of a frontier return (`_run_phase` has its own
time limits). Nothing is assumed of the parent, of rechecks or of faults; the
only step of the parent's side that is fair is the tool call noticing that its
worker has ended, which the awaiting loop polls. `CheckFrontier` assumes the same
of the loop and its calls, not of a pause. No other run needs fairness.

### Where code and documents disagree

Two runs check a statement of the repository and TLC finds a behaviour of the
code that breaks it; `PROJECT.json` quotes the statement.

- `child_plan_order`: `completed_check_ids` grows in commit order and is compared
  with plan order; after a partial batch a sound checkpoint cannot be resumed
  ("the latest checkpoint remains resumable").
- `review_gap`: the Executor is told to submit a CHECK it has no evidence for
  with a note only; the completion hook takes that for no submission, and the
  whole batch is rolled back.

Others can be seen by giving a run one more fault or property:

- with `abandon` in the Faults of `child`, `AppendOnly` fails: a worker that
  outlives its cancelled call (extension.py:578) overwrites a revision saved by a
  recheck ("append-only checkpoints");
- an inspection shows the last events of the window and moves the cursor past
  those the window cut off (extension.py:659), so that no later one shows them.
  `InspectSeesNewest` says what remains true: the newest events are shown, each
  once;
- an event text with a Unicode line separator cannot be read back, and its number
  is given out again (extension.py:370, 394). The properties of `log` hold in
  spite of it, because they speak of what can be read;
- `CaseFile!RefusedChangesNothing` fails: a review patch that is refused has
  already refreshed and saved the case ("Atomically persist", case_store.py:165
  against 209);
- an accepted correction can be lost when the Manager corrects a child that still runs,
  or one whose thread outlives its cancelled call: the tools read the file written last,
  the child resumes from the highest number (checkpoints.py:85, 113) and writes under the
  number it started with. `CorrectionsStand` says which steps can lose one;
- `ConsumerReport!PartialSummaryIsPartial` fails: the summary of a partial report
  calls the requirements supported while a root is open (consumer.py:757 against
  547).

A property that passes holds there because the fault that breaks it is left out
of that run's `Faults`, and the theorem about it names the same condition.
`AppendOnly` and `ExhaustedStops` need that no call is abandoned, `FileOrdered` and `OnlyRevisionUnblocks` that none has been yet;
`CompletedClosed` needs, CHECK by CHECK, that a rolled-back CHECK's event can be
stored, because the loop does not look at upstreams again. A correction id that
is delivered twice appends a second `checkpoint_revised` and so lifts a later
pause without a new revision: `OnlyRevisionUnblocks` speaks of the event, not of
the checkpoint.

Behaviours of the code met while modelling, which the models keep and no document
forbids: a torn line swallows the next one; a final answer may be written twice
after a crash; an earlier correction resent after a later one (A, B, A) returns
the earlier receipt without becoming active; an evidence item that only names a
file may be bound to another original of that name (attachment_manifest.py:438);
AP evidence makes the invoice fields optional for good (case_store.py:1157); a
chain of corrections A, B, C counts A again (case_store.py:633), because a
correction that is itself marked superseded corrects nothing any more:
`CorrectionReplaces` speaks of what still is a correction; where one of two
corrections of a document is itself corrected, marking it settles which of the
two stands, but the document is marked only by the next load, so that refreshing
once is not enough: `RefreshIsStable` assumes `SimpleCorrections` (no document
has two corrections, or no correction is corrected), which `MCCaseFile` asserts of
the evidence of the run;
the freshness of a production order is judged on the frozen scenario, never read
from Odoo; a resumed `safe_write` skips the freshness of its snapshot
(safe_write.py:166), which its other checks make up for in the model.

## 4. The proofs

All theorems hold for every plan, every number of threads, callers, actions,
runs and calls, every scenario, program and catalogue, every cap and bound that
satisfies the modules' named assumptions:

| Assumption | What it says, and why the code justifies it |
|---|---|
| `PlanAssumption` (`ChildRun`) | plan positions are distinct and upstreams come first: the plan is in topological order |
| `GateAssumption` (`EvidenceGate`) | finitely many CHECKs and calculations; a calculation refers to claims and calculations; upstreams are CHECKs |
| `ReviewAssumption` (`ReviewBatch`) | a Verifier's assessment is one of three statuses |
| `NodesAssumption` (`ProofTree`) | a plan has finitely many nodes, each either a CHECK or inner; roots are nodes |
| `OneOrder`, `ProgramAssumption` (`StrictLane`) | one purchase order is followed; the checks of a program are distinct (`ProofPlan`) |
| `CatalogAssumption` (`ProofDag`) | the catalogue names existing shared nodes; proposals are finite |
| `HarnessAssumption`, `StoreAssumption` | types of what the harness and the Manager's tools are given; a page has a length; a correction's id is not empty (`min_length=1`) |
| `ManifestAssumption` (`AttachmentManifest`) | finitely many originals; the reader's statuses are the four it can return |
| `PackAssumption` (`CaseFile`) | the premises of a conclusion and what evidence may bring along are evidence, as the pack's loader demands; only a reviewer's conclusion has premises and conclusions are required by default, as in the policies in use |
| `OfferAssumption` (`CaseFile`) | evidence is of the shape the case store admits; the reader gives every version of an original a status |
| the others | typing of constants and the kinds of faults |

Hypotheses stated in a theorem itself, rather than on a constant, are named where
it is discussed: `PlanIsForced`, `PostsAreOffered`, `ReadsAreOffered`, `SimpleCorrections`
and the faults left out.

**ChildRunProofs.** `TypeCorrect` needs the strengthening `Typed` (a worker that
is idle holds nothing; a thread past admission holds a checkpoint).
`CommittedWorkIsClosed` rests on `ClosedInv`: the checkpoints in all four places,
the file, a recheck's draft, each worker's `latest`, are closed, and the loop
takes CHECKs in plan order so that whatever precedes the active CHECK has been
committed. The operator lemmas show that a ready closure is closed over what is
done and that removing a CHECK with its downstream keeps closedness. The theorem
assumes that plans run as batches or that events can be stored, for the reason
given above. `CompletedCoversPlan` rests on `SoundInv`. `CheckpointsAppendOnly`
follows from a relation, `Follows(new, old)`, between a worker's checkpoint and the
file. `ExhaustedPauseHolds` adds `StopInv`: a worker
runs only in a run that was requested and whose last event is no such pause; the
step that records the pause is the last of the only worker (`OneWriter`). Both
assume that no call is abandoned. `ForcedPlansResume` is the complement of
`child_plan_order`: under `PlanIsForced` (each CHECK rests, directly or not, on all
before it in the plan) a closed checkpoint is a prefix of the plan, so its groups are in plan
order and it can be resumed, with any of the faults.

**EventLogProofs.** `TypeCorrect`, and `ReadableIsKept` from the fact that every
step leaves the file or grows it by one line. `NumbersIncrease` and
`PauseHoldsUntilRevised` rest on `LogInv`: while every worker is attended there is
one writer at a time, what it has counted to is not below any number in the file,
the number a recheck has taken is above all of them, and a blocked run has no
writer. Both hold for every choice of faults, up to the first worker that
outlives its call: from then on there is a second writer with a counter of its
own. `AnsweredIsResumable` adds that "revision_ready" is followed by the event of
its revision (`ReadyInv`), `NewestAreShown` that whatever an inspection left out
stands behind a full window of newer events (`CursorInv`), and
`NothingIsLeftBehind` that what a call has appended is what it has published
followed by its queue (`QueueInv`): the last holds of every thread that still
belongs to a call, also when others have outlived theirs.

**EvidenceProofs** holds the theorems of two components that share no state, the
case file and the CHECK transaction. *The case*: the inductive invariant is
`CaseTypeOK`, which says more than types: ids of evidence are distinct (`EvOK`:
else what a refresh marks, trusts and counts could not be told apart by id), every
conclusion the case lists is required and has its premises listed (`ReqOK`: else
expanding the requirements once would not be enough), what is being read was
there to be read. Proving it preserved needs what each operation of the store
does to both parts, the list of updates and the list of evidence being taken one
element after the other (`UpdatedKeeps`, `AppendedKeeps`, `PatchKeeps`). Every
property of the case then follows from what a refresh is:

- *linking* lets each item in turn speak on its original's status. A status goes
  one way (`MergeTakesWorse`, `Level`), whatever the order of the items; an item
  that has spoken has been heard at the end (`LinkHears`), and when all have been
  heard once nothing is left to change (`LinkSettles`). Statuses do not decide
  which entry an item finds (`FindsAlike`);
- *requirements*: canonical form, premises and expansion have one fixed point that
  is reached in one round (`SettledIs`, `RequirementsSettle`);
- *marks*: a superseded item finds the same original as before
  (`PastFindsTheSame`) and only stops correcting others, so under
  `SimpleCorrections` marking twice is marking once (`MarksSettle`).

`RefreshIsStable` combines the three. `QuarantineLasts` needs that no operation
lowers a status or removes an entry; `ReadyStaysCurrent` that the fingerprints of
an artifact that fits belong to the items counted, one by one;
`CorrectionsReplace` that what is not superseded has none or several trusted
corrections (`CountedIs`); `ExcludedNeverCounts` that what a refresh counts was
trusted on the manifest as linked, after every item was heard: with trust taken
before linking it fails, which is its mutant.

*The CHECK transaction*: one invariant, `IInv`, for all six theorems: who refers
to which sandbox, that what is judged is private, new and not refused before,
that nothing is written between assessment and commit, that versions are given
out once, and that an attempt costs at most one call of each phase.

**ClosureLemmas.** The code walks its graphs until nothing new turns up; the
models walk as many steps as there are nodes. The lemmas say that such a walk
exists as a function, meets what there is to meet and nothing else, and that
numbers have least and greatest elements. For loops over a list they say that the
function counting the turns exists (`AccumulationExists`) and that what each turn
keeps holds at the end (`TurnByTurn`, `Accumulates`). Induction is always by the
least counterexample, because an induction theorem cannot be instantiated here.

**ReviewBatchProofs.** The hard part is that the Kernel compiles an artifact again
after part of it was dropped. The walk through calculations is replaced by the
least set it computes; a calculation rests on earlier ones, so the walk is
well-founded; and two artifacts that agree on a set of CHECKs closed under
upstreams give those CHECKs the same verdicts (`Carries`). The inductive
invariant says of `base` and `box` that ids are unique, that strong verdicts rest
on submissions still there, and that the committed set is closed under upstreams;
`AlwaysReplays`, `OwnersAlwaysStandBehind` and `EveryCalculationAlwaysCounts`
follow, and `BatchesImplementLedger` maps each step to a step of `CommitLedger` or
a stutter. Proving that ids are unique showed that the model had to refuse two
terms of one id inside a single submission, as the sandbox does
(sandbox.py:1062-1071); no candidate of the run submits such a pair.

**OutcomeProofs** holds the theorems of two components that share no state.
*The write*: `IInv` says who owns an attempt (the caller that inserted its row,
until it settles or leaves), that the number of calls follows the rows, on what
an established row rests, in which order rows are recorded, and in which ways a
caller's copy may be old (`Copies`): the last is what makes decisions from stale
reads harmless. `WritesImplementLedger` maps every step to a step of
`ActionLedger` or a stutter. *The report*: an accepted plan is finite and acyclic,
so what climbs from CHECKs to a node holds everywhere (`Grounded`).
`VerdictAlwaysForced` and `FacetsAreNeverBypassed` take the least fixed point of
what an aggregation makes hold and show that closing a further CHECK can only add
to it; `ReportsAreEarned`, `RenderedAlwaysAccepted` and `StaleDraftsAreRefused`
follow from the packet being a function of plan, verdicts, seal and requirements.

**RegisteredProofs.** In the strict lane, `IInv` says that the sealed snapshot was
admitted from some order and some bills, and that a verdict is the replay of its
check on the sealed snapshot (`Judged`), which no later step changes: the case is
fixed by the seal, and only `VerifyAndCompile` writes verdicts. `ClosedIsTrue`
then unfolds the replay on the one target, check by check (`ScopeSays`,
`ExactSays`, `FreshSays`). `FreshStaysCancellable` needs that a lineage
determines the order and the bills it was made of (`LineageDetermines`), since
records of the two kinds are never equal. `ExecutorFollowsProgram` rests on
`FollowInv`: what was submitted is the program up to where the Executor is, less
what was closed before. For the stages, `StageInv` says that a receipt is
truthful and that what a review takes for done has happened; `NothingOutOfTurn`
follows the predecessors of an action back through the catalogue.
`compile_registered_proof_dag` compares the postconditions a template demands
with the union of those its predecessors offer, not with those of each, so
`PostconditionsAlwaysGuard` needs `PostsAreOffered` (a template is asked only for
postconditions it observes itself), which the catalogue of the run satisfies;
`DemandsAreObserved` is what holds for any catalogue. `AcceptedGoesOn` shows that
of what was accepted only answers with unresolved inputs are refused later, and those
whatever is done: of the unfinished actions, one from which
most can be reached has no unfinished action before it, for otherwise more could be
reached from that one (`ActiveExists`); so the frontier of a DAG is not empty. That
every recipe then finds exactly one producer needs `ReadsAreOffered` (a template
checks something in each of its stages, and a recipe names checks that apply in the
same stage or shared nodes the stage requires), which nothing in the code asks of
the catalogue and the registered one satisfies.

**RevisionStoreProofs.** `TraceInv` says that no event on file has a number above
its run's, that the case's file holds only events of the runs' files (a crash
inside an append leaves the run's file one ahead), that each call a run counts
has its event on file or in the queue, and that the calls of a saved state are on
file already, which is why a resume may start counting from nothing. A resume
needs `LargestIs` (it continues after the largest number on disk). `IdsAreUnique`
and `EveryCallIsLogged` follow without further condition. `StandInv` is about the
revisions, whoever runs meanwhile: no two files of a child have one time (`Apart`); what
was answered was written (`Begun`); a child that runs above the highest revision is one
above it, holds its corrections, and nothing was written later (`Running`); and no
file is later than a highest revision that did not converge, nor does a child run at its
number (`Open`), which is what lets the next start raise it. `CorrectionsAreKept` follows
step by step (`Kept`): a step loses a correction only where the highest revision was not
the last written, or where an overtaken child writes its number. A cancellation appends an entry with an empty id, which
is why the theorem needs that no correction has one. `PageInv` is about the
Manager's pages: an event of the case is numbered by its line, and what the Manager
was shown is a listing of a child's lines from where it started to its cursor. A
page lists what is behind the cursor up to its last event (`PageIs`), so a page puts
one listing behind another (`ListedOn`); as a set of numbers has one listing
(`ListedOnce`), the Manager has seen what one reading of the file finds.
`NoEventIsSkipped` holds for every page size. The model reads the file line by line
(`LinesAt`) and not with `SelectSeq`, about which facts need an operator as
parameter.

Only model-checked: liveness (`WorkEnds`, `Terminates`), which the prover does
not handle under fairness. Every other property of a passing run is stated by a
theorem.

## 5. What is not modelled

- Model calls beyond their outcomes (return, refusal, failure, too many turns),
  prompts, tracing, configuration: they keep no state a property here is about.
- Document extraction, rendering of pages and tables: pure input and output. What
  a read leaves behind, the dossier and the screening of its text, is in
  `CaseFile`.
- How a quotation or a decimal is compared with its source, declared thresholds,
  policies and joins of witnesses, field formats, canonical JSON: contents are
  compared by identity.
- The wording of the report and the regular expressions that check it; amounts.
- The admission of sales orders and vendor bills: it has the shape of the
  purchase order's, and no resolver reads them.
- Hash lineage beyond sources and corrections, and plans compiled differently by
  two processes.
- The harness's budgets and the content of answers.

`PROJECT.json` lists the hazards no property covers, with the reason for each.

Next, most important first: a composition of `ChildRun` and `ReviewBatch`
in which the batch step of the former is the ledger step of the latter; of
`ChildRun` and `EventLog`, with the last line of the file computed and the model
log written in a finally clause; a resume under a plan whose order differs.
