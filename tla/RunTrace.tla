------------------------------ MODULE RunTrace ------------------------------
(***************************************************************************)
(* The harness of the Manager's runs (harness.py) and the files it leaves: *)
(* every run keeps its state in memory, appends each of its events to a    *)
(* file of the run and to a file of the case, writes a readable trace, and *)
(* may be saved and resumed from the saved state (runtime/checkpoints.py). *)
(* The events of an operation are queued in todo and appended one by one;  *)
(* the process may stop between two appends, and inside one, between the   *)
(* run's file and the case's.                                              *)
(***************************************************************************)
EXTENDS Naturals, FiniteSets, Sequences, SequencesExt

CONSTANTS Runs,        \* the runs of one case
          Calls,       \* model calls, each made once
          CallsOf,     \* [Runs -> the calls a run may make]
          RoleOf,      \* [Calls -> roles]
          Invalid,     \* the calls whose answer failed its schema first
          DecisionsOf, \* [Runs -> records [action, target]]
          Findings,    \* what a tool or role reports: [kind, name, error, child]
          MaxOps       \* how many operations are asked for in all

\* what the harness is given has the types of harness.py
ASSUME HarnessAssumption ==
  /\ MaxOps \in Nat
  /\ RoleOf \in [Calls -> STRING]
  /\ Findings \subseteq Seq([kind : STRING, name : STRING, error : BOOLEAN, child : STRING])

VARIABLES mem,       \* [Runs -> the HarnessRunState in memory, or Down]
          sdk,       \* [Runs -> the calls the running process made, in order]
          saved,     \* [Runs -> runtime_state.json, or Down]
          runfile,   \* [Runs -> traces/<run>/events.jsonl]
          casefile,  \* traces/events.jsonl of the case
          trace,     \* [Runs -> traces/<run>.json]
          todo,      \* [Runs -> what the operation under way still writes]
          left       \* operations still to be asked

traceVars == <<mem, sdk, saved, runfile, casefile, trace, todo>>

CompilerStages == {"task_compiler", "executor", "fine_verifier", "proof_kernel"}

None == [run |-> "", seq |-> 0]
Down == [up |-> FALSE, seq |-> 0, calls |-> <<>>, prefix |-> <<>>, counted |-> 0,
         observations |-> <<>>, planner |-> None, action |-> None, answered |-> FALSE,
         final |-> FALSE, pending |-> 0]
Fresh == [Down EXCEPT !.up = TRUE]

Event(kind, cause) == [kind |-> kind, call |-> "", child |-> "", stage |-> "", cause |-> cause]
EventId(r, seq) == [run |-> r, seq |-> seq]

(***************************************************************************)
(* Observations and the feedback of a step.                                *)
(***************************************************************************)
Observation(kind, name, error, risk, child) ==
  [kind |-> kind, name |-> name, error |-> error, risk |-> risk, status |-> "", child |-> child]

Observed(st, o) == [st EXCEPT !.observations = Append(@, o)]
ObservationEvent(st, o) == [Event("observation", st.action) EXCEPT !.child = o.child]

SinceFeedback(obs) ==
  SubSeq(obs, SelectLastInSeq(obs, LAMBDA o : o.kind = "feedback") + 1, Len(obs))

Expected(d) ==
  CASE d.action = "call_tool" -> <<"tool", d.target>>
    [] d.action = "delegate_agent" -> <<"role", d.target>>
    [] d.action = "write_case_patch" -> <<"tool", "write_case_patch">>
    [] OTHER -> <<"", "">>

Seen(obs, want) ==
  want[1] = "" \/ want[2] = "" \/ \E o \in ToSet(obs) : <<o.kind, o.name>> = want

Status(st, d, recent) ==
  IF \E o \in ToSet(recent) : o.error THEN "error"
  ELSE IF \/ \E o \in ToSet(recent) : o.risk
          \/ ~Seen(recent, Expected(d))
          \/ d.action = "final_answer" /\ ~st.answered
       THEN "warning" ELSE "ok"

StepFeedback(st, d) ==
  [Observation("feedback", "step_result", FALSE, FALSE, "")
     EXCEPT !.status = Status(st, d, SinceFeedback(st.observations))]

WorstStatus(obs) ==
  LET told == {o.status : o \in {x \in ToSet(obs) : x.kind = "feedback"}}
  IN  CASE "error" \in told -> "error"
        [] "error" \notin told /\ "warning" \in told -> "warning"
        [] OTHER -> IF told = {} THEN "" ELSE "ok"

(***************************************************************************)
(* The calls of the model: each call of this process gets one event, the   *)
(* ones before a resume are kept as a prefix.                              *)
(***************************************************************************)
CallEvents(st, call) ==
  <<[Event("model_call", st.action) EXCEPT !.call = call, !.stage = RoleOf[call]]>>
    \o (IF call \in Invalid THEN <<Event("observation", st.action)>> ELSE <<>>)

NewCalls(st, calls) == SubSeq(calls, st.counted + 1, Len(calls))

Recorded(r, st, calls) ==
  LET fresh == NewCalls(st, calls)
      retry == Observation("model", "schema_retry", FALSE, TRUE, "")
      refused == {i \in 1..Len(fresh) : fresh[i] \in Invalid}
      \* how many events go before the one of the last planner call
      planners == SelectLastInSeq(fresh, LAMBDA c : RoleOf[c] = "planner")
      before == planners + Cardinality({i \in refused : i < planners})
  IN  [st EXCEPT !.calls = st.prefix \o calls,
                 !.counted = Len(calls),
                 !.planner = IF planners = 0 THEN @ ELSE EventId(r, st.seq + before),
                 !.observations = @ \o [i \in 1..Cardinality(refused) |-> retry]]

RecordedEvents(st, calls) ==
  FlattenSeq([i \in 1..Len(NewCalls(st, calls)) |-> CallEvents(st, NewCalls(st, calls)[i])])

(***************************************************************************)
(* Resuming continues after the largest event on disk.                     *)
(***************************************************************************)
LargestOnDisk(r) ==
  LET seqs == {e.id.seq : e \in ToSet(runfile[r])} \cup {0}
  IN  CHOOSE n \in seqs : \A m \in seqs : m <= n

\* A slip, for mutation: the sequence goes on from the saved state
ReconciledSaved(r, st) == [st EXCEPT !.prefix = st.calls, !.counted = 0]
\* A slip, for mutation: the calls counted before the crash still count
ReconciledCounted(r, st) ==
  [st EXCEPT !.seq = IF LargestOnDisk(r) > @ THEN LargestOnDisk(r) ELSE @, !.prefix = st.calls]

Reconciled(r, st) ==
  [st EXCEPT !.seq = IF LargestOnDisk(r) > @ THEN LargestOnDisk(r) ELSE @,
             !.prefix = st.calls,
             !.counted = 0]

-----------------------------------------------------------------------------
Init ==
  /\ mem = [r \in Runs |-> Down]
  /\ sdk = [r \in Runs |-> <<>>]
  /\ saved = [r \in Runs |-> Down]
  /\ runfile = [r \in Runs |-> <<>>]
  /\ casefile = <<>>
  /\ trace = [r \in Runs |-> [calls |-> <<>>, observations |-> <<>>, worst |-> ""]]
  /\ todo = [r \in Runs |-> <<>>]
  /\ left = MaxOps

Asked == left > 0 /\ left' = left - 1
Ready(r) == mem[r].up /\ todo[r] = <<>>
Does(r, st, events) ==
  /\ mem' = [mem EXCEPT ![r] = st]
  /\ todo' = [todo EXCEPT ![r] = events]

BeginRun(r) ==
  /\ ~mem[r].up /\ runfile[r] = <<>> /\ ~saved[r].up
  /\ Does(r, Fresh, <<>>)
  /\ UNCHANGED <<sdk, saved, runfile, casefile, trace, left>>

\* The host runs the model; the calls it made are recorded at its next step.
CallModel(r, call) ==
  /\ Asked /\ Ready(r) /\ ~mem[r].final /\ call \in CallsOf[r]
  /\ call \notin ToSet(sdk[r]) \cup ToSet(mem[r].calls)
  /\ \A e \in ToSet(runfile[r]) : e.call # call
  /\ sdk' = [sdk EXCEPT ![r] = Append(@, call)]
  /\ UNCHANGED <<mem, saved, runfile, casefile, trace, todo>>

RecordModelCalls(r) ==
  /\ Ready(r) /\ (Len(sdk[r]) # mem[r].counted \/ mem[r].prefix \o sdk[r] # mem[r].calls)
  /\ Does(r, Recorded(r, mem[r], sdk[r]), RecordedEvents(mem[r], sdk[r]))
  /\ UNCHANGED <<sdk, saved, runfile, casefile, trace, left>>

\* A decision, the work it asks for and the feedback on it, up to the trace.
Decide(r, d, findings) ==
  LET st == mem[r]
      decided == [st EXCEPT !.action = EventId(r, st.seq + 1)]
      reported == [i \in 1..Len(findings) |-> Observation(findings[i].kind, findings[i].name,
                                                findings[i].error, FALSE, findings[i].child)]
      answer == [decided EXCEPT !.observations = @ \o reported,
                                !.answered = @ \/ d.action = "final_answer"]
      work == [i \in 1..Len(findings) |->
                 <<Event(findings[i].kind, decided.action),
                   ObservationEvent(decided, findings[i])>>]
      feedback == StepFeedback(answer, d)
  IN  /\ Asked /\ Ready(r) /\ ~st.final /\ Len(sdk[r]) = st.counted
      /\ Does(r, Observed(answer, feedback),
              <<Event("supervisor_decision", st.planner)>> \o FlattenSeq(work)
                \o <<ObservationEvent(decided, feedback), Event("checkpoint", decided.action),
                     Event("write_trace", None)>>)
      /\ UNCHANGED <<sdk, saved, runfile, casefile, trace>>

Finalize(r) ==
  /\ Asked /\ Ready(r) /\ ~mem[r].final
  /\ Does(r, [mem[r] EXCEPT !.final = TRUE],
          <<Event("final_answer", mem[r].action), Event("write_trace", None)>>)
  /\ UNCHANGED <<sdk, saved, runfile, casefile, trace>>

-----------------------------------------------------------------------------
CaseSeq == Len(casefile) + 1
Numbered(r, e) ==
  [id |-> EventId(r, mem[r].seq + 1), case |-> CaseSeq, kind |-> e.kind, call |-> e.call,
   child |-> e.child, stage |-> e.stage, cause |-> e.cause]

AppendEvent(r) ==
  LET e == Numbered(r, Head(todo[r])) IN
  /\ mem[r].up /\ todo[r] # <<>> /\ Head(todo[r]).kind # "write_trace"
  /\ mem' = [mem EXCEPT ![r].seq = @ + 1]
  /\ runfile' = [runfile EXCEPT ![r] = Append(@, e)]
  /\ casefile' = Append(casefile, e)
  /\ todo' = [todo EXCEPT ![r] = Tail(@)]
  /\ UNCHANGED <<sdk, saved, trace, left>>

WriteTrace(r) ==
  /\ mem[r].up /\ todo[r] # <<>> /\ Head(todo[r]).kind = "write_trace"
  /\ trace' = [trace EXCEPT ![r] = [calls |-> mem[r].calls, observations |-> mem[r].observations,
                                    worst |-> WorstStatus(mem[r].observations)]]
  /\ todo' = [todo EXCEPT ![r] = Tail(@)]
  /\ UNCHANGED <<mem, sdk, saved, runfile, casefile, left>>

Save(r) ==
  /\ Asked /\ Ready(r) /\ Len(sdk[r]) = mem[r].counted /\ saved[r] # mem[r]
  /\ saved' = [saved EXCEPT ![r] = mem[r]]
  /\ UNCHANGED <<mem, sdk, runfile, casefile, trace, todo>>

Clear(r) ==
  /\ Asked /\ Ready(r) /\ mem[r].final /\ saved[r].up
  /\ saved' = [saved EXCEPT ![r] = Down]
  /\ UNCHANGED <<mem, sdk, runfile, casefile, trace, todo>>

Resume(r) ==
  /\ Asked /\ ~mem[r].up /\ saved[r].up
  /\ Does(r, Reconciled(r, saved[r]), <<>>)
  /\ UNCHANGED <<sdk, saved, runfile, casefile, trace>>

\* the process stops; of the event being appended, the run's file may have its line already
Stop(torn) ==
  /\ Asked /\ \E r \in Runs : mem[r].up
  /\ torn \subseteq {r \in Runs : mem[r].up /\ todo[r] # <<>>
                                    /\ Head(todo[r]).kind # "write_trace"}
  /\ Cardinality(torn) <= 1
  /\ runfile' = [r \in Runs |-> IF r \in torn THEN Append(runfile[r], Numbered(r, Head(todo[r])))
                                              ELSE runfile[r]]
  /\ mem' = [r \in Runs |-> Down]
  /\ sdk' = [r \in Runs |-> <<>>]
  /\ todo' = [r \in Runs |-> <<>>]
  /\ UNCHANGED <<saved, casefile, trace>>

-----------------------------------------------------------------------------
\* No two events of a run carry the same id, in its own file or in the case's, however
\* often the run is resumed from an older state: append_debug_event and
\* reconcile_debug_sequence.
EventIdsUnique ==
  /\ \A r \in Runs : \A i, j \in DOMAIN runfile[r] :
       runfile[r][i].id = runfile[r][j].id => i = j
  /\ \A i, j \in DOMAIN casefile : casefile[i].id = casefile[j].id => i = j
  /\ \A i \in DOMAIN casefile : casefile[i] \in ToSet(runfile[casefile[i].id.run])

\* Every model call a run accounts for has its event in the run's file once its queue is
\* written, the calls before a resume and those after it: record_model_calls.
CallsLogged ==
  \A r \in Runs : Ready(r) =>
    \A c \in ToSet(mem[r].calls) : \E e \in ToSet(runfile[r]) : e.call = c
=============================================================================
