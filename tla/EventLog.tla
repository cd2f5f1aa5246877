------------------------------ MODULE EventLog ------------------------------
(***************************************************************************)
(* events.jsonl, the event file of one compiler run, and everybody who     *)
(* reads or writes it in compiler_child/extension.py: the worker threads   *)
(* that number and append events, the tool call that publishes them to the *)
(* parent's session while its worker runs, recheck_evidence_review, which  *)
(* appends checkpoint_revised, inspect_evidence_review, which shows a      *)
(* window of the events past the parent's cursor, and _resume_block, which *)
(* decides from the last event whether the run may be resumed.  What the   *)
(* worker computes, and the checkpoint, are the matter of ChildRun.        *)
(***************************************************************************)
EXTENDS Naturals, Sequences, FiniteSets, FiniteSetsExt

CONSTANTS
    Call,       \* the calls of evidence_reviewer that start a worker
    Window,     \* events[-12:]
    MaxLines,   \* bound on the lines of the file and on event_seq
    Faults      \* what may go wrong, of FaultKind

FaultKind == {"crash",      \* the process dies, perhaps in the middle of a line
              "tear",       \* a write fails and leaves nothing or half a line
              "separator",  \* an event text holds U+2028, U+2029 or U+0085
              "abandon"}    \* a call is cancelled and its worker lives on

ASSUME LogAssumption ==
    /\ IsFiniteSet(Call)
    /\ Window \in Nat \ {0}
    /\ MaxLines \in Nat
    /\ Faults \subseteq FaultKind

NoCall == "none"
ASSUME NoCallAssumption == NoCall \notin Call /\ "parent" \notin Call

VARIABLES
    file,       \* the lines of events.jsonl
    tail,       \* how its last line ends: "ended" or "torn"
    thread,     \* what the worker of a call does
    next,       \* next_seq of a call
    queue,      \* the events its tool call has still to publish
    call,       \* the call that is awaited, if any
    revising,   \* the number a recheck has taken for its event, or 0
    ready,      \* the last answer to a recheck, "revision_ready", still stands
    wrote,      \* history: the numbers a call appended
    session,    \* the entries published to the parent's session, by who sent them
    cursor,     \* next_event_seq as the parent knows it
    seen        \* the lines inspect_evidence_review has shown

workers == <<thread, next, queue, wrote>>
parent == <<cursor, seen>>
vars == <<file, tail, workers, call, revising, ready, session, parent>>

Number == 0 .. MaxLines

\* "paused" is a child_paused for a rolled-back CHECK, the only event that
\* blocks the run; "torn" is a line json.loads refuses.
Kind == {"other", "paused", "revised", "torn"}
Line == [seq : Number, kind : Kind]
Torn == [seq |-> 0, kind |-> "torn"]
\* A worker is "loose" when its call was cancelled, and "lost" once it is over.
Thread == {"idle", "running", "returned", "rolled_back", "failed", "reported",
           "closed", "gone", "loose", "lost"}

TypeOK ==
    /\ file \in Seq(Line)
    /\ tail \in {"ended", "torn"}
    /\ thread \in [Call -> Thread]
    /\ next \in [Call -> Number]
    /\ queue \in [Call -> Seq(Number)]
    /\ call \in Call \cup {NoCall}
    /\ revising \in Number
    /\ ready \in BOOLEAN
    /\ wrote \in [Call -> Seq(Number)]
    /\ session \in [Call \cup {"parent"} -> Seq(Number)]
    /\ cursor \in Number
    /\ seen \subseteq DOMAIN file

-----------------------------------------------------------------------------
(* The file                                                                *)

Decodable(i) == file[i].kind # "torn"

\* Mutant of LastSeq: the lines are counted.
LastSeqCounted == Cardinality({i \in DOMAIN file : Decodable(i)})

\* _last_event_seq: the largest number in the file, in whatever order.
LastSeq == Max({0} \cup {file[i].seq : i \in DOMAIN file})

\* Mutant of Blocked: events after the pause do not lift it.
BlockedForGood == \E i \in DOMAIN file : file[i].kind = "paused"

\* _resume_block: the last line that can be read is such a pause.
Blocked ==
    \E i \in DOMAIN file :
        /\ file[i].kind = "paused"
        /\ \A j \in DOMAIN file : j > i => ~Decodable(j)

\* Mutant of AddLine: the file is opened for writing.
AddLineAnew(e, readable) ==
    /\ file' = <<IF readable THEN e ELSE Torn>>
    /\ tail' = "ended"

\* _append_event: a whole line.  Behind half a line it is lost with it, and
\* str.splitlines breaks a line whose text is not escaped.
AddLine(e, readable) ==
    /\ file' = CASE tail = "torn" -> file
                 [] tail = "ended" /\ readable -> Append(file, e)
                 [] OTHER -> Append(file, Torn)
    /\ tail' = "ended"

\* A write that stops half-way, or before it begins.
AddHalfLine ==
    \/ /\ file' = IF tail = "torn" THEN file ELSE Append(file, Torn)
       /\ tail' = "torn"
    \/ UNCHANGED <<file, tail>>

Room == Len(file) < MaxLines

-----------------------------------------------------------------------------
Init ==
    /\ file = <<>> /\ tail = "ended"
    /\ thread = [c \in Call |-> "idle"]
    /\ next = [c \in Call |-> 0]
    /\ queue = [c \in Call |-> <<>>]
    /\ call = NoCall
    /\ revising = 0
    /\ ready = FALSE
    /\ wrote = [c \in Call |-> <<>>]
    /\ session = [s \in Call \cup {"parent"} |-> <<>>]
    /\ cursor = 0 /\ seen = {}

\* The parent's tools run one after the other.
Quiet == call = NoCall /\ revising = 0

Step(c, from, to) == thread[c] = from /\ thread' = [thread EXCEPT ![c] = to]

-----------------------------------------------------------------------------
(* evidence_reviewer                                                       *)

\* Mutant of Begin: the pause is not looked at.
BeginUnchecked(c) ==
    /\ Quiet
    /\ Step(c, "idle", "running")
    /\ next' = [next EXCEPT ![c] = LastSeq]
    /\ call' = c
    /\ ready' = FALSE
    /\ UNCHANGED <<file, tail, queue, wrote, revising, session, parent>>

Begin(c) ==
    /\ Quiet
    /\ ~Blocked
    /\ Step(c, "idle", "running")
    /\ next' = [next EXCEPT ![c] = LastSeq]
    /\ call' = c
    /\ ready' = FALSE
    /\ UNCHANGED <<file, tail, queue, wrote, revising, session, parent>>

\* queue_event: count, append, and hand the event to the loop.
Emit(c, kind) ==
    /\ Room /\ next[c] < MaxLines
    /\ next' = [next EXCEPT ![c] = @ + 1]
    /\ \E readable \in {TRUE} \cup (IF "separator" \in Faults THEN {FALSE} ELSE {}) :
         AddLine([seq |-> next'[c], kind |-> kind], readable)
    /\ queue' = [queue EXCEPT ![c] = Append(@, next'[c])]
    /\ wrote' = [wrote EXCEPT ![c] = Append(@, next'[c])]

WorkerAppends(c) ==
    /\ thread[c] \in {"running", "loose"}
    /\ Emit(c, "other")
    /\ UNCHANGED <<thread, call, revising, ready, session, parent>>

\* progress_sink raises into _progress, which goes on; checkpoint_sink fails
\* the worker.  The number is spent.
WorkerTears(c) ==
    /\ "tear" \in Faults
    /\ Room /\ next[c] < MaxLines
    /\ \/ \E to \in {"running", "failed"} : Step(c, "running", to)
       \/ \E to \in {"loose", "lost"} : Step(c, "loose", to)
    /\ next' = [next EXCEPT ![c] = @ + 1]
    /\ AddHalfLine
    /\ UNCHANGED <<queue, wrote, call, revising, ready, session, parent>>

\* With a result, with the pause of a rolled-back CHECK, or with any other
\* pause or exception.
WorkerEnds(c) ==
    /\ \/ \E to \in {"returned", "rolled_back", "failed"} : Step(c, "running", to)
       \/ Step(c, "loose", "lost")
    /\ UNCHANGED <<file, tail, next, queue, wrote, call, revising, ready, session, parent>>

Publish(c) ==
    /\ call = c
    /\ queue[c] # <<>>
    /\ session' = [session EXCEPT ![c] = Append(@, Head(queue[c]))]
    /\ queue' = [queue EXCEPT ![c] = Tail(@)]
    /\ UNCHANGED <<file, tail, thread, next, wrote, call, revising, ready, parent>>

\* child_paused or child_error is appended by the tool call itself, after all
\* the worker's events are out.
ReportEnd(c) ==
    /\ call = c
    /\ queue[c] = <<>>
    /\ \/ Step(c, "rolled_back", "reported") /\ Emit(c, "paused")
       \/ Step(c, "failed", "reported") /\ Emit(c, "other")
    /\ UNCHANGED <<call, revising, ready, session, parent>>

ReportTears(c) ==
    /\ "tear" \in Faults
    /\ Room
    /\ call = c
    /\ queue[c] = <<>>
    /\ \E from \in {"rolled_back", "failed"} : Step(c, from, "gone")
    /\ AddHalfLine
    /\ call' = NoCall
    /\ UNCHANGED <<next, queue, wrote, revising, ready, session, parent>>

\* Mutant of Return: the loop stops as soon as the worker is done.
ReturnUndrained(c) ==
    /\ call = c
    /\ \E from \in {"returned", "reported"} : Step(c, from, "closed")
    /\ call' = NoCall
    /\ UNCHANGED <<file, tail, next, queue, wrote, revising, ready, session, parent>>

Return(c) ==
    /\ call = c
    /\ queue[c] = <<>>
    /\ \E from \in {"returned", "reported"} : Step(c, from, "closed")
    /\ call' = NoCall
    /\ UNCHANGED <<file, tail, next, queue, wrote, revising, ready, session, parent>>

\* The awaiting call is cancelled; asyncio.to_thread cannot stop its worker.
Abandon(c) ==
    /\ "abandon" \in Faults
    /\ call = c
    /\ call' = NoCall
    /\ thread' = [thread EXCEPT ![c] = IF @ = "running" THEN "loose" ELSE "gone"]
    /\ UNCHANGED <<file, tail, next, queue, wrote, revising, ready, session, parent>>

-----------------------------------------------------------------------------
(* recheck_evidence_review and inspect_evidence_review                     *)

\* There is no checkpoint to revise before a worker has run.
Started == \E c \in Call : thread[c] # "idle"

\* After the checkpoint is written, the number of the event is looked up ...
RecheckNumbers ==
    /\ Quiet
    /\ Started
    /\ Room /\ LastSeq < MaxLines
    /\ revising' = LastSeq + 1
    /\ UNCHANGED <<file, tail, workers, call, ready, session, parent>>

\* ... and the event is appended, published and answered.
RecheckAppends ==
    /\ revising # 0
    /\ AddLine([seq |-> revising, kind |-> "revised"], TRUE)
    /\ session' = [session EXCEPT !["parent"] = Append(@, revising)]
    /\ revising' = 0
    /\ ready' = TRUE
    /\ UNCHANGED <<workers, call, parent>>

RecheckTears ==
    /\ "tear" \in Faults
    /\ revising # 0
    /\ AddHalfLine
    /\ revising' = 0
    /\ UNCHANGED <<workers, call, ready, session, parent>>

Fresh == {i \in DOMAIN file : file[i].seq > cursor}

\* Mutant of NextCursor: the parent goes on one too far.
NextCursorBeyond == Max({cursor} \cup {file[i].seq : i \in Fresh}) + 1

NextCursor == Max({cursor} \cup {file[i].seq : i \in Fresh})

Inspect ==
    /\ Quiet
    /\ Fresh # {}
    /\ seen' = seen \cup {i \in Fresh : Cardinality({j \in Fresh : j > i}) < Window}
    /\ cursor' = NextCursor
    /\ UNCHANGED <<file, tail, workers, call, revising, ready, session>>

-----------------------------------------------------------------------------
\* Somebody may be in the middle of _append_event.
Writing == revising # 0 \/ \E c \in Call : thread[c] \in {"running", "loose", "rolled_back", "failed"}

\* The process dies: workers, queues and the awaited call are gone, and what
\* was being appended may be half there.  The parent's session survives.
Crash ==
    /\ "crash" \in Faults
    /\ revising # 0 \/ \E c \in Call : thread[c] \notin {"idle", "closed", "gone", "lost"}
    /\ thread' = [c \in Call |->
         CASE thread[c] \in {"idle", "closed", "lost"} -> thread[c]
           [] thread[c] = "loose" -> "lost"
           [] OTHER -> "gone"]
    /\ queue' = [c \in Call |-> <<>>]
    /\ call' = NoCall
    /\ revising' = 0
    /\ \/ UNCHANGED <<file, tail>>
       \/ "tear" \in Faults /\ Writing /\ Room /\ AddHalfLine
    /\ UNCHANGED <<next, wrote, ready, session, parent>>

Next ==
    \/ \E c \in Call :
         \/ Begin(c) \/ WorkerAppends(c) \/ WorkerTears(c) \/ WorkerEnds(c)
         \/ Publish(c) \/ ReportEnd(c) \/ ReportTears(c) \/ Return(c) \/ Abandon(c)
    \/ RecheckNumbers \/ RecheckAppends \/ RecheckTears \/ Inspect \/ Crash

Spec == Init /\ [][Next]_vars

-----------------------------------------------------------------------------
(* Properties                                                              *)

\* No worker has outlived the call that was waiting for it.
Attended == \A c \in Call : thread[c] \notin {"loose", "lost"}

\* The numbers of the readable lines increase with the lines.
Ordered ==
    \A i, j \in DOMAIN file :
        i < j /\ Decodable(i) /\ Decodable(j) => file[i].seq < file[j].seq

(* "Ordered events": as long as no worker outlives its call, the numbers of
   the readable lines increase with the lines, across resumes and rechecks,
   although every writer finds its first number by itself. *)
FileOrdered == Attended => Ordered

(* Append-only: an event that can be read stays readable where it is, whatever
   is torn or merged after it. *)
DecodedKept ==
    [][\A i \in DOMAIN file : Decodable(i) => i \in DOMAIN file' /\ file'[i] = file[i]]_vars

(* When evidence_reviewer returns, the parent's session holds every event of
   the call, once and in order: nothing is left behind between the worker's
   last event and the check that it is done, and a worker that outlived an
   earlier call adds nothing. *)
PublishedAll == \A c \in Call : thread[c] = "closed" => session[c] = wrote[c]

\* No line is lost: a torn line, or one broken at a separator, hides its number.
Whole == tail = "ended" /\ \A i \in DOMAIN file : Decodable(i)

\* The readable events up to the parent's cursor.
Told == {i \in DOMAIN file : Decodable(i) /\ file[i].seq <= cursor}

(* A parent that asks again with next_event_seq has been shown the newest
   Window of the readable events up to its cursor, however many it asked for
   late, unless a loose worker numbered one behind the cursor: the cursor
   passes over an event only when that many newer ones stand behind it. *)
InspectSeesNewest ==
    Attended => \A i \in Told \ seen : Cardinality({j \in Told : j > i}) >= Window

(* After "revision_ready", the run can be resumed: the answer is not given
   while the pause still blocks it, unless the event of the revision fell
   behind half a line. *)
RevisionReady == Whole /\ Attended /\ ready => ~Blocked

(* The pause of a rolled-back CHECK is lifted by the event of a revision and
   by nothing else that an attended worker writes. *)
OnlyRevisionUnblocks ==
    [][Attended' /\ Blocked /\ ~Blocked' => file'[Len(file')].kind = "revised"]_vars
=============================================================================
