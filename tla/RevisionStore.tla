---------------------------- MODULE RevisionStore ----------------------------
(***************************************************************************)
(* The revisions a compiler child leaves beside its parent run             *)
(* (runtime/checkpoints.py) and the Manager's tools on them                *)
(* (tools/capabilities.py): inspect, with pages of the child's events,     *)
(* recheck and cancel.  The child itself and the run that hosts it are     *)
(* external: it saves its checkpoint under the revision it started with.   *)
(***************************************************************************)
EXTENDS RunTrace

CONSTANTS Children, ParentOf,   \* child runs and the run each belongs to
          Checks, Downstream,   \* [Checks -> the CHECKs that rest on it, itself included]
          Corrections,          \* records [id, target, refs] the Manager may send
          Admitted,             \* references of the sources the child was given
          PageSize              \* 12 in the code

\* A correction names a CHECK and has an id of its own (RecheckCompilerCheckInput)
ASSUME StoreAssumption ==
  /\ ParentOf \in [Children -> Runs]
  /\ Downstream \in [Checks -> SUBSET Checks]
  /\ Corrections \subseteq [id : STRING \ {""}, target : Checks, refs : SUBSET STRING]
  /\ PageSize \in Nat

VARIABLES revisions,  \* [Children -> function from revision numbers to what is in the file]
          clock,      \* the time of the last write
          child,      \* [Children -> the checkpoint the running child holds, or Idle]
          reader,     \* [Children -> the Manager's place in its events]
          answered    \* [Children -> corrections answered "revision_created"]

storeVars == <<revisions, clock, child, reader, answered>>
vars == <<traceVars, storeVars, left>>

Idle == [revision |-> 0]
Checkpoint(n, status, compile, done, corrections) ==
  [revision |-> n, status |-> status, compile |-> compile, done |-> done,
   corrections |-> corrections]

Files(k) == DOMAIN revisions[k]
Highest(k) == CHOOSE n \in Files(k) : \A m \in Files(k) : m <= n

\* load_compiler: the highest revision; latest_compiler: the file written last
LoadCompiler(k) == revisions[k][Highest(k)].payload
LastWritten(ks) ==
  LET written == {f \in ks \X (1..MaxOps) : f[2] \in Files(f[1])} IN
  CHOOSE f \in written :
    \A g \in written : revisions[g[1]][g[2]].time <= revisions[f[1]][f[2]].time
Addressed(asked) == IF asked = "" THEN Children ELSE {asked}
Known(asked) == \E k \in Addressed(asked) : Files(k) # {}
LatestChild(asked) == LastWritten(Addressed(asked))[1]
LatestCompiler(k) == revisions[k][LastWritten({k})[2]].payload

SaveCompiler(k, payload) ==
  /\ clock' = clock + 1
  /\ revisions' = [revisions EXCEPT
       ![k] = [n \in Files(k) \cup {payload.revision} |->
                 IF n = payload.revision THEN [payload |-> payload, time |-> clock + 1]
                                         ELSE @[n]]]

(***************************************************************************)
(* Revising: revise_compiler_checkpoint.                                   *)
(***************************************************************************)
Rechecked(ckpt, c) ==
  Checkpoint(ckpt.revision + 1, "running", "", ckpt.done \ Downstream[c.target],
             Append(ckpt.corrections, c))
Cancelled(ckpt) ==
  Checkpoint(ckpt.revision + 1, "cancelled", "CANCELLED", ckpt.done,
             Append(ckpt.corrections, [id |-> "", target |-> "", refs |-> {}]))

\* A slip, for mutation: a correction id already there is not looked up
ExistingNever(ckpt, c) == {}
Existing(ckpt, c) == {x \in ToSet(ckpt.corrections) : x.id = c.id}

(***************************************************************************)
(* The events of a child and the pages of them.                            *)
(***************************************************************************)
Belongs(e, k) == e.child = k \/ (e.id.run = ParentOf[k] /\ e.stage \in CompilerStages)

\* One reading of a file, line by line, that keeps the lines at the places S
LinesAt(s, S) ==
  LET upto[n \in 0..Len(s)] ==
        IF n = 0 THEN <<>>
        ELSE IF n \in S THEN Append(upto[n - 1], s[n]) ELSE upto[n - 1]
  IN upto[Len(s)]

Places(k) == {n \in DOMAIN casefile : Belongs(casefile[n], k)}
After(k, cursor) == LinesAt(casefile, {n \in Places(k) : casefile[n].case > cursor})
AtMost(n, m) == IF n < m THEN n ELSE m

\* A slip, for mutation: the scan goes on and the page keeps its last events
PageLast(k, cursor) ==
  LET es == After(k, cursor) IN SubSeq(es, Len(es) - AtMost(Len(es), PageSize) + 1, Len(es))
FirstView(k) ==
  LET es == After(k, 0) IN SubSeq(es, Len(es) - AtMost(Len(es), PageSize) + 1, Len(es))
Page(k, cursor) == SubSeq(After(k, cursor), 1, AtMost(Len(After(k, cursor)), PageSize))

NextCaseSeq(cursor, es) == IF es = <<>> THEN cursor ELSE es[Len(es)].case

-----------------------------------------------------------------------------
StoreInit ==
  /\ Init
  /\ revisions = [k \in Children |-> [n \in {} |-> Idle]]
  /\ clock = 0
  /\ child = [k \in Children |-> Idle]
  /\ reader = [k \in Children |-> [from |-> 0, cursor |-> 0, seen |-> <<>>]]
  /\ answered = [k \in Children |-> {}]

HostIsUp(k) == Ready(ParentOf[k]) /\ ~mem[ParentOf[k]].final

\* a first run, or the child resumed from its highest revision; one that did not
\* converge starts the next
StartChild(k) ==
  /\ Asked /\ HostIsUp(k) /\ child[k] = Idle
  /\ \/ /\ Files(k) = {}
        /\ child' = [child EXCEPT ![k] = Checkpoint(1, "running", "", {}, <<>>)]
     \/ /\ Files(k) # {} /\ LoadCompiler(k).status # "cancelled"
        /\ LoadCompiler(k).compile # "COMMITTED"
        /\ child' = [child EXCEPT ![k] =
             [LoadCompiler(k) EXCEPT
                !.revision = IF LoadCompiler(k).compile = "NON_CONVERGED" THEN @ + 1 ELSE @,
                !.status = "running", !.compile = ""]]
  /\ UNCHANGED <<traceVars, revisions, clock, reader, answered>>

ChildCommits(k, c) ==
  /\ Asked /\ child[k] # Idle /\ c \notin child[k].done
  /\ child' = [child EXCEPT ![k].done = @ \cup {c}]
  /\ SaveCompiler(k, child'[k])
  /\ UNCHANGED <<traceVars, reader, answered>>

ChildEnds(k) ==
  LET compile == IF child[k].done = Checks THEN "COMMITTED" ELSE "NON_CONVERGED" IN
  /\ Asked /\ child[k] # Idle
  /\ SaveCompiler(k, [child[k] EXCEPT !.status = "completed", !.compile = compile])
  /\ child' = [child EXCEPT ![k] = Idle]
  /\ mem' = [mem EXCEPT ![ParentOf[k]].pending = child[k].revision]
  /\ UNCHANGED <<sdk, saved, runfile, casefile, trace, todo, reader, answered>>

\* the Manager reads on from its cursor, or takes the last events afresh; it may read as
\* often as it likes
Inspect(asked, fresh) ==
  LET k == LatestChild(asked)
      page == IF fresh THEN FirstView(k) ELSE Page(k, reader[k].cursor)
      ids == [i \in 1..Len(page) |-> page[i].id]
  IN  /\ Known(asked) /\ page # <<>>
      /\ reader' = [reader EXCEPT ![k] =
           [from |-> IF fresh THEN page[1].case ELSE @.from,
            cursor |-> NextCaseSeq(IF fresh THEN 0 ELSE @.cursor, page),
            seen |-> IF fresh THEN ids ELSE @.seen \o ids]]
      /\ UNCHANGED <<traceVars, revisions, clock, child, answered, left>>

ForgetArtifact(r) == mem' = [mem EXCEPT ![r].pending = 0]

\* correcting and cancelling look at no running child
Recheck(r, asked, c, expected) ==
  LET k == LatestChild(asked)
      ckpt == LatestCompiler(k)
  IN  /\ Asked /\ Known(asked) /\ Ready(r)
      /\ \/ /\ c \in Existing(ckpt, c)
            /\ UNCHANGED <<revisions, clock, answered>>
         \/ /\ Existing(ckpt, c) = {}
            /\ ckpt.revision = expected /\ c.refs \subseteq Admitted
            /\ ckpt.status # "cancelled"
            /\ SaveCompiler(k, Rechecked(ckpt, c))
            /\ answered' = [answered EXCEPT ![k] = @ \cup {c}]
      /\ ForgetArtifact(r)
      /\ UNCHANGED <<sdk, saved, runfile, casefile, trace, todo, child, reader>>

Cancel(r, asked) ==
  LET k == LatestChild(asked) IN
  /\ Asked /\ Known(asked) /\ Ready(r)
  /\ SaveCompiler(k, Cancelled(LatestCompiler(k)))
  /\ ForgetArtifact(r)
  /\ UNCHANGED <<sdk, saved, runfile, casefile, trace, todo, child, reader, answered>>

Crash(torn) ==
  /\ Stop(torn)
  /\ child' = [k \in Children |-> Idle]
  /\ UNCHANGED <<revisions, clock, reader, answered>>

RunNext ==
  \/ \E r \in Runs :
       \/ BeginRun(r) \/ RecordModelCalls(r) \/ Finalize(r) \/ AppendEvent(r) \/ WriteTrace(r)
       \/ Save(r) \/ Clear(r) \/ Resume(r)
       \/ \E c \in Calls : CallModel(r, c)
       \/ \E d \in DecisionsOf[r], fs \in Findings : Decide(r, d, fs)

StoreNext ==
  \/ \E k \in Children : StartChild(k) \/ ChildEnds(k) \/ \E c \in Checks : ChildCommits(k, c)
  \/ \E asked \in Children \cup {""}, fresh \in BOOLEAN : Inspect(asked, fresh)
  \/ \E r \in Runs, asked \in Children \cup {""} :
       \/ Cancel(r, asked)
       \/ \E c \in Corrections, n \in 1..MaxOps : Recheck(r, asked, c, n)
  \/ \E torn \in SUBSET Runs : Crash(torn)

Next == (RunNext /\ UNCHANGED storeVars) \/ StoreNext

Spec == StoreInit /\ [][Next]_vars

-----------------------------------------------------------------------------
\* The Manager who pages through a child's events with the cursor it was given has seen
\* each of them once and in order, from where it started: "keep cursor pages lossless",
\* while the runs go on appending between two pages.
PagesLossless ==
  \A k \in Children :
    LET es == LinesAt(casefile, {n \in Places(k) : /\ reader[k].from <= casefile[n].case
                                                   /\ casefile[n].case <= reader[k].cursor})
    IN  reader[k].seen = [i \in 1..Len(es) |-> es[i].id]

\* Something was written after the highest revision: the Manager's tools read the file
\* written last, the child resumes from the highest number.
Parted(k) == \E n \in Files(k) : revisions[k][Highest(k)].time < revisions[k][n].time

\* A child that runs with less than the Manager has saved meanwhile
Overtaken(k) ==
  /\ child[k] # Idle /\ Files(k) # {}
  /\ \/ child[k].revision < Highest(k)
     \/ child[k].revision = Highest(k) /\ child[k].corrections # LoadCompiler(k).corrections

\* The correction is in what the child resumes from, once
Once(sent, id) ==
  \E i \in DOMAIN sent : sent[i].id = id /\ \A j \in DOMAIN sent : sent[j].id = id => j = i
Stands(k, c) == Files(k) # {} /\ Once(LoadCompiler(k).corrections, c.id)

Loses(k) == \E c \in answered'[k] : (c \in answered[k] => Stands(k, c)) /\ ~Stands(k, c)'

\* A correction answered "revision_created" is in what the child resumes from, once, and
\* stays there whatever is retried, corrected, cancelled, resumed or crashes.  It can be lost
\* only after a race of the Manager with a running child, and there only where the child
\* writes the number that the Manager gave out meanwhile or the Manager corrects what is not
\* the highest revision; the last write is not the highest only by a child that was
\* overtaken, and only a revision saved while it runs overtakes a child (load_compiler,
\* latest_compiler, _recheck_compiler_check, _cancel_compiler_run).
CorrectionsStand ==
  [][\A k \in Children :
       /\ Loses(k) => Parted(k) \/ (Overtaken(k) /\ child[k].revision = Highest(k))
       /\ Parted(k)' => Parted(k) \/ Overtaken(k)
       /\ Overtaken(k)' => Overtaken(k) \/ (child[k] # Idle /\ child'[k] = child[k])]_vars
=============================================================================
