--------------------------- MODULE ChildRunProofs ---------------------------
(***************************************************************************)
(* Theorems about ChildRun, for every plan, every set of threads and       *)
(* correction ids and every choice of faults.                              *)
(***************************************************************************)
EXTENDS ChildRun, WellFoundedInduction, TLAPS

-----------------------------------------------------------------------------
(* Checkpoints and completed lists                                         *)

\* Committing a group keeps a completed list well formed and adds the group.
LEMMA AppendGroupDone ==
    ASSUME NEW list \in Seq(SUBSET Check), NEW group \in SUBSET Check
    PROVE  /\ AppendGroup(list, group) \in Seq(SUBSET Check)
           /\ Done(AppendGroup(list, group)) = Done(list) \cup group
<1>1. CASE group = {}
  BY <1>1 DEF AppendGroup
<1>2. CASE group # {}
  <2>1. AppendGroup(list, group) = Append(list, group)
    BY <1>2 DEF AppendGroup
  <2>2. Append(list, group) \in Seq(SUBSET Check)
    OBVIOUS
  <2>3. DOMAIN Append(list, group) = DOMAIN list \cup {Len(list) + 1}
    OBVIOUS
  <2>4. /\ \A i \in DOMAIN list : Append(list, group)[i] = list[i]
        /\ Append(list, group)[Len(list) + 1] = group
    OBVIOUS
  <2>5. ASSUME NEW x
        PROVE  x \in Done(Append(list, group)) <=> x \in Done(list) \/ x \in group
    BY <2>3, <2>4 DEF Done
  <2> QED
    BY <2>1, <2>2, <2>5
<1> QED
  BY <1>1, <1>2

\* Revising removes exactly the affected CHECKs from a completed list.
LEMMA FilteredDone ==
    ASSUME NEW list \in Seq(SUBSET Check), NEW D
    PROVE  LET kept == [i \in DOMAIN list |-> list[i] \ D]
           IN  /\ kept \in Seq(SUBSET Check)
               /\ Done(kept) = Done(list) \ D
<1> DEFINE kept == [i \in DOMAIN list |-> list[i] \ D]
<1>1. DOMAIN list = 1 .. Len(list) /\ Len(list) \in Nat
  OBVIOUS
<1>2. \A i \in 1 .. Len(list) : list[i] \ D \in SUBSET Check
  BY <1>1
<1>3. kept \in Seq(SUBSET Check)
  BY <1>1, <1>2
<1>4. ASSUME NEW x PROVE x \in Done(kept) <=> x \in Done(list) /\ x \notin D
  BY <1>1 DEF Done
<1> QED
  BY <1>3, <1>4

LEMMA DoneType ==
    ASSUME NEW list \in Seq(SUBSET Check)
    PROVE  Done(list) \subseteq Check
BY DEF Done

\* The ready closure adds only CHECKs that passed, and with what is already
\* committed it is closed under upstreams.
LEMMA ReadyClosureClosed ==
    ASSUME NEW passed, NEW done, UpstreamClosed(done)
    PROVE  /\ ReadyClosure(passed, done) \subseteq passed
           /\ UpstreamClosed(done \cup ReadyClosure(passed, done))
<1>1. ReadyClosure(passed, done) \subseteq passed
  BY DEF ReadyClosure
<1>2. ASSUME NEW x \in ReadyClosure(passed, done)
      PROVE  Upstream[x] \subseteq done \cup ReadyClosure(passed, done)
  <2>1. PICK S \in SUBSET passed :
          /\ x \in S
          /\ \A y \in S : Upstream[y] \subseteq S \cup done
    BY DEF ReadyClosure
  <2>2. S \subseteq ReadyClosure(passed, done)
    BY <2>1 DEF ReadyClosure
  <2> QED
    BY <2>1, <2>2
<1> QED
  BY <1>1, <1>2 DEF UpstreamClosed

\* Dropping a CHECK and everything downstream of it keeps a list closed.
LEMMA DownstreamRemoved ==
    ASSUME NEW done \in SUBSET Check, UpstreamClosed(done), NEW x \in Check
    PROVE  UpstreamClosed(done \ Downstream(x))
<1> SUFFICES ASSUME NEW d \in done \ Downstream(x), NEW u \in Upstream[d]
             PROVE  u \in done \ Downstream(x)
  BY DEF UpstreamClosed
<1>1. u \in done
  BY DEF UpstreamClosed
<1>2. PICK S \in SUBSET Check :
        /\ x \in S
        /\ \A e \in Check : Upstream[e] \cap S # {} => e \in S
        /\ d \notin S
  BY DEF Downstream
<1>3. u \notin S
  BY <1>2
<1> QED
  BY <1>1, <1>2, <1>3 DEF Downstream


\* Plan order is well founded: the loop always has a first CHECK to attempt.
LEMMA FirstOf ==
    ASSUME NEW S \in SUBSET Check, S # {}
    PROVE  First(S) \in S /\ \A d \in S : Position[First(S)] <= Position[d]
<1> DEFINE T == {Position[d] : d \in S}
<1>1. T \subseteq Nat /\ T # {}
  BY PlanAssumption
<1>2. PICK n \in T : \A m \in T : ~(<<m, n>> \in OpToRel(<, Nat))
  <2> HIDE DEF T
  <2> QED
    BY <1>1, NatLessThanWellFounded, WFMin
<1>3. \A m \in T : ~(m < n)
  BY <1>1, <1>2 DEF OpToRel
<1>4. PICK d \in S : Position[d] = n
  BY <1>2
<1>5. \A e \in S : Position[d] <= Position[e]
  BY <1>1, <1>3, <1>4
<1> QED
  BY <1>5 DEF First

-----------------------------------------------------------------------------
(* Type correctness                                                        *)

\* Every checkpoint the code builds from a checkpoint is one.
LEMMA CheckpointTypes ==
    /\ Missing \in Checkpoint
    /\ FirstCheckpoint \in Checkpoint
    /\ \A ck \in Checkpoint :
         /\ ResumedCheckpoint(ck) \in Checkpoint
         /\ FailedCheckpoint(ck) \in Checkpoint
         /\ ExhaustedCheckpoint(ck) \in Checkpoint
         /\ FinalCheckpoint(ck) \in Checkpoint
         /\ \A group \in SUBSET Check : CommittedCheckpoint(ck, group) \in Checkpoint
         /\ \A k \in Correction, x \in Check : RevisedCheckpoint(ck, k, x) \in Checkpoint
         /\ \A x \in Check : [ck EXCEPT !.active = x] \in Checkpoint
<1>1. Missing \in Checkpoint /\ FirstCheckpoint \in Checkpoint
  <2>1. <<>> \in Seq(SUBSET Check)
    OBVIOUS
  <2>2. Missing \in Checkpoint
    BY <2>1 DEF Missing, Checkpoint, Status, CompileStatus
  <2> QED
    BY <2>2 DEF FirstCheckpoint, Checkpoint, Status, CompileStatus
<1>2. ASSUME NEW ck \in Checkpoint
      PROVE  /\ ResumedCheckpoint(ck) \in Checkpoint
             /\ FailedCheckpoint(ck) \in Checkpoint
             /\ ExhaustedCheckpoint(ck) \in Checkpoint
             /\ FinalCheckpoint(ck) \in Checkpoint
             /\ \A x \in Check : [ck EXCEPT !.active = x] \in Checkpoint
  <2>1. ResumedCheckpoint(ck) \in Checkpoint
    <3>1. (IF ck.compile = "NON_CONVERGED" THEN ck.revision + 1 ELSE ck.revision) \in Nat
      BY DEF Checkpoint
    <3> QED
      BY <3>1 DEF Checkpoint, Status, CompileStatus, ResumedCheckpoint
  <2>2. FailedCheckpoint(ck) \in Checkpoint
    BY DEF Checkpoint, Status, CompileStatus, FailedCheckpoint
  <2>3. ExhaustedCheckpoint(ck) \in Checkpoint
    BY DEF Checkpoint, Status, CompileStatus, ExhaustedCheckpoint
  <2>4. FinalCheckpoint(ck) \in Checkpoint
    <3>1. CASE IsWholePlan(ck.completed)
      BY <3>1 DEF Checkpoint, Status, CompileStatus, FinalCheckpoint
    <3>2. CASE ~IsWholePlan(ck.completed)
      BY <3>2 DEF Checkpoint, Status, CompileStatus, FinalCheckpoint
    <3> QED
      BY <3>1, <3>2
  <2>5. ASSUME NEW x \in Check PROVE [ck EXCEPT !.active = x] \in Checkpoint
    BY DEF Checkpoint
  <2> QED
    BY <2>1, <2>2, <2>3, <2>4, <2>5
<1>3. ASSUME NEW ck \in Checkpoint, NEW group \in SUBSET Check
      PROVE  CommittedCheckpoint(ck, group) \in Checkpoint
  <2>1. AppendGroup(ck.completed, group) \in Seq(SUBSET Check)
    BY AppendGroupDone DEF Checkpoint
  <2> QED
    BY <2>1 DEF CommittedCheckpoint, Checkpoint
<1>4. ASSUME NEW ck \in Checkpoint, NEW k \in Correction, NEW x
      PROVE  RevisedCheckpoint(ck, k, x) \in Checkpoint
  <2>1. [i \in DOMAIN ck.completed |-> ck.completed[i] \ Downstream(x)]
           \in Seq(SUBSET Check)
    BY FilteredDone DEF Checkpoint
  <2>2. ck.revision + 1 \in Nat /\ ck.corrections \cup {k} \in SUBSET Correction
    BY DEF Checkpoint
  <2> QED
    BY <2>1, <2>2 DEF RevisedCheckpoint, Checkpoint, Status, CompileStatus
<1> QED
  BY <1>1, <1>2, <1>3, <1>4

\* Where a worker is in runtime.run, seeing through the save in progress.
Stage(t) == IF pc[t] \in {"write", "record"} THEN after[t] ELSE pc[t]

\* The active CHECK of a running frontier is one its loop has still to attempt.
ActiveInLoop ==
    \A t \in Thread :
        Stage(t) \in {"execute", "verify"} => latest[t].active \in todo[t]

Typed == TypeOK /\ ActiveInLoop

LEMMA FocusType ==
    ASSUME Typed, NEW t \in Thread, Stage(t) \in {"execute", "verify"}
    PROVE  Focus(t) \in SUBSET Check /\ Focus(t) \subseteq todo[t]
BY DEF Typed, TypeOK, ActiveInLoop, Focus

LEMMA TypedInit == Init => Typed
<1> SUFFICES ASSUME Init PROVE Typed
  OBVIOUS
<1>1. Missing \in Checkpoint
  BY CheckpointTypes
<1>2. TypeOK
  BY <1>1, EnvironmentAssumption DEF Init, TypeOK, PC, Outcome
<1>3. ActiveInLoop
  BY DEF Init, ActiveInLoop, Stage
<1> QED
  BY <1>2, <1>3 DEF Typed

LEMMA TypedStep ==
    ASSUME Typed, [Next]_vars
    PROVE  Typed'
<1> USE EnvironmentAssumption
<1>1. ASSUME NEW t \in Thread, Begin(t) PROVE Typed'
  <2>1. TypeOK'
    BY <1>1 DEF Begin, Goto, Typed, TypeOK, PC, Outcome
  <2>2. ActiveInLoop'
    BY <1>1 DEF Begin, Goto, Typed, TypeOK, ActiveInLoop, Stage
  <2> QED
    BY <2>1, <2>2 DEF Typed
<1>2. ASSUME NEW t \in Thread, Report(t) PROVE Typed'
  <2>1. TypeOK'
    BY <1>2, CheckpointTypes DEF Report, Retire, Goto, Typed, TypeOK, PC, Outcome
  <2>2. ActiveInLoop'
    BY <1>2 DEF Report, Retire, Goto, Typed, TypeOK, ActiveInLoop, Stage
  <2> QED
    BY <2>1, <2>2 DEF Typed
<1>3. ASSUME NEW t \in Thread, OrphanEnds(t) PROVE Typed'
  <2>1. TypeOK'
    BY <1>3, CheckpointTypes
    DEF OrphanEnds, Retire, Goto, runDir, Typed, TypeOK, PC, Outcome
  <2>2. ActiveInLoop'
    BY <1>3 DEF OrphanEnds, Retire, Goto, runDir, Typed, TypeOK, ActiveInLoop, Stage
  <2> QED
    BY <2>1, <2>2 DEF Typed
<1>4. ASSUME NEW t \in Thread, CompilePlan(t) PROVE Typed'
  <2>1. TypeOK'
    BY <1>4, CheckpointTypes
    DEF CompilePlan, SaveThen, EndWith, Goto, runDir, Typed, TypeOK, PC, Outcome
  <2>2. ActiveInLoop'
    BY <1>4
    DEF CompilePlan, SaveThen, EndWith, Goto, runDir, Typed, TypeOK, ActiveInLoop, Stage
  <2> QED
    BY <2>1, <2>2 DEF Typed
<1>5. ASSUME NEW t \in Thread, AdmitCheckpoint(t) PROVE Typed'
  <2>1. TypeOK'
    BY <1>5, CheckpointTypes
    DEF AdmitCheckpoint, SaveThen, EndWith, Goto, runDir, Typed, TypeOK, PC, Outcome
  <2>2. ActiveInLoop'
    BY <1>5
    DEF AdmitCheckpoint, SaveThen, EndWith, Goto, runDir, Typed, TypeOK, ActiveInLoop,
        Stage
  <2> QED
    BY <2>1, <2>2 DEF Typed
<1>6. ASSUME NEW t \in Thread, WriteCheckpoint(t) PROVE Typed'
  <2>1. TypeOK'
    BY <1>6 DEF WriteCheckpoint, Goto, Typed, TypeOK, PC, Outcome
  <2>2. ActiveInLoop'
    BY <1>6 DEF WriteCheckpoint, Goto, Typed, TypeOK, ActiveInLoop, Stage
  <2> QED
    BY <2>1, <2>2 DEF Typed
<1>7. ASSUME NEW t \in Thread, RecordCheckpoint(t) PROVE Typed'
  <2>1. TypeOK'
    BY <1>7 DEF RecordCheckpoint, Goto, Typed, TypeOK, PC, Outcome
  <2>2. ActiveInLoop'
    BY <1>7 DEF RecordCheckpoint, Goto, Typed, TypeOK, ActiveInLoop, Stage
  <2> QED
    BY <2>1, <2>2 DEF Typed
<1>8. ASSUME NEW t \in Thread, PausePlanReady(t) PROVE Typed'
  <2>1. TypeOK'
    BY <1>8 DEF PausePlanReady, EndWith, Goto, Typed, TypeOK, PC, Outcome
  <2>2. ActiveInLoop'
    BY <1>8 DEF PausePlanReady, EndWith, Goto, Typed, TypeOK, ActiveInLoop, Stage
  <2> QED
    BY <2>1, <2>2 DEF Typed
<1>9. ASSUME NEW t \in Thread, ChooseFrontier(t) PROVE Typed'
  <2>1. CASE todo[t] = {}
    BY <1>9, <2>1 DEF ChooseFrontier, Goto, runDir, Typed, TypeOK, PC, Outcome,
                      ActiveInLoop, Stage
  <2>2. CASE todo[t] # {}
    <3>1. First(todo[t]) \in todo[t] /\ todo[t] \subseteq Check
      BY <2>2, FirstOf DEF Typed, TypeOK
    <3>2. [latest[t] EXCEPT !.active = First(todo[t])] \in Checkpoint
      BY <3>1, CheckpointTypes DEF Typed, TypeOK
    <3>3. TypeOK'
      BY <1>9, <2>2, <3>2 DEF ChooseFrontier, SaveThen, Goto, runDir, Typed, TypeOK, PC
    <3>4. [latest[t] EXCEPT !.active = First(todo[t])].active \in todo[t]
      BY <3>1 DEF Typed, TypeOK, Checkpoint
    <3>5. ActiveInLoop'
      BY <1>9, <2>2, <3>4 DEF ChooseFrontier, SaveThen, Goto, runDir, Typed, TypeOK,
                              ActiveInLoop, Stage
    <3> QED
      BY <3>3, <3>5 DEF Typed
  <2> QED
    BY <2>1, <2>2
<1>10. ASSUME NEW t \in Thread, StartExecutor(t) PROVE Typed'
  <2>1. Focus(t) \in SUBSET Check
    BY <1>10, FocusType DEF StartExecutor, Stage
  <2>2. TypeOK'
    BY <1>10, <2>1 DEF StartExecutor, Goto, Typed, TypeOK, PC, Checkpoint
  <2>3. ActiveInLoop'
    BY <1>10 DEF StartExecutor, Goto, Typed, TypeOK, ActiveInLoop, Stage
  <2> QED
    BY <2>2, <2>3 DEF Typed
<1>11. ASSUME NEW t \in Thread, CommitFrontier(t) PROVE Typed'
  <2>1. Focus(t) \in SUBSET Check
    BY <1>11, FocusType DEF CommitFrontier, Stage
  <2>2. PICK group \in SUBSET Focus(t) :
          SaveThen(t, CommittedCheckpoint(latest[t], group), "choose")
    BY <1>11 DEF CommitFrontier, ReadyClosure
  <2>3. CommittedCheckpoint(latest[t], group) \in Checkpoint
    BY <2>1, CheckpointTypes DEF Typed, TypeOK
  <2>4. TypeOK'
    BY <1>11, <2>2, <2>3 DEF CommitFrontier, SaveThen, Goto, runDir, Typed, TypeOK, PC
  <2>5. ActiveInLoop'
    BY <1>11, <2>2 DEF CommitFrontier, SaveThen, Goto, runDir, Typed, TypeOK,
                      ActiveInLoop, Stage
  <2> QED
    BY <2>4, <2>5 DEF Typed
<1>12. ASSUME NEW t \in Thread, RollBackCheck(t) PROVE Typed'
  <2>1. TypeOK'
    BY <1>12, CheckpointTypes
    DEF RollBackCheck, SaveThen, Goto, Typed, TypeOK, PC, Outcome
  <2>2. ActiveInLoop'
    BY <1>12 DEF RollBackCheck, SaveThen, Goto, Typed, TypeOK, ActiveInLoop, Stage
  <2> QED
    BY <2>1, <2>2 DEF Typed
<1>13. ASSUME NEW t \in Thread, RollBackUnpaused(t) PROVE Typed'
  <2>1. TypeOK'
    BY <1>13, FocusType, CheckpointTypes
    DEF RollBackUnpaused, SaveThen, Goto, runDir, Typed, TypeOK, PC, Outcome
  <2>2. ActiveInLoop'
    BY <1>13
    DEF RollBackUnpaused, SaveThen, Goto, runDir, Typed, TypeOK, ActiveInLoop, Stage
  <2> QED
    BY <2>1, <2>2 DEF Typed
<1>14. ASSUME NEW t \in Thread, PauseFrontier(t) PROVE Typed'
  <2>1. TypeOK'
    BY <1>14, CheckpointTypes
    DEF PauseFrontier, SaveThen, EndWith, Goto, Typed, TypeOK, PC, Outcome
  <2>2. ActiveInLoop'
    BY <1>14
    DEF PauseFrontier, SaveThen, EndWith, Goto, Typed, TypeOK, ActiveInLoop, Stage
  <2> QED
    BY <2>1, <2>2 DEF Typed
<1>15. ASSUME NEW t \in Thread, FailFrontier(t) PROVE Typed'
  <2>1. TypeOK'
    BY <1>15, CheckpointTypes
    DEF FailFrontier, SaveThen, Goto, runDir, Typed, TypeOK, PC, Outcome
  <2>2. ActiveInLoop'
    BY <1>15
    DEF FailFrontier, SaveThen, Goto, runDir, Typed, TypeOK, ActiveInLoop, Stage
  <2> QED
    BY <2>1, <2>2 DEF Typed
<1>16. ASSUME NEW t \in Thread, FinishRun(t) PROVE Typed'
  <2>1. TypeOK'
    BY <1>16, CheckpointTypes
    DEF FinishRun, SaveThen, Goto, runDir, Typed, TypeOK, PC, Outcome
  <2>2. ActiveInLoop'
    BY <1>16 DEF FinishRun, SaveThen, Goto, runDir, Typed, TypeOK, ActiveInLoop, Stage
  <2> QED
    BY <2>1, <2>2 DEF Typed
<1>17. ASSUME NEW t \in Thread, StoreFails(t) PROVE Typed'
  <2>1. TypeOK'
    BY <1>17 DEF StoreFails, EndWith, Goto, runDir, Typed, TypeOK, PC, Outcome
  <2>2. ActiveInLoop'
    BY <1>17 DEF StoreFails, EndWith, Goto, runDir, Typed, TypeOK, ActiveInLoop, Stage
  <2> QED
    BY <2>1, <2>2 DEF Typed
<1>18. ASSUME NEW t \in Thread, PlanReadyUnseen(t) PROVE Typed'
  <2>1. TypeOK'
    BY <1>18 DEF PlanReadyUnseen, Goto, runDir, Typed, TypeOK, PC, Outcome
  <2>2. ActiveInLoop'
    BY <1>18 DEF PlanReadyUnseen, Goto, runDir, Typed, TypeOK, ActiveInLoop, Stage
  <2> QED
    BY <2>1, <2>2 DEF Typed
<1>19. ASSUME NEW t \in Thread, ReportFails(t) PROVE Typed'
  <2>1. TypeOK'
    BY <1>19, CheckpointTypes
    DEF ReportFails, Retire, Goto, runDir, Typed, TypeOK, PC, Outcome
  <2>2. ActiveInLoop'
    BY <1>19 DEF ReportFails, Retire, Goto, runDir, Typed, TypeOK, ActiveInLoop, Stage
  <2> QED
    BY <2>1, <2>2 DEF Typed
<1>20. ASSUME NEW t \in Thread, Abandon(t) PROVE Typed'
  <2>1. TypeOK'
    BY <1>20 DEF Abandon, runDir, Typed, TypeOK, PC, Outcome
  <2>2. ActiveInLoop'
    BY <1>20 DEF Abandon, runDir, Typed, TypeOK, ActiveInLoop, Stage
  <2> QED
    BY <2>1, <2>2 DEF Typed
<1>21. ASSUME NEW k \in Correction, NEW x \in Check, BeginRecheck(k, x) PROVE Typed'
  BY <1>21, CheckpointTypes
  DEF BeginRecheck, runDir, Typed, TypeOK, PC, Outcome, ActiveInLoop, Stage
<1>22. ASSUME WriteRevision PROVE Typed'
  BY <1>22, CheckpointTypes
  DEF WriteRevision, Typed, TypeOK, PC, Outcome, ActiveInLoop, Stage
<1>23. ASSUME RecordRevision PROVE Typed'
  BY <1>23 DEF RecordRevision, Typed, TypeOK, PC, Outcome, ActiveInLoop, Stage
<1>24. ASSUME RecheckFails PROVE Typed'
  BY <1>24, CheckpointTypes
  DEF RecheckFails, runDir, Typed, TypeOK, PC, Outcome, ActiveInLoop, Stage
<1>25. ASSUME Crash PROVE Typed'
  BY <1>25, CheckpointTypes
  DEF Crash, runDir, Typed, TypeOK, PC, Outcome, ActiveInLoop, Stage
<1>26. ASSUME UNCHANGED vars PROVE Typed'
  BY <1>26 DEF vars, Typed, TypeOK, PC, Outcome, ActiveInLoop, Stage
<1> QED
  BY <1>1, <1>2, <1>3, <1>4, <1>5, <1>6, <1>7, <1>8, <1>9, <1>10, <1>11, <1>12,
     <1>13, <1>14, <1>15, <1>16, <1>17, <1>18, <1>19, <1>20, <1>21, <1>22,
     <1>23, <1>24, <1>25, <1>26
  DEF Next, Worker, Save, Frontier, Recheck, Fault

(* Type correctness of the run directory and of every worker.              *)
THEOREM TypeCorrect == Spec => []TypeOK
<1>1. Init => Typed
  BY TypedInit
<1>2. Typed /\ [Next]_vars => Typed'
  BY TypedStep
<1>3. Typed => TypeOK
  BY DEF Typed
<1> QED
  BY <1>1, <1>2, <1>3, PTL DEF Spec

-----------------------------------------------------------------------------
(* Committed CHECKs stay closed under their upstreams                      *)

Closed(ck) == UpstreamClosed(Done(ck.completed))

\* Without a registered plan, a CHECK is attempted when every CHECK before it
\* is committed: what is left of the loop is what is not committed.
LoopOrder ==
    ~Registered =>
        \A t \in Thread :
            /\ Stage(t) \in {"plan_ready", "choose", "execute", "verify"}
                 => todo[t] = Check \ Done(latest[t].completed)
            /\ Stage(t) \in {"execute", "verify"} => latest[t].active = First(todo[t])

ClosedInv ==
    /\ Closed(ckpt) /\ Closed(draft)
    /\ \A t \in Thread : Closed(latest[t])
    /\ LoopOrder

LEMMA ClosedCheckpoints ==
    /\ Closed(Missing)
    /\ Closed(FirstCheckpoint)
    /\ \A ck \in Checkpoint : Closed(ck) =>
         /\ Closed(ResumedCheckpoint(ck))
         /\ Closed(FailedCheckpoint(ck))
         /\ Closed(ExhaustedCheckpoint(ck))
         /\ Closed(FinalCheckpoint(ck))
         /\ Closed(CommittedCheckpoint(ck, {}))
         /\ \A k \in Correction, x \in Check : Closed(RevisedCheckpoint(ck, k, x))
         /\ \A x \in Check : Closed([ck EXCEPT !.active = x])
<1>1. Closed(Missing) /\ Closed(FirstCheckpoint)
  BY DEF Closed, Missing, FirstCheckpoint, UpstreamClosed, Done
<1>2. ASSUME NEW ck \in Checkpoint, Closed(ck)
      PROVE  /\ Closed(ResumedCheckpoint(ck))
             /\ Closed(FailedCheckpoint(ck))
             /\ Closed(ExhaustedCheckpoint(ck))
             /\ Closed(FinalCheckpoint(ck))
             /\ Closed(CommittedCheckpoint(ck, {}))
             /\ \A x \in Check : Closed([ck EXCEPT !.active = x])
  <2>1. /\ ResumedCheckpoint(ck).completed = ck.completed
        /\ FailedCheckpoint(ck).completed = ck.completed
        /\ ExhaustedCheckpoint(ck).completed = ck.completed
        /\ CommittedCheckpoint(ck, {}).completed = ck.completed
        /\ \A x \in Check : [ck EXCEPT !.active = x].completed = ck.completed
    BY DEF Checkpoint, ResumedCheckpoint, FailedCheckpoint, ExhaustedCheckpoint,
           CommittedCheckpoint, AppendGroup
  <2>2. FinalCheckpoint(ck).completed = ck.completed
    BY DEF Checkpoint, FinalCheckpoint
  <2> QED
    BY <1>2, <2>1, <2>2 DEF Closed
<1>3. ASSUME NEW ck \in Checkpoint, Closed(ck), NEW k \in Correction, NEW x \in Check
      PROVE  Closed(RevisedCheckpoint(ck, k, x))
  <2>1. RevisedCheckpoint(ck, k, x).completed
          = [i \in DOMAIN ck.completed |-> ck.completed[i] \ Downstream(x)]
    BY DEF Checkpoint, RevisedCheckpoint
  <2>2. ck.completed \in Seq(SUBSET Check)
    BY DEF Checkpoint
  <2>3. Done(RevisedCheckpoint(ck, k, x).completed)
          = Done(ck.completed) \ Downstream(x)
    BY <2>1, <2>2, FilteredDone
  <2> QED
    BY <1>3, <2>2, <2>3, DoneType, DownstreamRemoved DEF Closed
<1> QED
  BY <1>1, <1>2, <1>3

\* A CHECK all of whose predecessors in the loop are committed has its
\* upstreams committed.
LEMMA FirstIsReady ==
    ASSUME NEW done \in SUBSET Check, UpstreamClosed(done), Check \ done # {}
    PROVE  LET x == First(Check \ done)
           IN  x \in Check /\ UpstreamClosed(done \cup {x})
<1> DEFINE x == First(Check \ done)
<1>1. x \in Check \ done /\ \A d \in Check \ done : Position[x] <= Position[d]
  BY FirstOf
<1>2. ASSUME NEW u \in Upstream[x] PROVE u \in done
  <2>1. u \in Check /\ Position[u] < Position[x]
    BY <1>1, PlanAssumption
  <2>2. Position[u] \in Nat /\ Position[x] \in Nat
    BY <1>1, <2>1, PlanAssumption
  <2> QED
    BY <1>1, <2>1, <2>2
<1> QED
  BY <1>1, <1>2 DEF UpstreamClosed

LEMMA ClosedStep ==
    ASSUME Registered \/ "store" \notin Faults, Typed, ClosedInv, [Next]_vars
    PROVE  ClosedInv'
<1> USE EnvironmentAssumption
<1>t. /\ ckpt \in Checkpoint /\ draft \in Checkpoint
      /\ \A t \in Thread : latest[t] \in Checkpoint
      /\ latest \in [Thread -> Checkpoint] /\ todo \in [Thread -> SUBSET Check]
      /\ pc \in [Thread -> PC] /\ after \in [Thread -> PC]
  BY DEF Typed, TypeOK
<1>1. ASSUME NEW t \in Thread, Begin(t) PROVE ClosedInv'
  BY <1>1, <1>t, ClosedCheckpoints DEF Begin, Goto, ClosedInv, LoopOrder, Stage
<1>2. ASSUME NEW t \in Thread, Report(t) PROVE ClosedInv'
  BY <1>2, <1>t, ClosedCheckpoints DEF Report, Retire, Goto, ClosedInv, LoopOrder, Stage
<1>3. ASSUME NEW t \in Thread, OrphanEnds(t) PROVE ClosedInv'
  BY <1>3, <1>t, ClosedCheckpoints
  DEF OrphanEnds, Retire, Goto, runDir, ClosedInv, LoopOrder, Stage
<1>4. ASSUME NEW t \in Thread, AdmitCheckpoint(t) PROVE ClosedInv'
  <2>1. ResumedCheckpoint(latest[t]).completed = latest[t].completed
    BY <1>t DEF ResumedCheckpoint, Checkpoint
  <2> QED
    BY <1>4, <1>t, <2>1, ClosedCheckpoints
    DEF AdmitCheckpoint, SaveThen, EndWith, Goto, runDir, ClosedInv, LoopOrder, Stage
<1>5. ASSUME NEW t \in Thread, WriteCheckpoint(t) PROVE ClosedInv'
  BY <1>5, <1>t, ClosedCheckpoints
  DEF WriteCheckpoint, Goto, ClosedInv, LoopOrder, Stage
<1>6. ASSUME NEW t \in Thread, RecordCheckpoint(t) PROVE ClosedInv'
  BY <1>6, <1>t, ClosedCheckpoints
  DEF RecordCheckpoint, Goto, ClosedInv, LoopOrder, Stage
<1>7. ASSUME NEW t \in Thread, PausePlanReady(t) PROVE ClosedInv'
  BY <1>7, <1>t, ClosedCheckpoints
  DEF PausePlanReady, EndWith, Goto, ClosedInv, LoopOrder, Stage
<1>8. ASSUME NEW t \in Thread, StartExecutor(t) PROVE ClosedInv'
  BY <1>8, <1>t, ClosedCheckpoints DEF StartExecutor, Goto, ClosedInv, LoopOrder, Stage
<1>9. ASSUME NEW t \in Thread, RollBackCheck(t) PROVE ClosedInv'
  BY <1>9, <1>t, ClosedCheckpoints
  DEF RollBackCheck, SaveThen, Goto, ClosedInv, LoopOrder, Stage
<1>10. ASSUME NEW t \in Thread, RollBackUnpaused(t) PROVE ClosedInv'
  BY <1>10, <1>t, ClosedCheckpoints
  DEF RollBackUnpaused, SaveThen, Goto, runDir, ClosedInv, LoopOrder, Stage
<1>11. ASSUME NEW t \in Thread, PauseFrontier(t) PROVE ClosedInv'
  BY <1>11, <1>t, ClosedCheckpoints
  DEF PauseFrontier, SaveThen, EndWith, Goto, ClosedInv, LoopOrder, Stage
<1>12. ASSUME NEW t \in Thread, FailFrontier(t) PROVE ClosedInv'
  BY <1>12, <1>t, ClosedCheckpoints
  DEF FailFrontier, SaveThen, Goto, runDir, ClosedInv, LoopOrder, Stage
<1>13. ASSUME NEW t \in Thread, FinishRun(t) PROVE ClosedInv'
  BY <1>13, <1>t, ClosedCheckpoints
  DEF FinishRun, SaveThen, Goto, runDir, ClosedInv, LoopOrder, Stage
<1>14. ASSUME NEW t \in Thread, StoreFails(t) PROVE ClosedInv'
  BY <1>14, <1>t, ClosedCheckpoints
  DEF StoreFails, EndWith, Goto, runDir, ClosedInv, LoopOrder, Stage
<1>15. ASSUME NEW t \in Thread, PlanReadyUnseen(t) PROVE ClosedInv'
  BY <1>15, <1>t, ClosedCheckpoints
  DEF PlanReadyUnseen, Goto, runDir, ClosedInv, LoopOrder, Stage
<1>16. ASSUME NEW t \in Thread, ReportFails(t) PROVE ClosedInv'
  BY <1>16, <1>t, ClosedCheckpoints
  DEF ReportFails, Retire, Goto, runDir, ClosedInv, LoopOrder, Stage
<1>17. ASSUME NEW t \in Thread, Abandon(t) PROVE ClosedInv'
  BY <1>17, <1>t, ClosedCheckpoints DEF Abandon, runDir, ClosedInv, LoopOrder, Stage
<1>18. ASSUME NEW t \in Thread, CompilePlan(t) PROVE ClosedInv'
  <2>1. Check \ Done(FirstCheckpoint.completed) = Check
    BY DEF FirstCheckpoint, Missing, Done
  <2> QED
    BY <1>18, <1>t, <2>1, ClosedCheckpoints
    DEF CompilePlan, SaveThen, EndWith, Goto, runDir, ClosedInv, LoopOrder, Stage
<1>19. ASSUME NEW t \in Thread, ChooseFrontier(t) PROVE ClosedInv'
  <2>1. CASE todo[t] = {}
    BY <1>19, <1>t, <2>1 DEF ChooseFrontier, Goto, runDir, ClosedInv, LoopOrder, Stage
  <2>2. CASE todo[t] # {}
    <3> DEFINE ck == [latest[t] EXCEPT !.active = First(todo[t])]
    <3>1. First(todo[t]) \in Check
      BY <1>t, <2>2, FirstOf
    <3>2. Closed(ck) /\ ck.active = First(todo[t]) /\ ck.completed = latest[t].completed
      BY <1>t, <3>1, ClosedCheckpoints DEF ClosedInv, Checkpoint
    <3>3. SaveThen(t, ck, "execute")
      BY <1>19, <2>2 DEF ChooseFrontier
    <3> HIDE DEF ck
    <3> QED
      BY <1>19, <1>t, <3>2, <3>3
      DEF ChooseFrontier, SaveThen, Goto, runDir, ClosedInv, LoopOrder, Stage
  <2> QED
    BY <2>1, <2>2
<1>20. ASSUME NEW t \in Thread, CommitFrontier(t) PROVE ClosedInv'
  <2> DEFINE done == Done(latest[t].completed)
  <2>1. done \in SUBSET Check /\ UpstreamClosed(done)
    BY <1>t, DoneType DEF ClosedInv, Closed, Checkpoint
  <2>2. Focus(t) \in SUBSET Check /\ Focus(t) \subseteq todo[t]
    BY <1>20, FocusType DEF CommitFrontier, Stage
  <2>3. PICK group \in SUBSET Check :
          /\ SaveThen(t, CommittedCheckpoint(latest[t], group), "choose")
          /\ UpstreamClosed(done \cup group)
          /\ ~Registered => /\ todo[t] = Check \ done
                            /\ Check \ (done \cup group) = todo[t] \ Focus(t)
    <3>1. PICK passed \in SUBSET Focus(t) :
            /\ ~Registered => passed # {}
            /\ SaveThen(t, CommittedCheckpoint(latest[t],
                             IF Registered THEN ReadyClosure(passed, done) ELSE passed),
                           "choose")
      BY <1>20 DEF CommitFrontier
    <3>2. CASE Registered
      BY <2>1, <2>2, <3>1, <3>2, ReadyClosureClosed
    <3>3. CASE ~Registered
      <4>1. /\ todo[t] = Check \ done
            /\ latest[t].active = First(todo[t])
            /\ latest[t].active \in todo[t]
        BY <1>20, <3>3
        DEF ClosedInv, LoopOrder, Typed, ActiveInLoop, Stage, CommitFrontier
      <4>2. passed = {First(Check \ done)} /\ Focus(t) = passed
        BY <3>1, <3>3, <4>1 DEF Focus
      <4>3. UpstreamClosed(done \cup passed)
        BY <2>1, <4>1, <4>2, FirstIsReady
      <4> QED
        BY <2>2, <3>1, <3>3, <4>1, <4>2, <4>3
    <3> QED
      BY <3>2, <3>3
  <2>4. CommittedCheckpoint(latest[t], group).completed
          = AppendGroup(latest[t].completed, group)
    BY <1>t DEF CommittedCheckpoint, Checkpoint
  <2>5. latest[t].completed \in Seq(SUBSET Check)
    BY <1>t DEF Checkpoint
  <2>6. Done(CommittedCheckpoint(latest[t], group).completed) = done \cup group
    BY <2>4, <2>5, AppendGroupDone
  <2>7. Closed(CommittedCheckpoint(latest[t], group))
    BY <2>3, <2>6 DEF Closed
  <2>8. todo' = [todo EXCEPT ![t] = IF Registered THEN {} ELSE @ \ Focus(t)]
    BY <1>20 DEF CommitFrontier
  <2>9. ~Registered => todo'[t] = Check \ Done(latest'[t].completed)
    BY <1>t, <2>3, <2>6, <2>8 DEF SaveThen
  <2>10. /\ \A u \in Thread : Closed(latest'[u])
         /\ UNCHANGED <<ckpt, draft>>
    BY <1>20, <1>t, <2>3, <2>7 DEF CommitFrontier, SaveThen, runDir, ClosedInv
  <2>11. LoopOrder'
    BY <1>t, <2>3, <2>8, <2>9 DEF SaveThen, Goto, ClosedInv, LoopOrder, Stage
  <2> QED
    BY <2>10, <2>11 DEF ClosedInv, Closed
<1>21. ASSUME NEW k \in Correction, NEW x \in Check, BeginRecheck(k, x) PROVE ClosedInv'
  BY <1>21, <1>t, ClosedCheckpoints
  DEF BeginRecheck, runDir, ClosedInv, LoopOrder, Stage
<1>22. ASSUME WriteRevision PROVE ClosedInv'
  BY <1>22, <1>t, ClosedCheckpoints DEF WriteRevision, ClosedInv, LoopOrder, Stage
<1>23. ASSUME RecordRevision PROVE ClosedInv'
  BY <1>23, <1>t, ClosedCheckpoints DEF RecordRevision, ClosedInv, LoopOrder, Stage
<1>24. ASSUME RecheckFails PROVE ClosedInv'
  BY <1>24, <1>t, ClosedCheckpoints
  DEF RecheckFails, runDir, ClosedInv, LoopOrder, Stage
<1>25. ASSUME Crash PROVE ClosedInv'
  BY <1>25, <1>t, ClosedCheckpoints DEF Crash, runDir, ClosedInv, LoopOrder, Stage
<1>26. ASSUME UNCHANGED vars PROVE ClosedInv'
  BY <1>26, <1>t, ClosedCheckpoints DEF vars, ClosedInv, LoopOrder, Stage
<1> QED
  BY <1>1, <1>2, <1>3, <1>4, <1>5, <1>6, <1>7, <1>8, <1>9, <1>10, <1>11, <1>12,
     <1>13, <1>14, <1>15, <1>16, <1>17, <1>18, <1>19, <1>20, <1>21, <1>22,
     <1>23, <1>24, <1>25, <1>26
  DEF Next, Worker, Save, Frontier, Recheck, Fault

(* CompletedClosed for every plan and every fault the build can meet: a       *)
(* registered plan commits ready closures; any other commits in plan order,   *)
(* which an unstored rollback event breaks.                                  *)
THEOREM CommittedWorkIsClosed ==
    ASSUME Registered \/ "store" \notin Faults
    PROVE  Spec => []CompletedClosed
<1>1. Init => Typed /\ ClosedInv
  BY TypedInit, ClosedCheckpoints DEF Init, ClosedInv, LoopOrder, Stage
<1>2. Typed /\ ClosedInv /\ [Next]_vars => (Typed /\ ClosedInv)'
  BY TypedStep, ClosedStep
<1>3. Typed /\ ClosedInv => CompletedClosed
  BY DEF ClosedInv, Closed, CompletedClosed
<1> QED
  BY <1>1, <1>2, <1>3, PTL DEF Spec

-----------------------------------------------------------------------------
(* A completed checkpoint covers the plan                                  *)

Sound(ck) ==
    ck.status = "completed" => ck.compile = "COMMITTED" /\ IsWholePlan(ck.completed)

\* Until it finishes, a worker's checkpoint is running: a frontier that fails
\* or is committed never inherits the status of a completed checkpoint.
SoundInv ==
    /\ Sound(ckpt) /\ Sound(draft)
    /\ \A t \in Thread :
         /\ Sound(latest[t])
         /\ Stage(t) \in {"plan_ready", "choose", "execute", "verify", "finish"}
              => latest[t].status = "running"

LEMMA SoundCheckpoints ==
    /\ Sound(Missing)
    /\ FirstCheckpoint.status = "running"
    /\ \A ck \in Checkpoint :
         /\ ck.status = "running" => Sound(ck)
         /\ ResumedCheckpoint(ck).status = "running"
         /\ FailedCheckpoint(ck).status = "failed" /\ Sound(FailedCheckpoint(ck))
         /\ ExhaustedCheckpoint(ck).status = ck.status
         /\ Sound(FinalCheckpoint(ck))
         /\ \A group : CommittedCheckpoint(ck, group).status = ck.status
         /\ \A k, x : RevisedCheckpoint(ck, k, x).status = "running"
         /\ \A x : [ck EXCEPT !.active = x].status = ck.status
<1>1. Sound(Missing) /\ FirstCheckpoint.status = "running"
  BY DEF Sound, Missing, FirstCheckpoint
<1>2. ASSUME NEW ck \in Checkpoint
      PROVE  /\ ck.status = "running" => Sound(ck)
             /\ ResumedCheckpoint(ck).status = "running"
             /\ FailedCheckpoint(ck).status = "failed"
             /\ Sound(FailedCheckpoint(ck))
             /\ ExhaustedCheckpoint(ck).status = ck.status
             /\ \A group : CommittedCheckpoint(ck, group).status = ck.status
             /\ \A k, x : RevisedCheckpoint(ck, k, x).status = "running"
             /\ \A x : [ck EXCEPT !.active = x].status = ck.status
  BY DEF Checkpoint, Sound, ResumedCheckpoint, FailedCheckpoint, ExhaustedCheckpoint,
         CommittedCheckpoint, RevisedCheckpoint
<1>3. ASSUME NEW ck \in Checkpoint PROVE Sound(FinalCheckpoint(ck))
  <2>1. CASE IsWholePlan(ck.completed)
    BY <2>1 DEF Sound, FinalCheckpoint, Checkpoint
  <2>2. CASE ~IsWholePlan(ck.completed)
    BY <2>2 DEF Sound, FinalCheckpoint, Checkpoint
  <2> QED
    BY <2>1, <2>2
<1> QED
  BY <1>1, <1>2, <1>3

\* What a step does to the checkpoint a worker carries, kept as a checkpoint.
LEMMA SoundStep ==
    ASSUME Typed, SoundInv, [Next]_vars
    PROVE  SoundInv'
<1> USE EnvironmentAssumption
<1>t. /\ ckpt \in Checkpoint /\ draft \in Checkpoint
      /\ \A t \in Thread : latest[t] \in Checkpoint
      /\ latest \in [Thread -> Checkpoint]
      /\ pc \in [Thread -> PC] /\ after \in [Thread -> PC]
  BY DEF Typed, TypeOK
<1>u. Typed'
  BY TypedStep
<1>v. \A t \in Thread : latest'[t] \in Checkpoint
  BY <1>u DEF Typed, TypeOK
<1>1. ASSUME NEW t \in Thread, Begin(t) PROVE SoundInv'
  BY <1>1, <1>t, <1>v, SoundCheckpoints DEF Begin, Goto, SoundInv, Stage
<1>2. ASSUME NEW t \in Thread, Report(t) PROVE SoundInv'
  BY <1>2, <1>t, <1>v, SoundCheckpoints DEF Report, Retire, Goto, SoundInv, Stage
<1>3. ASSUME NEW t \in Thread, OrphanEnds(t) PROVE SoundInv'
  BY <1>3, <1>t, <1>v, SoundCheckpoints
  DEF OrphanEnds, Retire, Goto, runDir, SoundInv, Stage
<1>4. ASSUME NEW t \in Thread, CompilePlan(t) PROVE SoundInv'
  BY <1>4, <1>t, <1>v, SoundCheckpoints
  DEF CompilePlan, SaveThen, EndWith, Goto, runDir, SoundInv, Stage
<1>5. ASSUME NEW t \in Thread, AdmitCheckpoint(t) PROVE SoundInv'
  BY <1>5, <1>t, <1>v, SoundCheckpoints
  DEF AdmitCheckpoint, SaveThen, EndWith, Goto, runDir, SoundInv, Stage
<1>6. ASSUME NEW t \in Thread, WriteCheckpoint(t) PROVE SoundInv'
  BY <1>6, <1>t, <1>v, SoundCheckpoints DEF WriteCheckpoint, Goto, SoundInv, Stage
<1>7. ASSUME NEW t \in Thread, RecordCheckpoint(t) PROVE SoundInv'
  BY <1>7, <1>t, <1>v, SoundCheckpoints DEF RecordCheckpoint, Goto, SoundInv, Stage
<1>8. ASSUME NEW t \in Thread, PausePlanReady(t) PROVE SoundInv'
  BY <1>8, <1>t, <1>v, SoundCheckpoints
  DEF PausePlanReady, EndWith, Goto, SoundInv, Stage
<1>9. ASSUME NEW t \in Thread, ChooseFrontier(t) PROVE SoundInv'
  <2>1. CASE todo[t] = {}
    BY <1>9, <1>t, <2>1 DEF ChooseFrontier, Goto, runDir, SoundInv, Stage
  <2>2. CASE todo[t] # {}
    <3> DEFINE ck == [latest[t] EXCEPT !.active = First(todo[t])]
    <3>1. ck.status = "running"
      BY <1>9, <1>t, SoundCheckpoints DEF ChooseFrontier, SoundInv, Stage
    <3>2. SaveThen(t, ck, "execute")
      BY <1>9, <2>2 DEF ChooseFrontier
    <3> HIDE DEF ck
    <3> QED
      BY <1>9, <1>t, <1>v, <3>1, <3>2, SoundCheckpoints
      DEF ChooseFrontier, SaveThen, Goto, runDir, SoundInv, Stage
  <2> QED
    BY <2>1, <2>2
<1>10. ASSUME NEW t \in Thread, StartExecutor(t) PROVE SoundInv'
  BY <1>10, <1>t, <1>v, SoundCheckpoints DEF StartExecutor, Goto, SoundInv, Stage
<1>11. ASSUME NEW t \in Thread, CommitFrontier(t) PROVE SoundInv'
  <2>1. PICK group : SaveThen(t, CommittedCheckpoint(latest[t], group), "choose")
    BY <1>11 DEF CommitFrontier
  <2>2. CommittedCheckpoint(latest[t], group).status = "running"
    BY <1>11, <1>t, SoundCheckpoints DEF CommitFrontier, SoundInv, Stage
  <2> QED
    BY <1>11, <1>t, <1>v, <2>1, <2>2, SoundCheckpoints
    DEF CommitFrontier, SaveThen, Goto, runDir, SoundInv, Stage
<1>12. ASSUME NEW t \in Thread, RollBackCheck(t) PROVE SoundInv'
  BY <1>12, <1>t, <1>v, SoundCheckpoints
  DEF RollBackCheck, SaveThen, Goto, SoundInv, Stage
<1>13. ASSUME NEW t \in Thread, RollBackUnpaused(t) PROVE SoundInv'
  BY <1>13, <1>t, <1>v, SoundCheckpoints
  DEF RollBackUnpaused, SaveThen, Goto, runDir, SoundInv, Stage
<1>14. ASSUME NEW t \in Thread, PauseFrontier(t) PROVE SoundInv'
  <2>1. CASE Registered
    BY <1>14, <1>t, <2>1, SoundCheckpoints
    DEF PauseFrontier, SaveThen, Goto, SoundInv, Stage
  <2>2. CASE ~Registered
    BY <1>14, <1>t, <2>2 DEF PauseFrontier, EndWith, Goto, SoundInv, Stage
  <2> QED
    BY <2>1, <2>2
<1>15. ASSUME NEW t \in Thread, FailFrontier(t) PROVE SoundInv'
  BY <1>15, <1>t, <1>v, SoundCheckpoints
  DEF FailFrontier, SaveThen, Goto, runDir, SoundInv, Stage
<1>16. ASSUME NEW t \in Thread, FinishRun(t) PROVE SoundInv'
  BY <1>16, <1>t, <1>v, SoundCheckpoints
  DEF FinishRun, SaveThen, Goto, runDir, SoundInv, Stage
<1>17. ASSUME NEW t \in Thread, StoreFails(t) PROVE SoundInv'
  BY <1>17, <1>t, <1>v, SoundCheckpoints
  DEF StoreFails, EndWith, Goto, runDir, SoundInv, Stage
<1>18. ASSUME NEW t \in Thread, PlanReadyUnseen(t) PROVE SoundInv'
  BY <1>18, <1>t, <1>v, SoundCheckpoints
  DEF PlanReadyUnseen, Goto, runDir, SoundInv, Stage
<1>19. ASSUME NEW t \in Thread, ReportFails(t) PROVE SoundInv'
  BY <1>19, <1>t, <1>v, SoundCheckpoints
  DEF ReportFails, Retire, Goto, runDir, SoundInv, Stage
<1>20. ASSUME NEW t \in Thread, Abandon(t) PROVE SoundInv'
  BY <1>20, <1>t, <1>v, SoundCheckpoints DEF Abandon, runDir, SoundInv, Stage
<1>21. ASSUME NEW k \in Correction, NEW x \in Check, BeginRecheck(k, x) PROVE SoundInv'
  BY <1>21, <1>t, <1>u, SoundCheckpoints
  DEF BeginRecheck, runDir, SoundInv, Stage, Typed, TypeOK
<1>22. ASSUME WriteRevision PROVE SoundInv'
  BY <1>22, <1>t, <1>u, SoundCheckpoints
  DEF WriteRevision, SoundInv, Stage, Typed, TypeOK
<1>23. ASSUME RecordRevision PROVE SoundInv'
  BY <1>23, <1>t, <1>u, SoundCheckpoints
  DEF RecordRevision, SoundInv, Stage, Typed, TypeOK
<1>24. ASSUME RecheckFails PROVE SoundInv'
  BY <1>24, <1>t, <1>u, SoundCheckpoints
  DEF RecheckFails, runDir, SoundInv, Stage, Typed, TypeOK
<1>25. ASSUME Crash PROVE SoundInv'
  BY <1>25, <1>t, <1>u, SoundCheckpoints
  DEF Crash, runDir, SoundInv, Stage, Typed, TypeOK
<1>26. ASSUME UNCHANGED vars PROVE SoundInv'
  BY <1>26, <1>t, <1>u, SoundCheckpoints DEF vars, SoundInv, Stage, Typed, TypeOK
<1> QED
  BY <1>1, <1>2, <1>3, <1>4, <1>5, <1>6, <1>7, <1>8, <1>9, <1>10, <1>11, <1>12,
     <1>13, <1>14, <1>15, <1>16, <1>17, <1>18, <1>19, <1>20, <1>21, <1>22,
     <1>23, <1>24, <1>25, <1>26
  DEF Next, Worker, Save, Frontier, Recheck, Fault

(* A completed checkpoint is COMMITTED and covers the whole plan, whatever   *)
(* crashes, is abandoned, or is revised on the way.                          *)
THEOREM CompletedCoversPlan == Spec => []CompletedIsWhole
<1>1. Init => Typed /\ SoundInv
  BY TypedInit, SoundCheckpoints, CheckpointTypes DEF Init, SoundInv, Stage
<1>2. Typed /\ SoundInv /\ [Next]_vars => (Typed /\ SoundInv)'
  BY TypedStep, SoundStep
<1>3. Typed /\ SoundInv => CompletedIsWhole
  BY DEF SoundInv, Sound, CompletedIsWhole
<1> QED
  BY <1>1, <1>2, <1>3, PTL DEF Spec

-----------------------------------------------------------------------------
(* The saved checkpoint only moves forward                                 *)

\* new keeps the corrections of old and all of its committed CHECKs.
Continues(new, old) ==
    /\ new.revision >= old.revision
    /\ new.corrections = old.corrections
    /\ Done(old.completed) \subseteq Done(new.completed)

\* new may replace old as the saved checkpoint.
Follows(new, old) ==
    /\ new.revision >= old.revision
    /\ old.corrections \subseteq new.corrections
    /\ \/ Done(old.completed) \subseteq Done(new.completed)
       \/ new.corrections # old.corrections

\* The tool call in progress is the only writer, and what it holds follows
\* what is saved.  Abandoning a worker breaks this.
OneWriter ==
    /\ \A t \in Thread : pc[t] # "idle" => tool = t /\ Follows(latest[t], ckpt)
    /\ draft # Missing => tool = Rechecking /\ Follows(draft, ckpt)

LEMMA ContinuesFollows ==
    ASSUME NEW new \in Checkpoint, NEW mid \in Checkpoint, NEW old \in Checkpoint,
           Follows(mid, old), Continues(new, mid)
    PROVE  Follows(new, old)
<1>1. new.revision \in Nat /\ mid.revision \in Nat /\ old.revision \in Nat
  BY DEF Checkpoint
<1> QED
  BY <1>1 DEF Follows, Continues

LEMMA FollowsItself == ASSUME NEW ck \in Checkpoint PROVE Follows(ck, ck)
<1>1. ck.revision \in Nat
  BY DEF Checkpoint
<1> QED
  BY <1>1 DEF Follows

LEMMA ContinuingCheckpoints ==
    /\ Continues(FirstCheckpoint, Missing)
    /\ \A ck \in Checkpoint :
         /\ Continues(ResumedCheckpoint(ck), ck)
         /\ Continues(FailedCheckpoint(ck), ck)
         /\ Continues(ExhaustedCheckpoint(ck), ck)
         /\ Continues(FinalCheckpoint(ck), ck)
         /\ \A group \in SUBSET Check : Continues(CommittedCheckpoint(ck, group), ck)
         /\ \A x \in Check : Continues([ck EXCEPT !.active = x], ck)
         /\ \A k \in Correction \ ck.corrections, x \in Check :
              Follows(RevisedCheckpoint(ck, k, x), ck)
<1>1. Continues(FirstCheckpoint, Missing)
  BY DEF Continues, FirstCheckpoint, Missing
<1>2. ASSUME NEW ck \in Checkpoint
      PROVE  /\ Continues(ResumedCheckpoint(ck), ck)
             /\ Continues(FailedCheckpoint(ck), ck)
             /\ Continues(ExhaustedCheckpoint(ck), ck)
             /\ \A x \in Check : Continues([ck EXCEPT !.active = x], ck)
  BY DEF Checkpoint, Continues, ResumedCheckpoint, FailedCheckpoint, ExhaustedCheckpoint
<1>3. ASSUME NEW ck \in Checkpoint PROVE Continues(FinalCheckpoint(ck), ck)
  BY DEF Checkpoint, Continues, FinalCheckpoint
<1>4. ASSUME NEW ck \in Checkpoint, NEW group \in SUBSET Check
      PROVE  Continues(CommittedCheckpoint(ck, group), ck)
  <2>1. ck.completed \in Seq(SUBSET Check) /\ ck.revision \in Nat
    BY DEF Checkpoint
  <2>2. Done(ck.completed) \subseteq Done(AppendGroup(ck.completed, group))
    BY <2>1, AppendGroupDone
  <2> QED
    BY <2>1, <2>2 DEF Continues, CommittedCheckpoint, Checkpoint
<1>5. ASSUME NEW ck \in Checkpoint, NEW k \in Correction \ ck.corrections, NEW x \in Check
      PROVE  Follows(RevisedCheckpoint(ck, k, x), ck)
  <2>1. /\ RevisedCheckpoint(ck, k, x).revision = ck.revision + 1
        /\ RevisedCheckpoint(ck, k, x).corrections = ck.corrections \cup {k}
        /\ ck.revision \in Nat
    BY DEF RevisedCheckpoint, Checkpoint
  <2> QED
    BY <2>1 DEF Follows
<1> QED
  BY <1>1, <1>2, <1>3, <1>4, <1>5

LEMMA OneWriterStep ==
    ASSUME "abandon" \notin Faults, Typed, OneWriter, [Next]_vars
    PROVE  OneWriter'
<1> USE EnvironmentAssumption
<1>t. /\ ckpt \in Checkpoint /\ draft \in Checkpoint
      /\ \A t \in Thread : latest[t] \in Checkpoint
      /\ latest \in [Thread -> Checkpoint] /\ pc \in [Thread -> PC]
  BY DEF Typed, TypeOK
<1>u. \A t \in Thread : latest'[t] \in Checkpoint
  BY TypedStep DEF Typed, TypeOK
<1>s. ASSUME NEW t \in Thread, pc[t] # "idle",
             \A u \in Thread \ {t} : pc'[u] = pc[u] /\ latest'[u] = latest[u],
             Continues(latest'[t], latest[t]), UNCHANGED <<ckpt, tool, draft>>
      PROVE  OneWriter'
  BY <1>s, <1>t, <1>u, ContinuesFollows DEF OneWriter
<1>m. ASSUME NEW t \in Thread, pc[t] # "idle",
             \A u \in Thread \ {t} : pc'[u] = pc[u],
             UNCHANGED <<latest, ckpt, tool, draft>>
      PROVE  OneWriter'
  BY <1>m DEF OneWriter
<1>1. ASSUME NEW t \in Thread, Begin(t) PROVE OneWriter'
  BY <1>1, <1>t, FollowsItself DEF Begin, Goto, OneWriter
<1>2. ASSUME NEW t \in Thread, Report(t) PROVE OneWriter'
  BY <1>2, <1>t DEF Report, Retire, Goto, OneWriter
<1>3. ASSUME NEW t \in Thread, ReportFails(t) PROVE OneWriter'
  BY <1>3, <1>t DEF ReportFails, Retire, Goto, runDir, OneWriter
<1>4. ASSUME NEW t \in Thread, OrphanEnds(t) PROVE OneWriter'
  BY <1>4, <1>t DEF OrphanEnds, Retire, Goto, runDir, OneWriter
<1>5. ASSUME NEW t \in Thread, RecordCheckpoint(t) PROVE OneWriter'
  BY <1>5, <1>t, <1>m DEF RecordCheckpoint, Goto
<1>6. ASSUME NEW t \in Thread, PausePlanReady(t) PROVE OneWriter'
  BY <1>6, <1>t, <1>m DEF PausePlanReady, EndWith, Goto
<1>7. ASSUME NEW t \in Thread, StartExecutor(t) PROVE OneWriter'
  BY <1>7, <1>t, <1>m DEF StartExecutor, Goto
<1>8. ASSUME NEW t \in Thread, StoreFails(t) PROVE OneWriter'
  BY <1>8, <1>t, <1>m DEF StoreFails, EndWith, Goto, runDir
<1>9. ASSUME NEW t \in Thread, PlanReadyUnseen(t) PROVE OneWriter'
  BY <1>9, <1>t, <1>m DEF PlanReadyUnseen, Goto, runDir
<1>10. ASSUME NEW t \in Thread, WriteCheckpoint(t) PROVE OneWriter'
  BY <1>10, <1>t, FollowsItself DEF WriteCheckpoint, Goto, OneWriter
<1>11. ASSUME NEW t \in Thread, RollBackCheck(t) PROVE OneWriter'
  <2>1. Continues(ExhaustedCheckpoint(latest[t]), latest[t])
    BY <1>t, ContinuingCheckpoints
  <2>2. latest' = [latest EXCEPT ![t] = ExhaustedCheckpoint(latest[t])]
    BY <1>11 DEF RollBackCheck, SaveThen
  <2> QED
    BY <1>11, <1>t, <1>s, <2>1, <2>2 DEF RollBackCheck, SaveThen, Goto
<1>12. ASSUME NEW t \in Thread, FailFrontier(t) PROVE OneWriter'
  <2>1. Continues(FailedCheckpoint(latest[t]), latest[t])
    BY <1>t, ContinuingCheckpoints
  <2>2. latest' = [latest EXCEPT ![t] = FailedCheckpoint(latest[t])]
    BY <1>12 DEF FailFrontier, SaveThen
  <2> QED
    BY <1>12, <1>t, <1>s, <2>1, <2>2 DEF FailFrontier, SaveThen, Goto, runDir
<1>13. ASSUME NEW t \in Thread, FinishRun(t) PROVE OneWriter'
  <2>1. Continues(FinalCheckpoint(latest[t]), latest[t])
    BY <1>t, ContinuingCheckpoints
  <2>2. latest' = [latest EXCEPT ![t] = FinalCheckpoint(latest[t])]
    BY <1>13 DEF FinishRun, SaveThen
  <2> QED
    BY <1>13, <1>t, <1>s, <2>1, <2>2 DEF FinishRun, SaveThen, Goto, runDir
<1>14. ASSUME NEW t \in Thread, RollBackUnpaused(t) PROVE OneWriter'
  <2>1. Continues(CommittedCheckpoint(latest[t], {}), latest[t])
    BY <1>t, ContinuingCheckpoints
  <2>2. latest' = [latest EXCEPT ![t] = CommittedCheckpoint(latest[t], {})]
    BY <1>14 DEF RollBackUnpaused, SaveThen
  <2> QED
    BY <1>14, <1>t, <1>s, <2>1, <2>2 DEF RollBackUnpaused, SaveThen, Goto, runDir
<1>15. ASSUME NEW t \in Thread, CommitFrontier(t) PROVE OneWriter'
  <2>1. Focus(t) \in SUBSET Check
    BY <1>15, FocusType DEF CommitFrontier, Stage
  <2>2. PICK group \in SUBSET Focus(t) :
          SaveThen(t, CommittedCheckpoint(latest[t], group), "choose")
    BY <1>15 DEF CommitFrontier, ReadyClosure
  <2>3. Continues(CommittedCheckpoint(latest[t], group), latest[t])
    BY <1>t, <2>1, ContinuingCheckpoints
  <2> QED
    BY <1>15, <1>t, <1>s, <2>2, <2>3 DEF CommitFrontier, SaveThen, Goto, runDir
<1>16. ASSUME NEW t \in Thread, ChooseFrontier(t) PROVE OneWriter'
  <2>1. CASE todo[t] = {}
    BY <1>16, <1>t, <1>m, <2>1 DEF ChooseFrontier, Goto, runDir
  <2>2. CASE todo[t] # {}
    <3> DEFINE ck == [latest[t] EXCEPT !.active = First(todo[t])]
    <3>1. First(todo[t]) \in Check
      BY <2>2, FirstOf DEF Typed, TypeOK
    <3>2. Continues(ck, latest[t])
      BY <1>t, <3>1, ContinuingCheckpoints
    <3>3. SaveThen(t, ck, "execute")
      BY <1>16, <2>2 DEF ChooseFrontier
    <3> HIDE DEF ck
    <3> QED
      BY <1>16, <1>t, <1>s, <3>2, <3>3 DEF ChooseFrontier, SaveThen, Goto, runDir
  <2> QED
    BY <2>1, <2>2
<1>17. ASSUME NEW t \in Thread, PauseFrontier(t) PROVE OneWriter'
  <2>1. CASE Registered
    <3>1. Continues(FailedCheckpoint(latest[t]), latest[t])
      BY <1>t, ContinuingCheckpoints
    <3>2. SaveThen(t, FailedCheckpoint(latest[t]), "ended")
      BY <1>17, <2>1 DEF PauseFrontier
    <3> QED
      BY <1>17, <1>t, <1>s, <3>1, <3>2 DEF PauseFrontier, SaveThen, Goto
  <2>2. CASE ~Registered
    BY <1>17, <1>t, <1>m, <2>2 DEF PauseFrontier, EndWith, Goto
  <2> QED
    BY <2>1, <2>2
<1>18. ASSUME NEW t \in Thread, CompilePlan(t) PROVE OneWriter'
  <2>1. CASE SaveThen(t, FirstCheckpoint, "plan_ready")
    <3>1. Continues(FirstCheckpoint, latest[t])
      BY <1>18, ContinuingCheckpoints DEF CompilePlan
    <3> QED
      BY <1>18, <1>t, <1>s, <2>1, <3>1 DEF CompilePlan, SaveThen, Goto, runDir
  <2>2. CASE \E how \in {"paused", "error"} : EndWith(t, how) /\ UNCHANGED latest
    BY <1>18, <1>t, <1>m, <2>2 DEF CompilePlan, EndWith, Goto, runDir
  <2> QED
    BY <1>18, <2>1, <2>2 DEF CompilePlan
<1>19. ASSUME NEW t \in Thread, AdmitCheckpoint(t) PROVE OneWriter'
  <2>1. CASE SaveThen(t, ResumedCheckpoint(latest[t]), "choose")
    <3>1. Continues(ResumedCheckpoint(latest[t]), latest[t])
      BY <1>t, ContinuingCheckpoints
    <3> QED
      BY <1>19, <1>t, <1>s, <2>1, <3>1 DEF AdmitCheckpoint, SaveThen, Goto, runDir
  <2>2. CASE EndWith(t, "error") /\ UNCHANGED latest
    BY <1>19, <1>t, <1>m, <2>2 DEF AdmitCheckpoint, EndWith, Goto, runDir
  <2> QED
    BY <1>19, <2>1, <2>2 DEF AdmitCheckpoint
<1>20. ASSUME NEW t \in Thread, Abandon(t) PROVE OneWriter'
  BY <1>20 DEF Abandon
<1>21. ASSUME NEW k \in Correction, NEW x \in Check, BeginRecheck(k, x) PROVE OneWriter'
  <2>1. Follows(draft', ckpt)
    BY <1>21, <1>t, FollowsItself, ContinuingCheckpoints DEF BeginRecheck
  <2> QED
    BY <1>21, <2>1 DEF BeginRecheck, runDir, OneWriter
<1>22. ASSUME WriteRevision PROVE OneWriter'
  BY <1>22, <1>t DEF WriteRevision, OneWriter
<1>23. ASSUME RecordRevision PROVE OneWriter'
  BY <1>23, <1>t DEF RecordRevision, OneWriter
<1>24. ASSUME RecheckFails PROVE OneWriter'
  BY <1>24, <1>t DEF RecheckFails, runDir, OneWriter
<1>25. ASSUME Crash PROVE OneWriter'
  BY <1>25, <1>t DEF Crash, runDir, OneWriter
<1>26. ASSUME UNCHANGED vars PROVE OneWriter'
  BY <1>26, <1>t DEF vars, OneWriter
<1> QED
  BY <1>1, <1>2, <1>3, <1>4, <1>5, <1>6, <1>7, <1>8, <1>9, <1>10, <1>11, <1>12,
     <1>13, <1>14, <1>15, <1>16, <1>17, <1>18, <1>19, <1>20, <1>21, <1>22,
     <1>23, <1>24, <1>25, <1>26
  DEF Next, Worker, Save, Frontier, Recheck, Fault

\* Only two actions replace the saved checkpoint.
LEMMA SavedFollows ==
    ASSUME Typed, OneWriter, [Next]_vars
    PROVE  ckpt' = ckpt \/ Follows(ckpt', ckpt)
<1>1. ASSUME NEW t \in Thread, WriteCheckpoint(t) PROVE Follows(ckpt', ckpt)
  BY <1>1 DEF WriteCheckpoint, OneWriter
<1>2. ASSUME WriteRevision PROVE Follows(ckpt', ckpt)
  BY <1>2 DEF WriteRevision, OneWriter
<1>3. CASE ~WriteRevision /\ \A t \in Thread : ~WriteCheckpoint(t)
  BY <1>3
  DEF Next, Begin, Worker, CompilePlan, AdmitCheckpoint, Save, RecordCheckpoint,
      PausePlanReady, Frontier, ChooseFrontier, StartExecutor, CommitFrontier,
      RollBackCheck, RollBackUnpaused, PauseFrontier, FailFrontier, FinishRun,
      Report, OrphanEnds, Recheck, BeginRecheck, RecordRevision, Fault, Crash,
      StoreFails, PlanReadyUnseen, ReportFails, RecheckFails, Abandon, runDir, vars
<1> QED
  BY <1>1, <1>2, <1>3

\* Every save of a run continues what is on disk.
LEMMA CheckpointsFollow ==
    ASSUME "abandon" \notin Faults
    PROVE  Spec => [][Follows(ckpt', ckpt)]_ckpt
<1>1. Init => Typed /\ OneWriter
  BY TypedInit DEF Init, OneWriter
<1>2. Typed /\ OneWriter /\ [Next]_vars => (Typed /\ OneWriter)'
  BY TypedStep, OneWriterStep
<1>3. Typed /\ OneWriter /\ [Next]_vars => [Follows(ckpt', ckpt)]_ckpt
  BY SavedFollows
<1> QED
  BY <1>1, <1>2, <1>3, PTL DEF Spec

(* While every worker is awaited, whatever crashes and whatever cannot be     *)
(* stored, the saved revision never goes back, no correction is lost, and     *)
(* committed CHECKs are lost only to a further correction.                    *)
THEOREM CheckpointsAppendOnly ==
    ASSUME "abandon" \notin Faults
    PROVE  Spec => AppendOnly
<1>1. [Follows(ckpt', ckpt)]_ckpt
        => [/\ ckpt'.revision >= ckpt.revision
            /\ ckpt.corrections \subseteq ckpt'.corrections
            /\ \/ Done(ckpt.completed) \subseteq Done(ckpt'.completed)
               \/ ckpt'.corrections # ckpt.corrections]_ckpt
  BY DEF Follows
<1> QED
  BY <1>1, CheckpointsFollow, PTL DEF AppendOnly

-----------------------------------------------------------------------------
(* A recorded retry-exhausted pause                                        *)

\* A worker runs only in a run that was requested and is not paused for good.
StopInv ==
    /\ \A t \in Thread : pc[t] # "idle" => requested /\ tail # "exhausted"
    /\ tail = "exhausted" => requested

LEMMA StopStep ==
    ASSUME Typed, OneWriter, StopInv, [Next]_vars
    PROVE  StopInv'
<1>t. pc \in [Thread -> PC] /\ requested \in BOOLEAN
  BY DEF Typed, TypeOK
\* a step of a running worker that leaves the pause alone
<1>s. ASSUME NEW t \in Thread, pc[t] # "idle", UNCHANGED requested,
             \A u \in Thread \ {t} : pc'[u] = pc[u], tail' \in {tail, "other"}
      PROVE  StopInv'
  BY <1>s DEF StopInv
<1>1. ASSUME NEW t \in Thread, Begin(t) PROVE StopInv'
  BY <1>1, <1>t DEF Begin, Goto, StopInv
<1>2. ASSUME NEW t \in Thread, Report(t) PROVE StopInv'
  <2>1. pc'[t] = "idle" /\ requested' = requested /\ requested
    BY <1>2, <1>t DEF Report, Retire, Goto, StopInv
  <2>2. \A u \in Thread : pc'[u] = "idle"
    BY <1>2, <1>t, <2>1 DEF Report, Retire, Goto, OneWriter
  <2> QED
    BY <2>1, <2>2 DEF StopInv
<1>3. ASSUME NEW t \in Thread, ReportFails(t) PROVE StopInv'
  BY <1>3, <1>t, <1>s DEF ReportFails, Retire, Goto, runDir
<1>4. ASSUME NEW t \in Thread, OrphanEnds(t) PROVE StopInv'
  BY <1>4, <1>t, <1>s DEF OrphanEnds, Retire, Goto, runDir
<1>5. ASSUME NEW t \in Thread, Save(t) \/ CompilePlan(t) \/ AdmitCheckpoint(t)
      PROVE  StopInv'
  BY <1>5, <1>t, <1>s
  DEF Save, WriteCheckpoint, RecordCheckpoint, CompilePlan, AdmitCheckpoint,
      SaveThen, EndWith, Goto, runDir
<1>6. ASSUME NEW t \in Thread, Frontier(t) PROVE StopInv'
  BY <1>6, <1>t, <1>s
  DEF Frontier, ChooseFrontier, StartExecutor, CommitFrontier, RollBackCheck,
      RollBackUnpaused, PauseFrontier, FailFrontier, SaveThen, EndWith, Goto, runDir
<1>7. ASSUME NEW t \in Thread,
             PausePlanReady(t) \/ PlanReadyUnseen(t) \/ FinishRun(t) \/ StoreFails(t)
      PROVE  StopInv'
  BY <1>7, <1>t, <1>s
  DEF PausePlanReady, PlanReadyUnseen, FinishRun, StoreFails, SaveThen, EndWith, Goto, runDir
<1>8. ASSUME Recheck \/ RecheckFails \/ \E t \in Thread : Abandon(t) PROVE StopInv'
  BY <1>8
  DEF Recheck, BeginRecheck, WriteRevision, RecordRevision, RecheckFails, Abandon, runDir, StopInv
<1>9. ASSUME Crash PROVE StopInv'
  BY <1>9 DEF Crash, runDir, StopInv
<1>10. ASSUME UNCHANGED vars PROVE StopInv'
  BY <1>10 DEF vars, StopInv
<1> QED
  BY <1>1, <1>2, <1>3, <1>4, <1>5, <1>6, <1>7, <1>8, <1>9, <1>10
  DEF Next, Worker, Fault

(* While every worker is awaited, a retry-exhausted pause that was recorded   *)
(* lets nothing run until a recheck has recorded its event.                   *)
THEOREM ExhaustedPauseHolds ==
    ASSUME "abandon" \notin Faults
    PROVE  Spec => []ExhaustedStops
<1>1. Init => Typed /\ OneWriter /\ StopInv
  BY TypedInit DEF Init, OneWriter, StopInv
<1>2. Typed /\ OneWriter /\ StopInv /\ [Next]_vars => (Typed /\ OneWriter /\ StopInv)'
  BY TypedStep, OneWriterStep, StopStep
<1>3. StopInv => ExhaustedStops
  BY DEF StopInv, ExhaustedStops
<1> QED
  BY <1>1, <1>2, <1>3, PTL DEF Spec

-----------------------------------------------------------------------------
(* The saved list stays in plan order where upstreams leave no choice      *)

\* Every CHECK consumes, directly or not, all CHECKs before it: what is closed
\* under upstreams is the beginning of the plan.
PlanIsForced ==
    \A S \in SUBSET Check :
        UpstreamClosed(S) =>
            \A c \in S, d \in Check : Position[d] < Position[c] => d \in S

Sorted(ck) == InPlanOrder(ck.completed)

\* A loop attempts no CHECK that is committed.
LoopIsFresh ==
    \A t \in Thread :
        Stage(t) \in {"plan_ready", "choose", "execute", "verify"}
            => todo[t] \cap Done(latest[t].completed) = {}

SortedInv ==
    /\ Sorted(ckpt) /\ Sorted(draft)
    /\ \A t \in Thread : Sorted(latest[t])
    /\ LoopIsFresh

\* A group of later CHECKs goes to the end of a list in plan order.
LEMMA AppendGroupSorted ==
    ASSUME NEW list \in Seq(SUBSET Check), NEW group \in SUBSET Check, InPlanOrder(list),
           \A c \in Done(list), d \in group : Position[c] < Position[d]
    PROVE  InPlanOrder(AppendGroup(list, group))
<1>1. CASE group = {}
  BY <1>1 DEF AppendGroup
<1>2. CASE group # {}
  <2> DEFINE more == Append(list, group)
  <2>1. AppendGroup(list, group) = more
    BY <1>2 DEF AppendGroup
  <2>2. /\ Len(list) \in Nat /\ DOMAIN list = 1 .. Len(list)
        /\ DOMAIN more = 1 .. Len(list) + 1
        /\ \A i \in 1 .. Len(list) : more[i] = list[i]
        /\ more[Len(list) + 1] = group
    OBVIOUS
  <2> HIDE DEF more
  <2>3. ASSUME NEW i \in DOMAIN more, NEW j \in DOMAIN more, i < j,
               NEW c \in more[i], NEW d \in more[j]
        PROVE  Position[c] < Position[d]
    <3>1. i \in DOMAIN list /\ c \in list[i]
      BY <2>2, <2>3
    <3>2. CASE j \in DOMAIN list
      BY <2>2, <2>3, <3>1, <3>2 DEF InPlanOrder
    <3>3. CASE j \notin DOMAIN list
      <4>1. d \in group
        BY <2>2, <2>3, <3>3
      <4>2. c \in Done(list)
        BY <3>1 DEF Done
      <4> QED
        BY <4>1, <4>2
    <3> QED
      BY <3>2, <3>3
  <2> QED
    BY <2>1, <2>3 DEF InPlanOrder
<1> QED
  BY <1>1, <1>2

LEMMA SortedCheckpoints ==
    /\ Sorted(Missing) /\ Done(Missing.completed) = {}
    /\ Sorted(FirstCheckpoint) /\ Done(FirstCheckpoint.completed) = {}
    /\ \A ck \in Checkpoint :
         /\ ResumedCheckpoint(ck).completed = ck.completed
         /\ FailedCheckpoint(ck).completed = ck.completed
         /\ ExhaustedCheckpoint(ck).completed = ck.completed
         /\ FinalCheckpoint(ck).completed = ck.completed
         /\ CommittedCheckpoint(ck, {}).completed = ck.completed
         /\ \A x \in Check : [ck EXCEPT !.active = x].completed = ck.completed
         /\ \A k \in Correction, x \in Check :
              Sorted(ck) => Sorted(RevisedCheckpoint(ck, k, x))
<1>1. /\ Sorted(Missing) /\ Done(Missing.completed) = {}
      /\ Sorted(FirstCheckpoint) /\ Done(FirstCheckpoint.completed) = {}
  BY DEF Sorted, Missing, FirstCheckpoint, InPlanOrder, Done
<1>2. ASSUME NEW ck \in Checkpoint
      PROVE  /\ ResumedCheckpoint(ck).completed = ck.completed
             /\ FailedCheckpoint(ck).completed = ck.completed
             /\ ExhaustedCheckpoint(ck).completed = ck.completed
             /\ CommittedCheckpoint(ck, {}).completed = ck.completed
             /\ \A x \in Check : [ck EXCEPT !.active = x].completed = ck.completed
  BY DEF Checkpoint, ResumedCheckpoint, FailedCheckpoint, ExhaustedCheckpoint,
         CommittedCheckpoint, AppendGroup
<1>3. ASSUME NEW ck \in Checkpoint PROVE FinalCheckpoint(ck).completed = ck.completed
  BY DEF Checkpoint, FinalCheckpoint
<1>4. ASSUME NEW ck \in Checkpoint, NEW k \in Correction, NEW x \in Check, Sorted(ck)
      PROVE  Sorted(RevisedCheckpoint(ck, k, x))
  <2>1. RevisedCheckpoint(ck, k, x).completed
          = [i \in DOMAIN ck.completed |-> ck.completed[i] \ Downstream(x)]
    BY DEF Checkpoint, RevisedCheckpoint
  <2> QED
    BY <1>4, <2>1 DEF Sorted, InPlanOrder
<1> QED
  BY <1>1, <1>2, <1>3, <1>4

LEMMA SortedStep ==
    ASSUME PlanIsForced, Typed, ClosedInv, SortedInv, [Next]_vars
    PROVE  SortedInv'
<1> USE EnvironmentAssumption
<1>t. /\ ckpt \in Checkpoint /\ draft \in Checkpoint
      /\ \A t \in Thread : latest[t] \in Checkpoint
      /\ latest \in [Thread -> Checkpoint] /\ todo \in [Thread -> SUBSET Check]
      /\ pc \in [Thread -> PC] /\ after \in [Thread -> PC]
  BY DEF Typed, TypeOK
\* a step of one worker that commits nothing and attempts no more
<1>s. ASSUME NEW t \in Thread, UNCHANGED <<ckpt, draft>>,
             latest' \in [Thread -> Checkpoint],
             latest'[t].completed = latest[t].completed,
             \A u \in Thread \ {t} : /\ latest'[u] = latest[u] /\ todo'[u] = todo[u]
                                     /\ pc'[u] = pc[u] /\ after'[u] = after[u],
             Stage(t)' \in {"plan_ready", "choose", "execute", "verify"}
               => \/ todo'[t] \subseteq todo[t]
                     /\ Stage(t) \in {"plan_ready", "choose", "execute", "verify"}
                  \/ todo'[t] \cap Done(latest[t].completed) = {}
      PROVE  SortedInv'
  <2>1. Sorted(ckpt)' /\ Sorted(draft)' /\ \A u \in Thread : Sorted(latest[u])'
    BY <1>s DEF SortedInv, Sorted
  <2>2. ASSUME NEW u \in Thread, Stage(u)' \in {"plan_ready", "choose", "execute", "verify"}
        PROVE  todo'[u] \cap Done(latest'[u].completed) = {}
    <3>1. CASE u = t
      BY <1>s, <2>2, <3>1 DEF SortedInv, LoopIsFresh
    <3>2. CASE u # t
      BY <1>s, <2>2, <3>2 DEF SortedInv, LoopIsFresh, Stage
    <3> QED
      BY <3>1, <3>2
  <2> QED
    BY <2>1, <2>2 DEF SortedInv, LoopIsFresh
\* a step of one worker that leaves its checkpoint and its loop alone
<1>m. ASSUME NEW t \in Thread, UNCHANGED <<latest, todo, draft>>, ckpt' \in {ckpt, latest[t]},
             \A u \in Thread \ {t} : pc'[u] = pc[u] /\ after'[u] = after[u],
             Stage(t)' \in {"plan_ready", "choose", "execute", "verify"}
               => Stage(t) \in {"plan_ready", "choose", "execute", "verify"}
      PROVE  SortedInv'
  BY <1>m DEF SortedInv, LoopIsFresh, Stage, Sorted
<1>l. Typed'
  BY TypedStep
<1>k. latest' \in [Thread -> Checkpoint]
  BY <1>l DEF Typed, TypeOK
<1>1. ASSUME NEW t \in Thread, Begin(t) PROVE SortedInv'
  BY <1>1, <1>t DEF Begin, Goto, SortedInv, LoopIsFresh, Stage, Sorted
<1>2. ASSUME NEW t \in Thread, Report(t) \/ OrphanEnds(t) \/ ReportFails(t) PROVE SortedInv'
  <2>1. Retire(t) /\ UNCHANGED <<ckpt, draft>>
    BY <1>2 DEF Report, OrphanEnds, ReportFails, runDir
  <2> QED
    BY <2>1, <1>t, SortedCheckpoints DEF Retire, Goto, SortedInv, LoopIsFresh, Stage, Sorted
<1>3. ASSUME NEW t \in Thread,
             RecordCheckpoint(t) \/ PausePlanReady(t) \/ StartExecutor(t) \/ StoreFails(t)
               \/ PlanReadyUnseen(t) \/ Abandon(t) \/ WriteCheckpoint(t)
      PROVE  SortedInv'
  <2>1. UNCHANGED <<latest, todo, draft, after>> /\ ckpt' \in {ckpt, latest[t]}
    BY <1>3
    DEF RecordCheckpoint, PausePlanReady, StartExecutor, StoreFails, PlanReadyUnseen, Abandon,
        WriteCheckpoint, EndWith, runDir
  <2>2. \A u \in Thread \ {t} : pc'[u] = pc[u]
    BY <1>3, <1>t
    DEF RecordCheckpoint, PausePlanReady, StartExecutor, StoreFails, PlanReadyUnseen, Abandon,
        WriteCheckpoint, EndWith, Goto
  <2>3. Stage(t)' \in {"plan_ready", "choose", "execute", "verify"}
          => Stage(t) \in {"plan_ready", "choose", "execute", "verify"}
    BY <1>3, <1>t
    DEF RecordCheckpoint, PausePlanReady, StartExecutor, StoreFails, PlanReadyUnseen, Abandon,
        WriteCheckpoint, EndWith, Goto, Stage
  <2> QED
    BY <1>m, <2>1, <2>2, <2>3
<1>4. ASSUME NEW t \in Thread, CompilePlan(t) PROVE SortedInv'
  <2>1. CASE SaveThen(t, FirstCheckpoint, "plan_ready")
    BY <1>4, <1>t, <2>1, SortedCheckpoints
    DEF CompilePlan, SaveThen, Goto, runDir, SortedInv, LoopIsFresh, Stage, Sorted
  <2>2. CASE \E how \in {"paused", "error"} : EndWith(t, how) /\ UNCHANGED <<latest, todo, after>>
    BY <1>4, <1>t, <1>m, <2>2 DEF CompilePlan, EndWith, Goto, runDir, Stage
  <2> QED
    BY <1>4, <2>1, <2>2 DEF CompilePlan
<1>5. ASSUME NEW t \in Thread, AdmitCheckpoint(t) PROVE SortedInv'
  <2>1. CASE SaveThen(t, ResumedCheckpoint(latest[t]), "choose")
             /\ todo' = [todo EXCEPT ![t] = Check \ Done(latest[t].completed)]
    <3>1. latest'[t].completed = latest[t].completed
      BY <1>t, <2>1, SortedCheckpoints DEF SaveThen
    <3>2. todo'[t] \cap Done(latest[t].completed) = {}
      BY <1>t, <2>1
    <3> QED
      BY <1>5, <1>t, <1>s, <1>k, <2>1, <3>1, <3>2 DEF AdmitCheckpoint, SaveThen, Goto, runDir
  <2>2. CASE EndWith(t, "error") /\ UNCHANGED <<latest, todo, after>>
    BY <1>5, <1>t, <1>m, <2>2 DEF AdmitCheckpoint, EndWith, Goto, runDir, Stage
  <2> QED
    BY <1>5, <2>1, <2>2 DEF AdmitCheckpoint
<1>6. ASSUME NEW t \in Thread, ChooseFrontier(t) PROVE SortedInv'
  <2>1. CASE todo[t] = {}
    BY <1>6, <1>t, <1>m, <2>1 DEF ChooseFrontier, Goto, runDir, Stage
  <2>2. CASE todo[t] # {}
    <3> DEFINE ck == [latest[t] EXCEPT !.active = First(todo[t])]
    <3>1. First(todo[t]) \in Check
      BY <1>t, <2>2, FirstOf
    <3>2. ck.completed = latest[t].completed
      BY <1>t, <3>1, SortedCheckpoints
    <3>3. SaveThen(t, ck, "execute") /\ UNCHANGED <<ckpt, draft, todo>> /\ pc[t] = "choose"
      BY <1>6, <2>2 DEF ChooseFrontier, runDir
    <3> HIDE DEF ck
    <3> QED
      BY <1>t, <1>s, <1>k, <3>2, <3>3 DEF SaveThen, Goto, Stage
  <2> QED
    BY <2>1, <2>2
<1>7. ASSUME NEW t \in Thread, NEW ck \in Checkpoint, ck.completed = latest[t].completed,
             SaveThen(t, ck, "ended"), UNCHANGED <<ckpt, draft, todo>>
      PROVE  SortedInv'
  BY <1>7, <1>t, <1>s, <1>k DEF SaveThen, Goto, Stage
<1>8. ASSUME NEW t \in Thread,
             RollBackCheck(t) \/ PauseFrontier(t) \/ FailFrontier(t) \/ FinishRun(t)
      PROVE  SortedInv'
  <2>1. CASE PauseFrontier(t) /\ ~Registered
    BY <1>t, <1>m, <2>1 DEF PauseFrontier, EndWith, Goto, Stage
  <2>2. CASE ~(PauseFrontier(t) /\ ~Registered)
    <3>1. PICK ck \in {ExhaustedCheckpoint(latest[t]), FailedCheckpoint(latest[t]),
                       FinalCheckpoint(latest[t])} : SaveThen(t, ck, "ended")
      BY <1>8, <2>2 DEF RollBackCheck, PauseFrontier, FailFrontier, FinishRun
    <3>2. UNCHANGED <<ckpt, draft, todo>>
      BY <1>8 DEF RollBackCheck, PauseFrontier, FailFrontier, FinishRun, runDir
    <3>3. ck \in Checkpoint /\ ck.completed = latest[t].completed
      BY <1>t, CheckpointTypes, SortedCheckpoints
    <3> QED
      BY <1>7, <3>1, <3>2, <3>3
  <2> QED
    BY <2>1, <2>2
<1>9. ASSUME NEW t \in Thread, RollBackUnpaused(t) PROVE SortedInv'
  <2>1. latest'[t].completed = latest[t].completed
    BY <1>9, <1>t, SortedCheckpoints DEF RollBackUnpaused, SaveThen
  <2> QED
    BY <1>9, <1>t, <1>s, <1>k, <2>1 DEF RollBackUnpaused, SaveThen, Goto, runDir, Stage
<1>10. ASSUME NEW t \in Thread, CommitFrontier(t) PROVE SortedInv'
  <2> DEFINE done == Done(latest[t].completed)
  <2>1. done \in SUBSET Check /\ UpstreamClosed(done) /\ latest[t].completed \in Seq(SUBSET Check)
    BY <1>t, DoneType DEF ClosedInv, Closed, Checkpoint
  <2>2. Focus(t) \in SUBSET Check /\ Focus(t) \subseteq todo[t]
    BY <1>10, FocusType DEF CommitFrontier, Stage
  <2>3. todo[t] \cap done = {}
    BY <1>10 DEF CommitFrontier, Stage, SortedInv, LoopIsFresh
  <2>4. PICK group \in SUBSET Focus(t) :
          SaveThen(t, CommittedCheckpoint(latest[t], group), "choose")
    BY <1>10 DEF CommitFrontier, ReadyClosure
  <2>5. \A c \in done, d \in group : Position[c] < Position[d]
    <3> SUFFICES ASSUME NEW c \in done, NEW d \in group PROVE Position[c] < Position[d]
      OBVIOUS
    <3>1. c \in Check /\ d \in Check /\ d \notin done
      BY <2>1, <2>2, <2>3
    <3>2. ~(Position[d] < Position[c])
      BY <2>1, <3>1 DEF PlanIsForced
    <3>3. Position[c] # Position[d] /\ Position[c] \in Nat /\ Position[d] \in Nat
      BY <3>1, PlanAssumption
    <3> QED
      BY <3>2, <3>3
  <2>6. CommittedCheckpoint(latest[t], group).completed = AppendGroup(latest[t].completed, group)
    BY <1>t DEF CommittedCheckpoint, Checkpoint
  <2>7. Done(AppendGroup(latest[t].completed, group)) = done \cup group
    BY <2>1, <2>2, AppendGroupDone
  <2>8. Sorted(CommittedCheckpoint(latest[t], group))
    BY <2>1, <2>2, <2>5, <2>6, AppendGroupSorted DEF SortedInv, Sorted
  <2>9. /\ todo' = [todo EXCEPT ![t] = IF Registered THEN {} ELSE @ \ Focus(t)]
        /\ latest' = [latest EXCEPT ![t] = CommittedCheckpoint(latest[t], group)]
        /\ UNCHANGED <<ckpt, draft>>
    BY <1>10, <2>4 DEF CommitFrontier, SaveThen, runDir
  <2>10. todo'[t] \cap Done(latest'[t].completed) = {}
    BY <1>t, <2>3, <2>6, <2>7, <2>9
  <2>11. \A u \in Thread : Sorted(latest[u])'
    BY <1>t, <2>8, <2>9 DEF SortedInv, Sorted
  <2>12. LoopIsFresh'
    BY <1>t, <2>4, <2>9, <2>10 DEF SaveThen, Goto, SortedInv, LoopIsFresh, Stage
  <2> QED
    BY <2>9, <2>11, <2>12 DEF SortedInv, Sorted
<1>11. ASSUME NEW k \in Correction, NEW x \in Check, BeginRecheck(k, x) PROVE SortedInv'
  <2>1. Sorted(draft)'
    <3>1. draft' \in {ckpt, RevisedCheckpoint(ckpt, k, x)}
      BY <1>11 DEF BeginRecheck
    <3>2. Sorted(RevisedCheckpoint(ckpt, k, x))
      BY <1>t, SortedCheckpoints DEF SortedInv
    <3> QED
      BY <3>1, <3>2 DEF SortedInv, Sorted
  <2> QED
    BY <1>11, <2>1 DEF BeginRecheck, runDir, SortedInv, LoopIsFresh, Stage, Sorted
<1>12. ASSUME WriteRevision \/ RecordRevision \/ RecheckFails PROVE SortedInv'
  BY <1>12, SortedCheckpoints
  DEF WriteRevision, RecordRevision, RecheckFails, runDir, SortedInv, LoopIsFresh, Stage, Sorted
<1>13. ASSUME Crash PROVE SortedInv'
  BY <1>13, SortedCheckpoints DEF Crash, runDir, SortedInv, LoopIsFresh, Stage, Sorted
<1>14. ASSUME UNCHANGED vars PROVE SortedInv'
  BY <1>14 DEF vars, SortedInv, LoopIsFresh, Stage, Sorted
<1> QED
  BY <1>1, <1>2, <1>3, <1>4, <1>5, <1>6, <1>8, <1>9, <1>10, <1>11, <1>12, <1>13, <1>14
  DEF Next, Worker, Save, Frontier, Recheck, Fault

(* "The latest checkpoint remains resumable", with abandoned workers, crashes *)
(* and failing writes, when the upstreams force the order of the plan; with a *)
(* CHECK that stands alone the run child_plan_order shows that it does not.   *)
THEOREM ForcedPlansResume ==
    ASSUME PlanIsForced, Registered \/ "store" \notin Faults
    PROVE  Spec => []SavedIsResumable
<1>1. Init => Typed /\ ClosedInv /\ SortedInv
  BY TypedInit, ClosedCheckpoints, SortedCheckpoints
  DEF Init, ClosedInv, LoopOrder, SortedInv, LoopIsFresh, Stage
<1>2. Typed /\ ClosedInv /\ SortedInv /\ [Next]_vars => (Typed /\ ClosedInv /\ SortedInv)'
  BY TypedStep, ClosedStep, SortedStep
<1>3. ClosedInv /\ SortedInv => SavedIsResumable
  BY DEF ClosedInv, Closed, SortedInv, Sorted, SavedIsResumable, Admissible
<1> QED
  BY <1>1, <1>2, <1>3, PTL DEF Spec

=============================================================================
