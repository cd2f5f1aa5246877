------------------------- MODULE RevisionStoreProofs -------------------------
(***************************************************************************)
(* Theorems about RevisionStore and the RunTrace it extends.               *)
(*                                                                         *)
(* The runs: TraceInv says what a resume relies on: no event on file has a *)
(* number above its run's, the case's file holds only events of the runs'  *)
(* files, each call a run counts has its event on file or in the queue,    *)
(* and the calls of a saved state are on file already.  It is kept by the  *)
(* steps of RunTrace one by one; a step of the store changes of the runs   *)
(* only which artifact is pending.                                         *)
(*                                                                         *)
(* The revisions: StandInv says that no two are written at one time, that  *)
(* a child above the highest revision is one above it and holds its        *)
(* corrections while nothing was written later, and that such a child may  *)
(* follow any highest revision that did not converge.  What a step does to *)
(* the corrections (Kept) follows for each child, whoever runs meanwhile.  *)
(*                                                                         *)
(* The pages: PageInv says that an event of the case is numbered by its    *)
(* line and that what the Manager was shown is a listing of a child's lines*)
(* from where it started to its cursor.  A page lists what is behind the   *)
(* cursor up to its last event, which puts one listing behind another; and *)
(* a set of numbers has one listing.                                       *)
(***************************************************************************)
EXTENDS RevisionStore, ClosureLemmas, SequenceTheorems

-----------------------------------------------------------------------------
(* Sequences of sequences. *)

\* g[n] joins the first n of the sequences s.
Joins(g, s, m) == g[0] = <<>> /\ \A n \in 1..m : g[n] = g[n - 1] \o s[n]

LEMMA JoinExists ==
    ASSUME NEW S, NEW s \in Seq(Seq(S)), NEW m \in 0..Len(s)
    PROVE  \E g \in [0..m -> Seq(S)] : Joins(g, s, m)
<1> DEFINE T == {n \in 0..Len(s) : ~ \E g \in [0..n -> Seq(S)] : Joins(g, s, n)}
<1>1. Len(s) \in Nat /\ \A n \in 1..Len(s) : s[n] \in Seq(S)
  OBVIOUS
<1>2. ASSUME T # {} PROVE FALSE
  <2>1. PICK n \in T : \A t \in T : n <= t
    <3>1. T \in SUBSET Nat
      BY <1>1
    <3> HIDE DEF T
    <3> QED
      BY <1>2, <3>1, LeastNumber
  <2>2. n # 0
    <3>1. [k \in 0..0 |-> <<>>] \in [0..0 -> Seq(S)]
      OBVIOUS
    <3>2. Joins([k \in 0..0 |-> <<>>], s, 0)
      BY DEF Joins
    <3> QED
      BY <2>1, <3>1, <3>2
  <2>3. n \in 1..Len(s) /\ n - 1 \in 0..Len(s) /\ n - 1 \notin T
    <3>1. n \in 0..Len(s)
      BY <2>1
    <3>2. n \in 1..Len(s) /\ n - 1 \in 0..Len(s) /\ ~ (n <= n - 1)
      BY <1>1, <2>2, <3>1
    <3> HIDE DEF T
    <3> QED
      BY <2>1, <3>2
  <2>4. PICK g \in [0..(n - 1) -> Seq(S)] : Joins(g, s, n - 1)
    BY <2>3
  <2> DEFINE h == [k \in 0..n |-> IF k = n THEN g[n - 1] \o s[n] ELSE g[k]]
  <2>5. h \in [0..n -> Seq(S)]
    <3>1. g[n - 1] \in Seq(S) /\ s[n] \in Seq(S) /\ n \in Nat
      BY <1>1, <2>3, <2>4
    <3>2. g[n - 1] \o s[n] \in Seq(S)
      BY <3>1
    <3>3. \A k \in 0..n : k # n => k \in 0..(n - 1)
      BY <3>1
    <3> QED
      BY <2>4, <3>2, <3>3
  <2>6. Joins(h, s, n)
    <3>1. h[0] = <<>>
      BY <2>2, <2>3, <2>4 DEF Joins
    <3>2. \A k \in 1..n : h[k] = h[k - 1] \o s[k]
      <4> TAKE k \in 1..n
      <4>1. k - 1 \in 0..n /\ k - 1 # n /\ k \in 0..n /\ (k # n => k \in 1..(n - 1))
        BY <1>1, <2>3
      <4>2. h[k - 1] = g[k - 1] /\ h[k] = IF k = n THEN g[n - 1] \o s[n] ELSE g[k]
        BY <4>1
      <4>3. k # n => g[k] = g[k - 1] \o s[k]
        BY <2>4, <4>1 DEF Joins
      <4> HIDE DEF h
      <4> QED
        BY <4>2, <4>3
    <3> QED
      BY <3>1, <3>2 DEF Joins
  <2> QED
    BY <2>1, <2>5, <2>6
<1>3. m \notin T
  BY <1>2
<1> QED
  BY <1>3

\* FlattenSeq joins the sequences, and nothing of them is lost.
LEMMA FlattenIs ==
    ASSUME NEW S, NEW s \in Seq(Seq(S))
    PROVE  /\ FlattenSeq(s) \in Seq(S)
           /\ \A i \in DOMAIN s : \A x \in ToSet(s[i]) : x \in ToSet(FlattenSeq(s))
<1>1. CASE Len(s) = 0
  <2>1. FlattenSeq(s) = <<>> /\ DOMAIN s = {}
    BY <1>1 DEF FlattenSeq
  <2> QED
    BY <2>1
<1>2. CASE Len(s) # 0
  <2> DEFINE N == Len(s)
             Is(f) == f = [i \in 1..N |-> IF i = 1 THEN s[i] ELSE f[i - 1] \o s[i]]
             f == CHOOSE f : Is(f)
  <2>1. N \in Nat /\ N >= 1 /\ DOMAIN s = 1..N /\ \A i \in 1..N : s[i] \in Seq(S)
    BY <1>2
  <2>2. FlattenSeq(s) = f[N]
    BY <1>2 DEF FlattenSeq
  <2>3. Is(f)
    <3>1. PICK g \in [0..N -> Seq(S)] : Joins(g, s, N)
      <4>1. N \in 0..Len(s)
        BY <2>1
      <4> HIDE DEF N
      <4> QED
        BY <4>1, JoinExists
    <3>2. \A i \in 1..N : g[i] = IF i = 1 THEN s[i] ELSE g[i - 1] \o s[i]
      <4> TAKE i \in 1..N
      <4>1. CASE i = 1
        <5>1. g[1] = <<>> \o s[1] /\ s[1] \in Seq(S)
          <6>1. g[1] = g[1 - 1] \o s[1] /\ 1 - 1 = 0
            <7>1. 1 \in 1..N
              BY <4>1
            <7>2. \A n \in 1..N : g[n] = g[n - 1] \o s[n]
              BY <3>1 DEF Joins
            <7>3. g[1] = g[1 - 1] \o s[1]
              BY <7>1, <7>2, Zenon
            <7> QED
              BY <7>3
          <6> QED
            BY <2>1, <3>1, <4>1, <6>1 DEF Joins
        <5>2. <<>> \o s[1] = s[1]
          BY <5>1, ConcatEmptySeq
        <5> QED
          BY <4>1, <5>1, <5>2
      <4>2. CASE i # 1
        BY <3>1, <4>2 DEF Joins
      <4> QED
        BY <4>1, <4>2
    <3> DEFINE h == [i \in 1..N |-> g[i]]
    <3>3. \A i \in 1..N : i # 1 => h[i - 1] = g[i - 1]
      BY <2>1
    <3>4. Is(h)
      <4>1. \A i \in 1..N : h[i] = IF i = 1 THEN s[i] ELSE h[i - 1] \o s[i]
        BY <3>2, <3>3
      <4> QED
        BY <4>1, Zenon
    <3> QED
      BY <3>4, Zenon
  <2> HIDE DEF f
  <2>4. f[1] = s[1] /\ \A i \in 2..N : f[i] = f[i - 1] \o s[i]
    <3>1. \A i \in 1..N : f[i] = IF i = 1 THEN s[i] ELSE f[i - 1] \o s[i]
      BY <2>3, Zenon
    <3>2. 1 \in 1..N /\ \A i \in 2..N : i \in 1..N /\ i # 1
      BY <2>1
    <3> QED
      BY <3>1, <3>2
  <2> DEFINE P(n) == f[n] \in Seq(S) /\ \A i \in 1..n : \A x \in ToSet(s[i]) : x \in ToSet(f[n])
             T == {n \in 1..N : ~ P(n)}
  <2>5. ASSUME T # {} PROVE FALSE
    <3>1. T \in SUBSET Nat
      BY <2>1
    <3>2. PICK m \in T : \A t \in T : m <= t
      <4> HIDE DEF T
      <4> QED
        BY <2>5, <3>1, LeastNumber
    <3>3. m # 1
      <4>1. P(1)
        BY <2>1, <2>4
      <4> QED
        BY <4>1
    <3>4. m \in 2..N /\ m - 1 \in 1..N /\ P(m - 1)
      <4>1. m \in 1..N
        BY <3>2
      <4>2. m \in 2..N /\ m - 1 \in 1..N /\ ~ (m <= m - 1)
        BY <2>1, <3>3, <4>1
      <4>3. m - 1 \notin T
        <5> HIDE DEF T
        <5> QED
          BY <3>2, <4>2
      <4> QED
        BY <4>2, <4>3
    <3>5. f[m] = f[m - 1] \o s[m] /\ f[m - 1] \in Seq(S) /\ s[m] \in Seq(S)
      BY <2>1, <2>4, <3>4
    <3>6. /\ f[m] \in Seq(S)
          /\ \A x \in ToSet(f[m - 1]) : x \in ToSet(f[m])
          /\ \A x \in ToSet(s[m]) : x \in ToSet(f[m])
      <4> DEFINE a == f[m - 1]
                 b == s[m]
      <4>1. a \in Seq(S) /\ b \in Seq(S) /\ f[m] = a \o b
        BY <3>5
      <4> HIDE DEF a, b
      <4>2. /\ a \o b \in Seq(S)
            /\ \A i \in 1..Len(a) : i \in DOMAIN (a \o b) /\ (a \o b)[i] = a[i]
            /\ \A i \in 1..Len(b) : Len(a) + i \in DOMAIN (a \o b) /\ (a \o b)[Len(a) + i] = b[i]
        BY <4>1
      <4>3. /\ \A x \in ToSet(a) : x \in ToSet(a \o b)
            /\ \A x \in ToSet(b) : x \in ToSet(a \o b)
        <5> DEFINE ab == a \o b
        <5>1. \A i \in 1..Len(a) : i \in DOMAIN ab /\ ab[i] = a[i]
          BY <4>2
        <5>2. \A i \in 1..Len(b) : Len(a) + i \in DOMAIN ab /\ ab[Len(a) + i] = b[i]
          BY <4>2
        <5>3. DOMAIN a = 1..Len(a) /\ DOMAIN b = 1..Len(b)
          BY <4>1
        <5> HIDE DEF ab
        <5>4. /\ \A x \in ToSet(a) : x \in ToSet(ab)
              /\ \A x \in ToSet(b) : x \in ToSet(ab)
          BY <5>1, <5>2, <5>3 DEF ToSet
        <5> QED
          BY <5>4 DEF ab
      <4> QED
        BY <4>1, <4>2, <4>3 DEF a, b
    <3>7. \A i \in 1..m : i \in 1..(m - 1) \/ i = m
      BY <3>4
    <3>8. P(m)
      BY <3>4, <3>6, <3>7
    <3> QED
      BY <3>2, <3>8
  <2>6. P(N)
    <3>1. N \in 1..N
      BY <2>1
    <3>2. N \notin T
      <4> HIDE DEF T
      <4> QED
        BY <2>5
    <3> HIDE DEF P, N
    <3> QED
      BY <3>1, <3>2
  <2> QED
    BY <2>1, <2>2, <2>6
<1> QED
  BY <1>1, <1>2

\* A finite set of numbers that is not empty has a greatest element, which Max picks.
LEMMA MaxPicks ==
    ASSUME NEW n \in Nat, NEW D \in SUBSET (1..n), D # {}
    PROVE  Max(D) \in D
<1>1. \E i \in D : \A j \in D : j <= i
  BY GreatestNumber
<1>2. \E i \in D : \A j \in D : i >= j
  BY <1>1
<1> QED
  BY <1>2 DEF Max

-----------------------------------------------------------------------------
(* Types. *)

\* the strings, those the modules write named
Words == STRING \cup {"", "model", "schema_retry", "model_call", "observation", "feedback",
                      "step_result", "supervisor_decision", "checkpoint", "write_trace",
                      "final_answer", "ok", "warning", "error", "running", "completed",
                      "cancelled", "CANCELLED", "COMMITTED", "NON_CONVERGED"}

LEMMA WordsAre ==
    /\ STRING \subseteq Words
    /\ {"", "model", "schema_retry", "model_call", "observation", "feedback",
        "step_result", "supervisor_decision", "checkpoint", "write_trace",
        "final_answer", "ok", "warning", "error", "running", "completed", "cancelled",
        "CANCELLED", "COMMITTED", "NON_CONVERGED"} \subseteq Words
BY DEF Words

IdRecord == [run : Runs \cup {""}, seq : Nat]
Obs == [kind : Words, name : Words, error : BOOLEAN, risk : BOOLEAN, status : Words,
        child : Words]
States == [up : BOOLEAN, seq : Nat, calls : Seq(Calls), prefix : Seq(Calls), counted : Nat,
           observations : Seq(Obs), planner : IdRecord, action : IdRecord, answered : BOOLEAN,
           final : BOOLEAN, pending : Nat]
Queued == [kind : Words, call : Calls \cup {""}, child : Words, stage : Words, cause : IdRecord]
Filed == [id : [run : Runs, seq : Nat], case : Nat, kind : Words, call : Calls \cup {""},
          child : Words, stage : Words, cause : IdRecord]

TraceTyped ==
  /\ mem \in [Runs -> States] /\ saved \in [Runs -> States]
  /\ sdk \in [Runs -> Seq(Calls)] /\ todo \in [Runs -> Seq(Queued)]
  /\ runfile \in [Runs -> Seq(Filed)] /\ casefile \in Seq(Filed)

LEMMA DownIs == None \in IdRecord /\ Down \in States /\ ~Down.up
BY DEF None, Down, IdRecord, States, Obs

LEMMA FreshIs == Fresh \in States /\ Fresh.up /\ Fresh.calls = <<>> /\ Fresh.prefix = <<>>
                 /\ Fresh.counted = 0
<1>1. Down.calls = <<>> /\ Down.prefix = <<>> /\ Down.counted = 0
  BY DEF Down
<1> QED
  BY <1>1, DownIs DEF Fresh, States

LEMMA EventIs ==
    ASSUME NEW kind \in Words, NEW cause \in IdRecord
    PROVE  Event(kind, cause) \in Queued /\ Event(kind, cause).kind = kind
BY WordsAre DEF Event, Queued

LEMMA IdIs ==
    ASSUME NEW r \in Runs, NEW n \in Nat
    PROVE  EventId(r, n) \in IdRecord
BY DEF EventId, IdRecord

LEMMA ObservationIs ==
    ASSUME NEW kind \in Words, NEW name \in Words, NEW error \in BOOLEAN,
           NEW risk \in BOOLEAN, NEW of \in Words
    PROVE  Observation(kind, name, error, risk, of) \in Obs
BY WordsAre DEF Observation, Obs

\* What changes only in what it observed, decided and answered
Alike(st, old) ==
  /\ st \in States /\ st.up = old.up /\ st.seq = old.seq /\ st.calls = old.calls
  /\ st.prefix = old.prefix /\ st.counted = old.counted

-----------------------------------------------------------------------------
(* Recording calls. *)

LEMMA CallEventsAre ==
    ASSUME NEW st \in States, NEW c \in Calls
    PROVE  /\ CallEvents(st, c) \in Seq(Queued)
           /\ \E e \in ToSet(CallEvents(st, c)) : e.call = c /\ e.kind # "write_trace"
<1> DEFINE call == [Event("model_call", st.action) EXCEPT !.call = c, !.stage = RoleOf[c]]
           more == IF c \in Invalid THEN <<Event("observation", st.action)>> ELSE <<>>
<1>1. st.action \in IdRecord
  BY DEF States
<1>2. Event("model_call", st.action) \in Queued /\ Event("observation", st.action) \in Queued
      /\ Event("model_call", st.action).kind = "model_call"
  BY <1>1, EventIs, WordsAre
<1>3. call \in Queued /\ call.call = c /\ call.kind # "write_trace"
  <2>1. RoleOf[c] \in Words
    BY HarnessAssumption, WordsAre
  <2> DEFINE e == Event("model_call", st.action)
  <2>2. e \in Queued /\ e.kind = "model_call"
    BY <1>2
  <2> HIDE DEF e
  <2>3. [e EXCEPT !.call = c, !.stage = RoleOf[c]] \in Queued
        /\ [e EXCEPT !.call = c, !.stage = RoleOf[c]].call = c
        /\ [e EXCEPT !.call = c, !.stage = RoleOf[c]].kind = "model_call"
    BY <2>1, <2>2 DEF Queued
  <2> QED
    BY <2>3 DEF e
<1>4. more \in Seq(Queued)
  BY <1>2
<1> HIDE DEF call, more
<1>5. <<call>> \in Seq(Queued) /\ Len(<<call>>) = 1 /\ <<call>>[1] = call
  BY <1>3
<1>6. <<call>> \o more \in Seq(Queued) /\ 1 \in DOMAIN (<<call>> \o more)
      /\ (<<call>> \o more)[1] = call
  BY <1>4, <1>5
<1>7. CallEvents(st, c) = <<call>> \o more
  BY DEF CallEvents, call, more
<1> QED
  BY <1>3, <1>6, <1>7 DEF ToSet

LEMMA RecordedEventsAre ==
    ASSUME NEW st \in States, NEW calls \in Seq(Calls), st.counted <= Len(calls)
    PROVE  /\ RecordedEvents(st, calls) \in Seq(Queued)
           /\ \A i \in (st.counted + 1)..Len(calls) :
                \E e \in ToSet(RecordedEvents(st, calls)) :
                  e.call = calls[i] /\ e.kind # "write_trace"
<1> DEFINE new == NewCalls(st, calls)
           lists == [i \in 1..Len(new) |-> CallEvents(st, new[i])]
<1>1. st.counted \in Nat
  BY DEF States
<1>2. /\ new \in Seq(Calls) /\ Len(new) = Len(calls) - st.counted
      /\ \A i \in 1..Len(new) : new[i] = calls[st.counted + i]
  BY <1>1 DEF NewCalls
<1> HIDE DEF new
<1>3. \A i \in 1..Len(new) : /\ new[i] \in Calls /\ CallEvents(st, new[i]) \in Seq(Queued)
                             /\ \E e \in ToSet(CallEvents(st, new[i])) :
                                  e.call = new[i] /\ e.kind # "write_trace"
  <2> TAKE i \in 1..Len(new)
  <2>1. new[i] \in Calls
    BY <1>2
  <2> QED
    BY <2>1, CallEventsAre
<1>4. /\ lists \in Seq(Seq(Queued)) /\ DOMAIN lists = 1..Len(new)
      /\ \A i \in 1..Len(new) : lists[i] = CallEvents(st, new[i])
  <2>1. Len(new) \in Nat
    BY <1>2
  <2>2. \A i \in 1..Len(new) : CallEvents(st, new[i]) \in Seq(Queued)
    BY <1>3
  <2> DEFINE Of(i) == CallEvents(st, new[i])
  <2>3. \A i \in 1..Len(new) : Of(i) \in Seq(Queued)
    BY <2>2
  <2> HIDE DEF Of
  <2>4. [i \in 1..Len(new) |-> Of(i)] \in Seq(Seq(Queued))
    BY <2>1, <2>3
  <2> QED
    BY <2>1, <2>4 DEF Of
<1>5. RecordedEvents(st, calls) = FlattenSeq(lists)
  BY DEF RecordedEvents, new
<1> HIDE DEF lists
<1>6. /\ FlattenSeq(lists) \in Seq(Queued)
      /\ \A i \in DOMAIN lists : \A e \in ToSet(lists[i]) : e \in ToSet(FlattenSeq(lists))
  BY <1>4, FlattenIs
<1>7. ASSUME NEW i \in (st.counted + 1)..Len(calls)
      PROVE  \E e \in ToSet(FlattenSeq(lists)) : e.call = calls[i] /\ e.kind # "write_trace"
  <2>1. i - st.counted \in 1..Len(new) /\ calls[i] = new[i - st.counted]
    <3>1. Len(calls) \in Nat /\ i \in Int /\ st.counted + (i - st.counted) = i
      BY <1>1
    <3>2. i - st.counted \in 1..Len(new)
      BY <1>1, <1>2, <3>1
    <3> QED
      BY <1>2, <3>1, <3>2
  <2> QED
    BY <1>3, <1>4, <1>6, <2>1
<1> QED
  BY <1>5, <1>6, <1>7

LEMMA RecordedIs ==
    ASSUME NEW r \in Runs, NEW st \in States, NEW calls \in Seq(Calls), st.counted <= Len(calls)
    PROVE  LET new == Recorded(r, st, calls)
           IN  /\ new \in States /\ new.up = st.up /\ new.seq = st.seq /\ new.prefix = st.prefix
               /\ new.calls = st.prefix \o calls /\ new.counted = Len(calls)
<1> DEFINE fresh == NewCalls(st, calls)
           retry == Observation("model", "schema_retry", FALSE, TRUE, "")
           refused == {i \in 1..Len(fresh) : fresh[i] \in Invalid}
           planners == SelectLastInSeq(fresh, LAMBDA c : RoleOf[c] = "planner")
           before == planners + Cardinality({i \in refused : i < planners})
           planner == IF planners = 0 THEN st.planner ELSE EventId(r, st.seq + before)
           told == st.observations \o [i \in 1..Cardinality(refused) |-> retry]
<1>1. st.seq \in Nat /\ st.counted \in Nat /\ st.planner \in IdRecord
      /\ st.observations \in Seq(Obs) /\ st.prefix \in Seq(Calls)
  BY DEF States
<1>2. fresh \in Seq(Calls) /\ Len(fresh) \in Nat
  BY <1>1 DEF NewCalls
<1> HIDE DEF fresh
<1>3. planners \in Nat
  <2> DEFINE I == {i \in 1..Len(fresh) : RoleOf[fresh[i]] = "planner"}
  <2>1. planners = IF I # {} THEN Max(I) ELSE 0
    BY DEF SelectLastInSeq
  <2>2. I # {} => Max(I) \in I
    <3>1. I \in SUBSET (1..Len(fresh))
      OBVIOUS
    <3> HIDE DEF I
    <3> QED
      BY <1>2, <3>1, MaxPicks
  <2> QED
    BY <1>2, <2>1, <2>2
<1> HIDE DEF planners
<1>4. Cardinality(refused) \in Nat /\ Cardinality({i \in refused : i < planners}) \in Nat
  <2>1. IsFiniteSet(1..Len(fresh))
    BY <1>2, FS_Interval
  <2>2. refused \subseteq 1..Len(fresh) /\ {i \in refused : i < planners} \subseteq 1..Len(fresh)
    OBVIOUS
  <2> QED
    BY <2>1, <2>2, FS_Subset, FS_CardinalityType
<1>5. planner \in IdRecord
  BY <1>1, <1>3, <1>4, IdIs
<1>6. told \in Seq(Obs)
  <2>1. retry \in Obs
    BY ObservationIs, WordsAre
  <2> HIDE DEF retry
  <2>2. [i \in 1..Cardinality(refused) |-> retry] \in Seq(Obs)
    BY <1>4, <2>1
  <2> QED
    BY <1>1, <2>2
<1>7. st.prefix \o calls \in Seq(Calls) /\ Len(calls) \in Nat
  BY <1>1
<1>8. Recorded(r, st, calls) =
        [st EXCEPT !.calls = st.prefix \o calls, !.counted = Len(calls), !.planner = planner,
                   !.observations = told]
  BY DEF Recorded, fresh, planners
<1> HIDE DEF planner, told
<1> QED
  BY <1>5, <1>6, <1>7, <1>8 DEF States

-----------------------------------------------------------------------------
(* A decision. *)

LEMMA ObservationEventIs ==
    ASSUME NEW st \in States, NEW o, o.child \in Words
    PROVE  ObservationEvent(st, o) \in Queued
<1> DEFINE e == Event("observation", st.action)
<1>1. e \in Queued
  BY EventIs, WordsAre DEF States
<1> HIDE DEF e
<1>2. [e EXCEPT !.child = o.child] \in Queued
  BY <1>1 DEF Queued
<1> QED
  BY <1>2 DEF ObservationEvent, e

LEMMA FeedbackIs ==
    ASSUME NEW st, NEW d
    PROVE  StepFeedback(st, d) \in Obs
<1> DEFINE o == Observation("feedback", "step_result", FALSE, FALSE, "")
           told == Status(st, d, SinceFeedback(st.observations))
<1>1. o \in Obs
  BY ObservationIs, WordsAre
<1>2. told \in Words
  BY WordsAre DEF Status
<1> HIDE DEF o, told
<1>3. [o EXCEPT !.status = told] \in Obs
  BY <1>1, <1>2 DEF Obs
<1> QED
  BY <1>3 DEF StepFeedback, o, told

LEMMA FindingsAre ==
    ASSUME NEW fs \in Findings
    PROVE  /\ Len(fs) \in Nat
           /\ \A i \in 1..Len(fs) : /\ fs[i].kind \in Words /\ fs[i].name \in Words
                                    /\ fs[i].error \in BOOLEAN /\ fs[i].child \in Words
<1> DEFINE Reports == [kind : STRING, name : STRING, error : BOOLEAN, child : STRING]
<1>1. fs \in Seq(Reports)
  BY HarnessAssumption
<1>2. \A x \in Reports : /\ x.kind \in Words /\ x.name \in Words
                         /\ x.error \in BOOLEAN /\ x.child \in Words
  BY WordsAre
<1> HIDE DEF Reports
<1>3. Len(fs) \in Nat /\ \A i \in 1..Len(fs) : fs[i] \in Reports
  BY <1>1
<1> QED
  BY <1>2, <1>3

\* What a decision changes of a run's state
LEMMA DecidedAlike ==
    ASSUME NEW st \in States, NEW id \in IdRecord
    PROVE  /\ Alike([st EXCEPT !.action = id], st)
           /\ [st EXCEPT !.action = id].action = id
BY DEF Alike, States

LEMMA AnsweredAlike ==
    ASSUME NEW st \in States, NEW obs \in Seq(Obs), NEW b
    PROVE  Alike([st EXCEPT !.observations = @ \o obs, !.answered = @ \/ b], st)
<1>1. st.observations \o obs \in Seq(Obs) /\ (st.answered \/ b) \in BOOLEAN
  BY DEF States
<1>2. \A all \in Seq(Obs), any \in BOOLEAN :
        Alike([st EXCEPT !.observations = all, !.answered = any], st)
  BY DEF Alike, States
<1> QED
  BY <1>1, <1>2

LEMMA ObservedAlike ==
    ASSUME NEW st \in States, NEW o \in Obs
    PROVE  Alike(Observed(st, o), st)
<1>1. Append(st.observations, o) \in Seq(Obs)
  BY DEF States
<1>2. \A all \in Seq(Obs) : Alike([st EXCEPT !.observations = all], st)
  BY DEF Alike, States
<1> QED
  BY <1>1, <1>2 DEF Observed

LEMMA AlikeFollows ==
    ASSUME NEW a, NEW b, NEW c, Alike(a, b), Alike(b, c)
    PROVE  Alike(a, c)
BY DEF Alike

LEMMA DecideIs ==
    ASSUME TraceTyped, NEW r \in Runs, NEW d, NEW fs \in Findings, Decide(r, d, fs)
    PROVE  /\ Ready(r)
           /\ \E st, events : /\ Alike(st, mem[r]) /\ events \in Seq(Queued)
                              /\ mem' = [mem EXCEPT ![r] = st]
                              /\ todo' = [todo EXCEPT ![r] = events]
           /\ UNCHANGED <<sdk, saved, runfile, casefile, trace>>
<1> DEFINE st == mem[r]
           decided == [st EXCEPT !.action = EventId(r, st.seq + 1)]
           reported == [i \in 1..Len(fs) |-> Observation(fs[i].kind, fs[i].name,
                                               fs[i].error, FALSE, fs[i].child)]
           answer == [decided EXCEPT !.observations = @ \o reported,
                                     !.answered = @ \/ d.action = "final_answer"]
           work == [i \in 1..Len(fs) |->
                      <<Event(fs[i].kind, decided.action), ObservationEvent(decided, fs[i])>>]
           feedback == StepFeedback(answer, d)
           next == Observed(answer, feedback)
           events == <<Event("supervisor_decision", st.planner)>> \o FlattenSeq(work)
                       \o <<ObservationEvent(decided, feedback), Event("checkpoint", decided.action),
                            Event("write_trace", None)>>
<1>1. st \in States /\ st.seq \in Nat /\ st.planner \in IdRecord
  BY DEF TraceTyped, States
<1>2. /\ Len(fs) \in Nat
      /\ \A i \in 1..Len(fs) : /\ fs[i].kind \in Words /\ fs[i].name \in Words
                               /\ fs[i].error \in BOOLEAN /\ fs[i].child \in Words
  BY FindingsAre
<1>3. Alike(decided, st) /\ decided \in States /\ decided.action \in IdRecord
  <2>1. EventId(r, st.seq + 1) \in IdRecord
    BY <1>1, IdIs
  <2> QED
    BY <1>1, <2>1, DecidedAlike DEF Alike
<1>4. reported \in Seq(Obs)
  <2> DEFINE One(i) == Observation(fs[i].kind, fs[i].name, fs[i].error, FALSE, fs[i].child)
  <2>1. \A i \in 1..Len(fs) : One(i) \in Obs
    BY <1>2, ObservationIs
  <2> HIDE DEF One
  <2>2. [i \in 1..Len(fs) |-> One(i)] \in Seq(Obs)
    BY <1>2, <2>1
  <2> QED
    BY <2>2 DEF One
<1>5. work \in Seq(Seq(Queued))
  <2> DEFINE Pair(i) == <<Event(fs[i].kind, decided.action), ObservationEvent(decided, fs[i])>>
  <2>1. ASSUME NEW i \in 1..Len(fs) PROVE Pair(i) \in Seq(Queued)
    <3>1. Event(fs[i].kind, decided.action) \in Queued
      BY <1>2, <1>3, EventIs
    <3>2. ObservationEvent(decided, fs[i]) \in Queued
      BY <1>2, <1>3, ObservationEventIs DEF Alike
    <3> QED
      BY <3>1, <3>2
  <2> HIDE DEF Pair
  <2>2. [i \in 1..Len(fs) |-> Pair(i)] \in Seq(Seq(Queued))
    BY <1>2, <2>1
  <2> QED
    BY <2>2 DEF Pair
<1>6. Event("supervisor_decision", st.planner) \in Queued
      /\ Event("checkpoint", decided.action) \in Queued /\ Event("write_trace", None) \in Queued
  BY <1>1, <1>3, EventIs, WordsAre, DownIs
<1>7. feedback \in Obs
  BY FeedbackIs
<1>8. ObservationEvent(decided, feedback) \in Queued
  <2>1. feedback.child \in Words
    BY <1>7 DEF Obs
  <2> QED
    BY <1>3, <2>1, ObservationEventIs DEF Alike
<1>9. Ready(r) /\ mem' = [mem EXCEPT ![r] = next] /\ todo' = [todo EXCEPT ![r] = events]
      /\ UNCHANGED <<sdk, saved, runfile, casefile, trace>>
  BY DEF Decide, Does
<1> HIDE DEF work
<1>10. FlattenSeq(work) \in Seq(Queued)
  BY <1>5, FlattenIs
<1> HIDE DEF decided, feedback, reported
<1>11. Alike(answer, st) /\ answer \in States
  <2>1. Alike(answer, decided)
    BY <1>3, <1>4, AnsweredAlike
  <2> HIDE DEF answer
  <2> QED
    BY <1>3, <2>1, AlikeFollows DEF Alike
<1> HIDE DEF answer
<1>12. Alike(next, st)
  BY <1>7, <1>11, ObservedAlike, AlikeFollows
<1>13. events \in Seq(Queued)
  BY <1>6, <1>8, <1>10
<1> HIDE DEF next, events
<1> QED
  BY <1>9, <1>12, <1>13

-----------------------------------------------------------------------------
(* Resuming. *)

\* The numbers of a sequence have a greatest one, or 0.
LEMMA GreatestOf ==
    ASSUME NEW n \in Nat, NEW f, \A i \in 1..n : f[i] \in Nat
    PROVE  \E m \in Nat : /\ m = 0 \/ \E i \in 1..n : f[i] = m
                          /\ \A i \in 1..n : f[i] <= m
<1> DEFINE Tops(k, m) == /\ m = 0 \/ \E i \in 1..k : f[i] = m
                         /\ \A i \in 1..k : f[i] <= m
           T == {k \in 0..n : ~ \E m \in Nat : Tops(k, m)}
<1>1. ASSUME T # {} PROVE FALSE
  <2>1. T \in SUBSET Nat
    OBVIOUS
  <2>2. PICK k \in T : \A t \in T : k <= t
    <3> HIDE DEF T
    <3> QED
      BY <1>1, <2>1, LeastNumber
  <2>3. k \in 0..n /\ ~ \E m \in Nat : Tops(k, m)
    BY <2>2
  <2>4. k # 0
    <3>1. Tops(0, 0)
      OBVIOUS
    <3> QED
      BY <2>3, <3>1
  <2>5. k \in 1..n /\ k - 1 \in 0..n /\ k - 1 \notin T
    <3>1. k \in 1..n /\ k - 1 \in 0..n /\ ~ (k <= k - 1)
      BY <2>3, <2>4
    <3> HIDE DEF T
    <3> QED
      BY <2>2, <3>1
  <2>6. PICK m \in Nat : Tops(k - 1, m)
    BY <2>5
  <2>7. \A i \in 1..k : i \in 1..(k - 1) \/ i = k
    BY <2>5
  <2>8. \A i \in 1..(k - 1) : i \in 1..k
    BY <2>5
  <2>9. f[k] \in Nat
    BY <2>5
  <2>10. CASE f[k] <= m
    <3>1. Tops(k, m)
      BY <2>6, <2>7, <2>8, <2>9, <2>10
    <3> QED
      BY <2>3, <3>1
  <2>11. CASE ~ (f[k] <= m)
    <3>1. k \in 1..k
      BY <2>5
    <3>2. \A i \in 1..(k - 1) : f[i] \in Nat
      BY <2>5
    <3>3. Tops(k, f[k])
      BY <2>6, <2>7, <2>9, <2>11, <3>1, <3>2
    <3> QED
      BY <2>3, <2>9, <3>3
  <2> QED
    BY <2>10, <2>11
<1>2. n \notin T
  BY <1>1
<1> QED
  BY <1>2

LEMMA LargestIs ==
    ASSUME TraceTyped, NEW r \in Runs
    PROVE  /\ LargestOnDisk(r) \in Nat
           /\ \A i \in DOMAIN runfile[r] : runfile[r][i].id.seq <= LargestOnDisk(r)
<1> DEFINE file == runfile[r]
           seqs == {e.id.seq : e \in ToSet(file)} \cup {0}
           top == CHOOSE n \in seqs : \A m \in seqs : m <= n
           f == [i \in 1..Len(file) |-> file[i].id.seq]
<1>1. file \in Seq(Filed)
  BY DEF TraceTyped
<1> HIDE DEF file
<1>2. Len(file) \in Nat /\ DOMAIN file = 1..Len(file) /\ \A i \in 1..Len(file) : file[i] \in Filed
  BY <1>1
<1>3. \A i \in 1..Len(file) : f[i] = file[i].id.seq /\ f[i] \in Nat
  BY <1>2 DEF Filed
<1>4. /\ \A i \in 1..Len(file) : f[i] \in seqs
      /\ 0 \in seqs
      /\ \A m \in seqs : m = 0 \/ \E i \in 1..Len(file) : f[i] = m
  BY <1>2, <1>3 DEF ToSet
<1> HIDE DEF f, seqs
<1>5. PICK m \in Nat : /\ m = 0 \/ \E i \in 1..Len(file) : f[i] = m
                       /\ \A i \in 1..Len(file) : f[i] <= m
  BY <1>2, <1>3, GreatestOf
<1>6. m \in seqs /\ \A x \in seqs : x <= m
  BY <1>4, <1>5
<1>7. top \in seqs /\ \A x \in seqs : x <= top
  BY <1>6, Zenon
<1> HIDE DEF top
<1>8. top \in Nat /\ \A i \in 1..Len(file) : f[i] <= top
  BY <1>3, <1>4, <1>7
<1>9. LargestOnDisk(r) = top
  BY DEF LargestOnDisk, top, seqs, file
<1> QED
  BY <1>2, <1>3, <1>8, <1>9 DEF file

LEMMA RestartedAre ==
    ASSUME NEW old \in States, NEW n \in Nat
    PROVE  LET st == [old EXCEPT !.seq = n, !.prefix = old.calls, !.counted = 0]
           IN  /\ st \in States /\ st.up = old.up /\ st.calls = old.calls
               /\ st.prefix = old.calls /\ st.counted = 0 /\ st.seq = n
BY DEF States

LEMMA ReconciledIs ==
    ASSUME TraceTyped, NEW r \in Runs
    PROVE  LET st == Reconciled(r, saved[r])
           IN  /\ st \in States /\ st.up = saved[r].up /\ st.calls = saved[r].calls
               /\ st.prefix = saved[r].calls /\ st.counted = 0
               /\ \A i \in DOMAIN runfile[r] : runfile[r][i].id.seq <= st.seq
<1> DEFINE old == saved[r]
           seq == IF LargestOnDisk(r) > old.seq THEN LargestOnDisk(r) ELSE old.seq
<1>1. old \in States /\ old.seq \in Nat /\ old.calls \in Seq(Calls)
  BY DEF TraceTyped, States
<1>2. LargestOnDisk(r) \in Nat
      /\ \A i \in DOMAIN runfile[r] : runfile[r][i].id.seq <= LargestOnDisk(r)
  BY LargestIs
<1>3. \A i \in DOMAIN runfile[r] : runfile[r][i].id.seq \in Nat
  <2>1. runfile[r] \in Seq(Filed)
    BY DEF TraceTyped
  <2>2. \A i \in DOMAIN runfile[r] : runfile[r][i] \in Filed
    BY <2>1
  <2> QED
    BY <2>2 DEF Filed
<1>4. seq \in Nat /\ \A i \in DOMAIN runfile[r] : runfile[r][i].id.seq <= seq
  BY <1>1, <1>2, <1>3
<1>5. Reconciled(r, old) = [old EXCEPT !.seq = seq, !.prefix = old.calls, !.counted = 0]
  BY DEF Reconciled
<1> HIDE DEF old, seq
<1>6. LET st == Reconciled(r, old)
      IN  /\ st \in States /\ st.up = old.up /\ st.calls = old.calls
          /\ st.prefix = old.calls /\ st.counted = 0 /\ st.seq = seq
  <2> DEFINE new == [old EXCEPT !.seq = seq, !.prefix = old.calls, !.counted = 0]
  <2>1. /\ new \in States /\ new.up = old.up /\ new.calls = old.calls
        /\ new.prefix = old.calls /\ new.counted = 0 /\ new.seq = seq
    BY <1>1, <1>4, RestartedAre
  <2>2. Reconciled(r, old) = new
    BY <1>5
  <2> HIDE DEF new
  <2> QED
    BY <2>1, <2>2
<1> QED
  BY <1>4, <1>6 DEF old

-----------------------------------------------------------------------------
(* The invariant of the harness: an event's number is not above its run's, *)
(* the case's file holds events of the runs' files, and each call a run    *)
(* counts has its event in the file or in the queue.                       *)

Logged(r, c) == \E i \in DOMAIN runfile[r] : runfile[r][i].call = c
Pending(r, c) ==
  \E i \in DOMAIN todo[r] : todo[r][i].call = c /\ todo[r][i].kind # "write_trace"
Covered(r, c) == Logged(r, c) \/ Pending(r, c)

IdsInv ==
  /\ \A r \in Runs : \A i \in DOMAIN runfile[r] :
       /\ runfile[r][i].id.run = r
       /\ mem[r].up => runfile[r][i].id.seq <= mem[r].seq
  /\ EventIdsUnique

CallsInv ==
  \A r \in Runs :
    /\ ~mem[r].up => sdk[r] = <<>>
    /\ mem[r].up => /\ mem[r].counted <= Len(sdk[r])
                    /\ \A i \in DOMAIN mem[r].calls : Covered(r, mem[r].calls[i])
                    /\ \A i \in DOMAIN mem[r].prefix : Covered(r, mem[r].prefix[i])
                    /\ \A i \in 1..mem[r].counted : Covered(r, sdk[r][i])
    /\ saved[r].up => \A i \in DOMAIN saved[r].calls : Logged(r, saved[r].calls[i])

TraceInv == TraceTyped /\ IdsInv /\ CallsInv

LEMMA TraceInit == Init => TraceInv
<1> SUFFICES ASSUME Init PROVE TraceInv
  OBVIOUS
<1>1. /\ mem = [r \in Runs |-> Down] /\ saved = [r \in Runs |-> Down]
      /\ sdk = [r \in Runs |-> <<>>] /\ todo = [r \in Runs |-> <<>>]
      /\ runfile = [r \in Runs |-> <<>>] /\ casefile = <<>>
  BY DEF Init
<1>2. TraceTyped
  <2>1. mem \in [Runs -> States] /\ saved \in [Runs -> States]
    BY <1>1, DownIs
  <2>2. <<>> \in Seq(Calls) /\ <<>> \in Seq(Queued) /\ <<>> \in Seq(Filed)
    OBVIOUS
  <2> QED
    BY <1>1, <2>1, <2>2 DEF TraceTyped
<1>3. \A r \in Runs : /\ ~mem[r].up /\ ~saved[r].up /\ sdk[r] = <<>>
                      /\ DOMAIN runfile[r] = {}
  BY <1>1, DownIs
<1>4. DOMAIN casefile = {}
  BY <1>1
<1>5. IdsInv
  BY <1>3, <1>4 DEF IdsInv, EventIdsUnique
<1>6. CallsInv
  BY <1>3 DEF CallsInv
<1> QED
  BY <1>2, <1>5, <1>6 DEF TraceInv

\* A step of a run that leaves its files, its calls and its number alone
LEMMA AlikeKeeps ==
    ASSUME TraceInv, mem' \in [Runs -> States], todo' \in [Runs -> Seq(Queued)],
           \A r \in Runs : Alike(mem'[r], mem[r]),
           \A r \in Runs : todo'[r] = todo[r] \/ Ready(r),
           UNCHANGED <<sdk, saved, runfile, casefile>>
    PROVE  TraceInv'
<1>1. TraceTyped'
  BY DEF TraceInv, TraceTyped
<1>2. IdsInv'
  BY DEF TraceInv, IdsInv, EventIdsUnique, Alike
<1>3. \A r \in Runs : \A c : /\ Logged(r, c) <=> Logged(r, c)'
                             /\ Covered(r, c) => Covered(r, c)'
  BY DEF Logged, Pending, Covered, Ready
<1>4. CallsInv'
  BY <1>3 DEF TraceInv, CallsInv, Alike
<1> QED
  BY <1>1, <1>2, <1>4 DEF TraceInv

\* With nothing queued, what is covered is logged; the log only grows.
LEMMA ReadyLogged ==
    ASSUME NEW r \in Runs, todo[r] = <<>>, NEW c, Covered(r, c)
    PROVE  Logged(r, c)
BY DEF Covered, Pending

LEMMA BeginRunKeeps ==
    ASSUME TraceInv, NEW r \in Runs, BeginRun(r)
    PROVE  TraceInv'
<1>1. /\ ~mem[r].up /\ runfile[r] = <<>> /\ ~saved[r].up
      /\ mem' = [mem EXCEPT ![r] = Fresh] /\ todo' = [todo EXCEPT ![r] = <<>>]
      /\ UNCHANGED <<sdk, saved, runfile, casefile>>
  BY DEF BeginRun, Does
<1>2. TraceTyped
  BY DEF TraceInv
<1>3. mem'[r] = Fresh /\ \A q \in Runs \ {r} : mem'[q] = mem[q] /\ todo'[q] = todo[q]
  BY <1>1, <1>2 DEF TraceTyped
<1>4. TraceTyped'
  <2>1. mem' \in [Runs -> States]
    BY <1>1, <1>2, FreshIs DEF TraceTyped
  <2>2. todo' \in [Runs -> Seq(Queued)]
    BY <1>1, <1>2 DEF TraceTyped
  <2> QED
    BY <1>1, <1>2, <2>1, <2>2 DEF TraceTyped
<1>5. IdsInv'
  <2>1. DOMAIN runfile[r] = {}
    BY <1>1
  <2> QED
    BY <1>1, <1>3, <2>1 DEF TraceInv, IdsInv, EventIdsUnique
<1>6. CallsInv'
  <2>1. \A q \in Runs : \A c : Logged(q, c) <=> Logged(q, c)'
    BY <1>1 DEF Logged
  <2>2. \A q \in Runs \ {r} : \A c : Covered(q, c) <=> Covered(q, c)'
    BY <1>3, <2>1 DEF Covered, Pending
  <2>3. sdk[r] = <<>>
    BY <1>1 DEF TraceInv, CallsInv
  <2>4. Len(sdk[r]) = 0 /\ DOMAIN <<>> = {}
    BY <2>3
  <2>5. ASSUME NEW q \in Runs
        PROVE  /\ ~mem'[q].up => sdk'[q] = <<>>
               /\ mem'[q].up =>
                    /\ mem'[q].counted <= Len(sdk'[q])
                    /\ \A i \in DOMAIN mem'[q].calls : Covered(q, mem[q].calls[i])'
                    /\ \A i \in DOMAIN mem'[q].prefix : Covered(q, mem[q].prefix[i])'
                    /\ \A i \in 1..mem'[q].counted : Covered(q, sdk[q][i])'
    <3>1. CASE q = r
      BY <1>1, <1>3, <2>4, <3>1, FreshIs
    <3>2. CASE q # r
      BY <1>1, <1>3, <2>2, <3>2 DEF TraceInv, CallsInv
    <3> QED
      BY <3>1, <3>2
  <2>6. \A q \in Runs : saved'[q].up => \A i \in DOMAIN saved'[q].calls : Logged(q, saved[q].calls[i])'
    BY <1>1, <2>1 DEF TraceInv, CallsInv
  <2> QED
    BY <2>5, <2>6 DEF CallsInv
<1> QED
  BY <1>4, <1>5, <1>6 DEF TraceInv

LEMMA CallModelKeeps ==
    ASSUME TraceInv, NEW r \in Runs, NEW c \in Calls, CallModel(r, c)
    PROVE  TraceInv'
<1>1. /\ mem[r].up /\ sdk' = [sdk EXCEPT ![r] = Append(sdk[r], c)]
      /\ UNCHANGED <<mem, saved, runfile, casefile, todo>>
  BY DEF CallModel, Ready
<1>2. TraceTyped
  BY DEF TraceInv
<1>3. sdk[r] \in Seq(Calls) /\ mem[r].counted \in Nat
  BY <1>2 DEF TraceTyped, States
<1>4. /\ sdk'[r] \in Seq(Calls) /\ Len(sdk'[r]) = Len(sdk[r]) + 1
      /\ \A i \in 1..Len(sdk[r]) : sdk'[r][i] = sdk[r][i]
  BY <1>1, <1>2, <1>3 DEF TraceTyped
<1>5. \A q \in Runs \ {r} : sdk'[q] = sdk[q]
  BY <1>1, <1>2 DEF TraceTyped
<1>6. TraceTyped'
  BY <1>1, <1>2, <1>4, <1>5 DEF TraceTyped
<1>7. IdsInv'
  BY <1>1 DEF TraceInv, IdsInv, EventIdsUnique
<1>8. CallsInv'
  <2>1. \A q \in Runs : \A x : (Logged(q, x) <=> Logged(q, x)') /\ (Covered(q, x) <=> Covered(q, x)')
    BY <1>1 DEF Logged, Covered, Pending
  <2>2. mem[r].counted <= Len(sdk'[r])
        /\ \A i \in 1..mem[r].counted : sdk'[r][i] = sdk[r][i] /\ Covered(r, sdk[r][i])
    BY <1>1, <1>3, <1>4 DEF TraceInv, CallsInv
  <2>3. ASSUME NEW q \in Runs
        PROVE  /\ ~mem'[q].up => sdk'[q] = <<>>
               /\ mem'[q].up =>
                    /\ mem'[q].counted <= Len(sdk'[q])
                    /\ \A i \in 1..mem'[q].counted : Covered(q, sdk[q][i])'
    <3>1. CASE q = r
      BY <1>1, <2>1, <2>2, <3>1
    <3>2. CASE q # r
      BY <1>1, <1>5, <2>1, <3>2 DEF TraceInv, CallsInv
    <3> QED
      BY <3>1, <3>2
  <2> QED
    BY <1>1, <2>1, <2>3 DEF TraceInv, CallsInv
<1> QED
  BY <1>6, <1>7, <1>8 DEF TraceInv

LEMMA RecordModelCallsKeeps ==
    ASSUME TraceInv, NEW r \in Runs, RecordModelCalls(r)
    PROVE  TraceInv'
<1> DEFINE new == Recorded(r, mem[r], sdk[r])
           events == RecordedEvents(mem[r], sdk[r])
<1>1. /\ mem[r].up /\ todo[r] = <<>>
      /\ mem' = [mem EXCEPT ![r] = new] /\ todo' = [todo EXCEPT ![r] = events]
      /\ UNCHANGED <<sdk, saved, runfile, casefile>>
  BY DEF RecordModelCalls, Ready, Does
<1>2. TraceTyped
  BY DEF TraceInv
<1>3. /\ mem[r] \in States /\ sdk[r] \in Seq(Calls) /\ mem[r].counted <= Len(sdk[r])
      /\ mem[r].counted \in Nat /\ mem[r].prefix \in Seq(Calls)
  BY <1>1, <1>2 DEF TraceTyped, States, TraceInv, CallsInv
<1>4. /\ new \in States /\ new.up = mem[r].up /\ new.seq = mem[r].seq
      /\ new.prefix = mem[r].prefix /\ new.calls = mem[r].prefix \o sdk[r]
      /\ new.counted = Len(sdk[r])
  BY <1>3, RecordedIs
<1>5. /\ events \in Seq(Queued)
      /\ \A i \in (mem[r].counted + 1)..Len(sdk[r]) :
           \E e \in ToSet(events) : e.call = sdk[r][i] /\ e.kind # "write_trace"
  BY <1>3, RecordedEventsAre
<1> HIDE DEF new, events
<1>6. /\ mem'[r] = new /\ todo'[r] = events
      /\ \A q \in Runs \ {r} : mem'[q] = mem[q] /\ todo'[q] = todo[q]
  BY <1>1, <1>2 DEF TraceTyped
<1>7. TraceTyped'
  BY <1>1, <1>2, <1>4, <1>5 DEF TraceTyped
<1>8. IdsInv'
  BY <1>1, <1>4, <1>6 DEF TraceInv, IdsInv, EventIdsUnique
<1>9. CallsInv'
  <2>1. \A q \in Runs : \A c : Logged(q, c) <=> Logged(q, c)'
    BY <1>1 DEF Logged
  <2>2. \A q \in Runs \ {r} : \A c : Covered(q, c) <=> Covered(q, c)'
    BY <1>6, <2>1 DEF Covered, Pending
  <2>3. \A c : Covered(r, c) => Covered(r, c)'
    BY <1>1, <2>1, ReadyLogged DEF Covered
  <2>4. \A i \in 1..mem[r].counted : Covered(r, sdk[r][i])'
    BY <1>1, <2>3 DEF TraceInv, CallsInv
  <2>5. \A i \in (mem[r].counted + 1)..Len(sdk[r]) : Covered(r, sdk[r][i])'
    <3> TAKE i \in (mem[r].counted + 1)..Len(sdk[r])
    <3>1. PICK e \in ToSet(events) : e.call = sdk[r][i] /\ e.kind # "write_trace"
      BY <1>5
    <3>2. PICK j \in DOMAIN events : events[j] = e
      BY <3>1 DEF ToSet
    <3>3. Pending(r, sdk[r][i])'
      BY <1>1, <1>6, <3>1, <3>2 DEF Pending
    <3> QED
      BY <3>3 DEF Covered
  <2>6. \A i \in 1..Len(sdk[r]) : Covered(r, sdk[r][i])'
    <3>1. \A i \in 1..Len(sdk[r]) : i \in 1..mem[r].counted \/ i \in (mem[r].counted + 1)..Len(sdk[r])
      BY <1>3
    <3> QED
      BY <2>4, <2>5, <3>1
  <2>7. \A i \in DOMAIN mem[r].prefix : Covered(r, mem[r].prefix[i])'
    <3>1. mem'[r].prefix = mem[r].prefix
      BY <1>4, <1>6
    <3> QED
      BY <1>1, <2>3, <3>1 DEF TraceInv, CallsInv
  <2>8. \A i \in DOMAIN mem'[r].calls : Covered(r, mem[r].calls[i])'
    <3> DEFINE a == mem[r].prefix
               b == sdk[r]
    <3>1. a \in Seq(Calls) /\ b \in Seq(Calls) /\ mem'[r].calls = a \o b /\ sdk'[r] = b
      BY <1>1, <1>3, <1>4, <1>6
    <3>2. mem'[r].prefix = a
      BY <1>4, <1>6
    <3>3. \A i \in DOMAIN a : Covered(r, a[i])'
      BY <2>7, <3>2
    <3>4. \A i \in 1..Len(b) : Covered(r, b[i])'
      BY <2>6, <3>1
    <3> DEFINE all == mem'[r].calls
    <3>5. all = a \o b
      BY <3>1
    <3> HIDE DEF a, b, all
    <3>6. \A i \in DOMAIN all : \/ i \in DOMAIN a /\ all[i] = a[i]
                                \/ i - Len(a) \in 1..Len(b) /\ all[i] = b[i - Len(a)]
      BY <3>1, <3>5
    <3>7. \A i \in DOMAIN all : \/ \E j \in DOMAIN a : all[i] = a[j]
                                \/ \E j \in 1..Len(b) : all[i] = b[j]
      BY <3>6
    <3>8. \A i \in DOMAIN mem'[r].calls :
            \/ \E j \in DOMAIN mem'[r].prefix : mem'[r].calls[i] = mem'[r].prefix[j]
            \/ \E j \in 1..Len(sdk[r]) : mem'[r].calls[i] = sdk'[r][j]
      BY <3>1, <3>2, <3>7 DEF all, a, b
    <3>9. mem'[r].prefix = mem[r].prefix
      BY <3>2 DEF a
    <3> QED
      BY <2>6, <2>7, <3>8, <3>9 DEF Covered, Logged, Pending
  <2>9. ASSUME NEW q \in Runs
        PROVE  /\ ~mem'[q].up => sdk'[q] = <<>>
               /\ mem'[q].up =>
                    /\ mem'[q].counted <= Len(sdk'[q])
                    /\ \A i \in DOMAIN mem'[q].calls : Covered(q, mem[q].calls[i])'
                    /\ \A i \in DOMAIN mem'[q].prefix : Covered(q, mem[q].prefix[i])'
                    /\ \A i \in 1..mem'[q].counted : Covered(q, sdk[q][i])'
    <3>1. CASE q = r
      <4>1. Len(sdk[r]) \in Nat /\ sdk'[r] = sdk[r]
        BY <1>1, <1>3
      <4>2. mem'[r].up /\ mem'[r].counted = Len(sdk[r]) /\ mem'[r].prefix = mem[r].prefix
        BY <1>1, <1>4, <1>6
      <4>3. mem'[r].counted <= Len(sdk'[r])
        BY <4>1, <4>2
      <4> QED
        BY <2>6, <2>7, <2>8, <3>1, <4>1, <4>2, <4>3
    <3>2. CASE q # r
      BY <1>1, <1>6, <2>2, <3>2 DEF TraceInv, CallsInv
    <3> QED
      BY <3>1, <3>2
  <2> QED
    BY <1>1, <2>1, <2>9 DEF TraceInv, CallsInv
<1> QED
  BY <1>7, <1>8, <1>9 DEF TraceInv

LEMMA FinalizeKeeps ==
    ASSUME TraceInv, NEW r \in Runs, Finalize(r)
    PROVE  TraceInv'
<1> DEFINE new == [mem[r] EXCEPT !.final = TRUE]
           events == <<Event("final_answer", mem[r].action), Event("write_trace", None)>>
<1>1. /\ Ready(r) /\ mem' = [mem EXCEPT ![r] = new] /\ todo' = [todo EXCEPT ![r] = events]
      /\ UNCHANGED <<sdk, saved, runfile, casefile>>
  BY DEF Finalize, Does
<1>2. mem[r] \in States /\ mem[r].action \in IdRecord
  BY DEF TraceInv, TraceTyped, States
<1>3. Alike(new, mem[r])
  BY <1>2 DEF Alike, States
<1>4. events \in Seq(Queued)
  <2>1. Event("final_answer", mem[r].action) \in Queued /\ Event("write_trace", None) \in Queued
    BY <1>2, EventIs, DownIs, WordsAre
  <2> QED
    BY <2>1
<1> HIDE DEF new, events
<1>5. mem \in [Runs -> States] /\ todo \in [Runs -> Seq(Queued)]
  BY DEF TraceInv, TraceTyped
<1>6. mem' \in [Runs -> States] /\ todo' \in [Runs -> Seq(Queued)]
  BY <1>1, <1>3, <1>4, <1>5 DEF Alike
<1>7. \A q \in Runs : Alike(mem[q], mem[q])
  BY <1>5 DEF Alike
<1>8. \A q \in Runs : Alike(mem'[q], mem[q]) /\ (todo'[q] = todo[q] \/ Ready(q))
  BY <1>1, <1>3, <1>5, <1>7
<1> QED
  BY <1>1, <1>6, <1>8, AlikeKeeps

LEMMA DecideKeeps ==
    ASSUME TraceInv, NEW r \in Runs, NEW d, NEW fs \in Findings, Decide(r, d, fs)
    PROVE  TraceInv'
<1>1. TraceTyped
  BY DEF TraceInv
<1>2. PICK new, events : /\ Alike(new, mem[r]) /\ events \in Seq(Queued)
                         /\ mem' = [mem EXCEPT ![r] = new]
                         /\ todo' = [todo EXCEPT ![r] = events]
  BY <1>1, DecideIs
<1>3. Ready(r) /\ UNCHANGED <<sdk, saved, runfile, casefile>>
  BY <1>1, DecideIs
<1>4. mem \in [Runs -> States] /\ todo \in [Runs -> Seq(Queued)]
  BY <1>1 DEF TraceTyped
<1>5. mem' \in [Runs -> States] /\ todo' \in [Runs -> Seq(Queued)]
  BY <1>2, <1>4 DEF Alike
<1>6. \A q \in Runs : Alike(mem[q], mem[q])
  BY <1>4 DEF Alike
<1>7. \A q \in Runs : Alike(mem'[q], mem[q]) /\ (todo'[q] = todo[q] \/ Ready(q))
  BY <1>2, <1>3, <1>4, <1>6
<1> QED
  BY <1>3, <1>5, <1>7, AlikeKeeps

-----------------------------------------------------------------------------
(* Appending: the number of an event is one above its run's. *)

LEMMA NumberedIs ==
    ASSUME TraceTyped, NEW r \in Runs, todo[r] # <<>>
    PROVE  LET e == Numbered(r, Head(todo[r]))
           IN  /\ e \in Filed /\ e.id.run = r /\ e.id.seq = mem[r].seq + 1
               /\ e.call = Head(todo[r]).call
<1> DEFINE head == Head(todo[r])
<1>1. head \in Queued
  BY DEF TraceTyped
<1>2. mem[r].seq \in Nat /\ CaseSeq \in Nat
  BY DEF TraceTyped, States, CaseSeq
<1> HIDE DEF head
<1>3. /\ Numbered(r, head) \in Filed /\ Numbered(r, head).id.run = r
      /\ Numbered(r, head).id.seq = mem[r].seq + 1 /\ Numbered(r, head).call = head.call
  <2> DEFINE id == EventId(r, mem[r].seq + 1)
  <2>1. id \in [run : Runs, seq : Nat] /\ id.run = r /\ id.seq = mem[r].seq + 1
    BY <1>2 DEF EventId
  <2>2. /\ head.kind \in Words /\ head.call \in Calls \cup {""} /\ head.child \in Words
        /\ head.stage \in Words /\ head.cause \in IdRecord
    BY <1>1 DEF Queued
  <2> HIDE DEF id
  <2>3. Numbered(r, head) = [id |-> id, case |-> CaseSeq, kind |-> head.kind, call |-> head.call,
                             child |-> head.child, stage |-> head.stage, cause |-> head.cause]
    BY DEF Numbered, id
  <2>4. Numbered(r, head).id = id /\ Numbered(r, head).call = head.call
    BY <2>3
  <2>5. Numbered(r, head) \in Filed
    <3> DEFINE n == CaseSeq
    <3>1. n \in Nat
      BY <1>2
    <3> HIDE DEF n
    <3>2. [id |-> id, case |-> n, kind |-> head.kind, call |-> head.call, child |-> head.child,
           stage |-> head.stage, cause |-> head.cause] \in Filed
      BY <2>1, <2>2, <3>1 DEF Filed
    <3> QED
      BY <2>3, <3>2 DEF n
  <2> QED
    BY <2>1, <2>4, <2>5
<1> QED
  BY <1>3 DEF head

\* The run's file with the event at the head of its queue
Grown(r) == Append(runfile[r], Numbered(r, Head(todo[r])))

LEMMA GrownIs ==
    ASSUME TraceInv, NEW r \in Runs, mem[r].up, todo[r] # <<>>
    PROVE  /\ Grown(r) \in Seq(Filed)
           /\ \A i \in DOMAIN Grown(r) :
                Grown(r)[i].id.run = r /\ Grown(r)[i].id.seq <= mem[r].seq + 1
           /\ \A i, j \in DOMAIN Grown(r) : Grown(r)[i].id = Grown(r)[j].id => i = j
           /\ \A i \in DOMAIN runfile[r] : i \in DOMAIN Grown(r) /\ Grown(r)[i] = runfile[r][i]
           /\ \E i \in DOMAIN Grown(r) : Grown(r)[i] = Numbered(r, Head(todo[r]))
<1> DEFINE e == Numbered(r, Head(todo[r]))
           file == runfile[r]
           n == Len(file)
<1>1. e \in Filed /\ e.id.run = r /\ e.id.seq = mem[r].seq + 1
  BY NumberedIs DEF TraceInv
<1>2. file \in Seq(Filed) /\ mem[r].seq \in Nat
  BY DEF TraceInv, TraceTyped, States
<1>3. \A i \in DOMAIN file : /\ file[i].id.run = r /\ file[i].id.seq <= mem[r].seq
                             /\ file[i].id.seq \in Nat
  <2>1. \A i \in DOMAIN file : file[i] \in Filed
    BY <1>2
  <2>2. \A i \in DOMAIN file : file[i].id.seq \in Nat
    BY <2>1 DEF Filed
  <2> QED
    BY <2>2 DEF TraceInv, IdsInv
<1>4. \A i, j \in DOMAIN file : file[i].id = file[j].id => i = j
  BY DEF TraceInv, IdsInv, EventIdsUnique
<1> HIDE DEF e, file
<1> DEFINE new == Append(file, e)
<1>5. /\ new \in Seq(Filed) /\ n \in Nat /\ DOMAIN file = 1..n /\ DOMAIN new = 1..(n + 1)
      /\ new[n + 1] = e /\ \A i \in 1..n : new[i] = file[i]
  BY <1>1, <1>2
<1> HIDE DEF new, n
<1>6. \A i \in DOMAIN new : (i \in DOMAIN file /\ new[i] = file[i]) \/ (i = n + 1 /\ new[i] = e)
  BY <1>5
<1>7. \A i \in DOMAIN new : new[i].id.run = r /\ new[i].id.seq <= mem[r].seq + 1
  BY <1>1, <1>2, <1>3, <1>6
<1>8. \A i, j \in DOMAIN new : new[i].id = new[j].id => i = j
  <2>1. \A i \in DOMAIN file : file[i].id # e.id
    BY <1>1, <1>2, <1>3
  <2> QED
    BY <1>4, <1>6, <2>1
<1>9. /\ \A i \in DOMAIN file : i \in DOMAIN new /\ new[i] = file[i]
      /\ \E i \in DOMAIN new : new[i] = e
  BY <1>5
<1> QED
  BY <1>5, <1>7, <1>8, <1>9 DEF Grown, new, file, e

LEMMA CountedOn ==
    ASSUME NEW st \in States, NEW n \in Nat
    PROVE  /\ [st EXCEPT !.seq = n] \in States
           /\ [st EXCEPT !.seq = n].up = st.up /\ [st EXCEPT !.seq = n].seq = n
           /\ [st EXCEPT !.seq = n].calls = st.calls /\ [st EXCEPT !.seq = n].prefix = st.prefix
           /\ [st EXCEPT !.seq = n].counted = st.counted
BY DEF States

LEMMA AppendEventKeeps ==
    ASSUME TraceInv, NEW r \in Runs, AppendEvent(r)
    PROVE  TraceInv'
<1> DEFINE e == Numbered(r, Head(todo[r]))
<1>1. /\ mem[r].up /\ todo[r] # <<>> /\ Head(todo[r]).kind # "write_trace"
      /\ mem' = [mem EXCEPT ![r].seq = mem[r].seq + 1]
      /\ runfile' = [runfile EXCEPT ![r] = Grown(r)] /\ casefile' = Append(casefile, e)
      /\ todo' = [todo EXCEPT ![r] = Tail(todo[r])]
      /\ UNCHANGED <<sdk, saved>>
  BY DEF AppendEvent, Grown
<1>2. TraceTyped
  BY DEF TraceInv
<1>3. /\ Grown(r) \in Seq(Filed)
      /\ \A i \in DOMAIN Grown(r) :
           Grown(r)[i].id.run = r /\ Grown(r)[i].id.seq <= mem[r].seq + 1
      /\ \A i, j \in DOMAIN Grown(r) : Grown(r)[i].id = Grown(r)[j].id => i = j
      /\ \A i \in DOMAIN runfile[r] : i \in DOMAIN Grown(r) /\ Grown(r)[i] = runfile[r][i]
      /\ \E i \in DOMAIN Grown(r) : Grown(r)[i] = e
  BY <1>1, GrownIs
<1>4. e \in Filed /\ e.id.run = r /\ e.id.seq = mem[r].seq + 1 /\ e.call = Head(todo[r]).call
  BY <1>1, <1>2, NumberedIs
<1> HIDE DEF e
<1>5. mem[r] \in States /\ mem[r].seq \in Nat /\ todo[r] \in Seq(Queued)
      /\ casefile \in Seq(Filed)
  BY <1>2 DEF TraceTyped, States
<1> DEFINE new == [mem[r] EXCEPT !.seq = mem[r].seq + 1]
<1>6. /\ new \in States /\ new.up = mem[r].up /\ new.seq = mem[r].seq + 1
      /\ new.calls = mem[r].calls /\ new.prefix = mem[r].prefix /\ new.counted = mem[r].counted
  <2>1. mem[r].seq + 1 \in Nat
    BY <1>5
  <2> QED
    BY <1>5, <2>1, CountedOn
<1>7. /\ mem'[r] = new /\ todo'[r] = Tail(todo[r]) /\ runfile'[r] = Grown(r)
      /\ \A q \in Runs \ {r} : mem'[q] = mem[q] /\ todo'[q] = todo[q] /\ runfile'[q] = runfile[q]
  BY <1>1, <1>2 DEF TraceTyped
<1> HIDE DEF new
<1>8. TraceTyped'
  <2>1. mem' \in [Runs -> States]
    BY <1>1, <1>2, <1>6, <1>7 DEF TraceTyped
  <2>2. Tail(todo[r]) \in Seq(Queued) /\ Append(casefile, e) \in Seq(Filed)
    BY <1>1, <1>4, <1>5
  <2> QED
    BY <1>1, <1>2, <1>3, <2>1, <2>2 DEF TraceTyped
<1>9. IdsInv'
  <2>1. ASSUME NEW q \in Runs, NEW i \in DOMAIN runfile'[q]
        PROVE  runfile'[q][i].id.run = q /\ (mem'[q].up => runfile'[q][i].id.seq <= mem'[q].seq)
    <3>1. CASE q = r
      BY <1>3, <1>6, <1>7, <3>1
    <3>2. CASE q # r
      BY <1>7, <3>2 DEF TraceInv, IdsInv
    <3> QED
      BY <3>1, <3>2
  <2>2. \A q \in Runs : \A i, j \in DOMAIN runfile'[q] :
          runfile'[q][i].id = runfile'[q][j].id => i = j
    <3> TAKE q \in Runs
    <3>1. CASE q = r
      BY <1>3, <1>7, <3>1
    <3>2. CASE q # r
      BY <1>7, <3>2 DEF TraceInv, IdsInv, EventIdsUnique
    <3> QED
      BY <3>1, <3>2
  <2> DEFINE n == Len(casefile)
  <2>3. /\ n \in Nat /\ DOMAIN casefile = 1..n /\ DOMAIN casefile' = 1..(n + 1)
        /\ casefile'[n + 1] = e /\ \A i \in 1..n : casefile'[i] = casefile[i]
    BY <1>1, <1>4, <1>5
  <2> HIDE DEF n
  <2>4. \A i \in DOMAIN casefile' : \/ i \in DOMAIN casefile /\ casefile'[i] = casefile[i]
                                    \/ i = n + 1 /\ casefile'[i] = e
    BY <2>3
  <2>5. \A i \in DOMAIN casefile : /\ casefile[i] \in ToSet(runfile[casefile[i].id.run])
                                   /\ casefile[i].id.run \in Runs
    <3>1. \A i \in DOMAIN casefile : casefile[i] \in Filed
      BY <1>5
    <3>2. \A i \in DOMAIN casefile : casefile[i].id.run \in Runs
      BY <3>1 DEF Filed
    <3> QED
      BY <3>2 DEF TraceInv, IdsInv, EventIdsUnique
  <2>6. \A q \in Runs : \A x \in ToSet(runfile[q]) : x \in ToSet(runfile'[q])
    <3> TAKE q \in Runs
    <3>1. CASE q = r
      BY <1>3, <1>7, <3>1 DEF ToSet
    <3>2. CASE q # r
      BY <1>7, <3>2
    <3> QED
      BY <3>1, <3>2
  <2>7. e \in ToSet(runfile'[r])
    BY <1>3, <1>7 DEF ToSet
  <2>8. \A i \in DOMAIN casefile' : casefile'[i] \in ToSet(runfile'[casefile'[i].id.run])
    BY <1>4, <2>4, <2>5, <2>6, <2>7
  <2>9. \A i \in DOMAIN casefile : casefile[i].id # e.id
    <3> SUFFICES ASSUME NEW i \in DOMAIN casefile, casefile[i].id = e.id PROVE FALSE
      OBVIOUS
    <3>1. casefile[i] \in ToSet(runfile[r])
      BY <1>4, <2>5
    <3>2. PICK j \in DOMAIN runfile[r] : runfile[r][j] = casefile[i]
      BY <3>1 DEF ToSet
    <3>3. runfile[r][j].id.seq <= mem[r].seq
      BY <1>1 DEF TraceInv, IdsInv
    <3> QED
      BY <1>4, <1>5, <3>2, <3>3
  <2>10. \A i, j \in DOMAIN casefile' : casefile'[i].id = casefile'[j].id => i = j
    <3>1. \A i, j \in DOMAIN casefile : casefile[i].id = casefile[j].id => i = j
      BY DEF TraceInv, IdsInv, EventIdsUnique
    <3> QED
      BY <2>4, <2>9, <3>1
  <2> QED
    BY <2>1, <2>2, <2>8, <2>10 DEF IdsInv, EventIdsUnique
<1>10. CallsInv'
  <2>1. \A q \in Runs : \A c : Logged(q, c) => Logged(q, c)'
    <3> SUFFICES ASSUME NEW q \in Runs, NEW c PROVE Logged(q, c) => Logged(q, c)'
      OBVIOUS
    <3>1. CASE q = r
      BY <1>3, <1>7, <3>1 DEF Logged
    <3>2. CASE q # r
      BY <1>7, <3>2 DEF Logged
    <3> QED
      BY <3>1, <3>2
  <2>2. \A q \in Runs : \A c : Pending(q, c) => Covered(q, c)'
    <3> SUFFICES ASSUME NEW q \in Runs, NEW c, Pending(q, c) PROVE Covered(q, c)'
      OBVIOUS
    <3>1. CASE q # r
      BY <1>7, <3>1 DEF Pending, Covered
    <3>2. CASE q = r
      <4> DEFINE queue == todo[r]
                 rest == Tail(queue)
      <4>1. queue \in Seq(Queued) /\ queue # <<>> /\ todo'[r] = rest
        BY <1>1, <1>5, <1>7
      <4>2. PICK i \in DOMAIN queue : queue[i].call = c /\ queue[i].kind # "write_trace"
        BY <3>2 DEF Pending
      <4>3. Head(queue).call = e.call
        BY <1>4
      <4> HIDE DEF queue
      <4>4. i = 1 \/ (i - 1 \in DOMAIN rest /\ rest[i - 1] = queue[i])
        BY <4>1, <4>2
      <4>5. Head(queue) = queue[1]
        BY <4>1
      <4> HIDE DEF rest
      <4>6. CASE i = 1
        <5>1. e.call = c
          BY <4>2, <4>3, <4>5, <4>6
        <5>2. Logged(r, c)'
          BY <1>3, <1>7, <5>1 DEF Logged
        <5> QED
          BY <3>2, <5>2 DEF Covered
      <4>7. CASE i # 1
        <5>1. Pending(r, c)'
          BY <4>1, <4>2, <4>4, <4>7 DEF Pending
        <5> QED
          BY <3>2, <5>1 DEF Covered
      <4> QED
        BY <4>6, <4>7
    <3> QED
      BY <3>1, <3>2
  <2>3. \A q \in Runs : \A c : Covered(q, c) => Covered(q, c)'
    BY <2>1, <2>2 DEF Covered
  <2>4. \A q \in Runs : /\ mem'[q].up = mem[q].up /\ mem'[q].calls = mem[q].calls
                        /\ mem'[q].prefix = mem[q].prefix /\ mem'[q].counted = mem[q].counted
    BY <1>6, <1>7
  <2>5. \A q \in Runs : saved'[q].up => \A i \in DOMAIN saved'[q].calls : Logged(q, saved[q].calls[i])'
    BY <1>1, <2>1 DEF TraceInv, CallsInv
  <2> QED
    BY <1>1, <2>3, <2>4, <2>5 DEF TraceInv, CallsInv
<1> QED
  BY <1>8, <1>9, <1>10 DEF TraceInv

-----------------------------------------------------------------------------
(* Traces, saved states, resuming and stopping. *)

LEMMA WriteTraceKeeps ==
    ASSUME TraceInv, NEW r \in Runs, WriteTrace(r)
    PROVE  TraceInv'
<1>1. /\ todo[r] # <<>> /\ Head(todo[r]).kind = "write_trace"
      /\ todo' = [todo EXCEPT ![r] = Tail(todo[r])]
      /\ UNCHANGED <<mem, sdk, saved, runfile, casefile>>
  BY DEF WriteTrace
<1>2. TraceTyped
  BY DEF TraceInv
<1>3. todo[r] \in Seq(Queued)
  BY <1>2 DEF TraceTyped
<1>4. Tail(todo[r]) \in Seq(Queued)
  BY <1>1, <1>3
<1>5. todo'[r] = Tail(todo[r]) /\ \A q \in Runs \ {r} : todo'[q] = todo[q]
  BY <1>1, <1>2 DEF TraceTyped
<1>6. TraceTyped'
  BY <1>1, <1>2, <1>4 DEF TraceTyped
<1>7. IdsInv'
  BY <1>1 DEF TraceInv, IdsInv, EventIdsUnique
<1>8. \A q \in Runs : \A c : (Logged(q, c) <=> Logged(q, c)') /\ (Pending(q, c) => Pending(q, c)')
  <2> SUFFICES ASSUME NEW q \in Runs, NEW c
               PROVE  (Logged(q, c) <=> Logged(q, c)') /\ (Pending(q, c) => Pending(q, c)')
    OBVIOUS
  <2>1. Logged(q, c) <=> Logged(q, c)'
    BY <1>1 DEF Logged
  <2>2. CASE q # r
    BY <1>5, <2>1, <2>2 DEF Pending
  <2>3. CASE q = r /\ Pending(r, c)
    <3> DEFINE queue == todo[r]
               rest == Tail(queue)
    <3>1. queue \in Seq(Queued) /\ queue # <<>> /\ todo'[r] = rest
          /\ Head(queue).kind = "write_trace"
      BY <1>1, <1>3, <1>5
    <3>2. PICK i \in DOMAIN queue : queue[i].call = c /\ queue[i].kind # "write_trace"
      BY <2>3 DEF Pending
    <3> HIDE DEF queue
    <3>3. i # 1
      BY <3>1, <3>2
    <3>4. i - 1 \in DOMAIN rest /\ rest[i - 1] = queue[i]
      BY <3>1, <3>2, <3>3
    <3> HIDE DEF rest
    <3> QED
      BY <2>1, <2>3, <3>1, <3>2, <3>4 DEF Pending
  <2> QED
    BY <2>1, <2>2, <2>3
<1>9. CallsInv'
  BY <1>1, <1>8 DEF TraceInv, CallsInv, Covered
<1> QED
  BY <1>6, <1>7, <1>9 DEF TraceInv

LEMMA SaveKeeps ==
    ASSUME TraceInv, NEW r \in Runs, Save(r)
    PROVE  TraceInv'
<1>1. /\ mem[r].up /\ todo[r] = <<>> /\ saved' = [saved EXCEPT ![r] = mem[r]]
      /\ UNCHANGED <<mem, sdk, runfile, casefile, todo>>
  BY DEF Save, Ready
<1>2. TraceTyped
  BY DEF TraceInv
<1>3. saved'[r] = mem[r] /\ \A q \in Runs \ {r} : saved'[q] = saved[q]
  BY <1>1, <1>2 DEF TraceTyped
<1>4. TraceTyped'
  BY <1>1, <1>2 DEF TraceTyped
<1>5. IdsInv'
  BY <1>1 DEF TraceInv, IdsInv, EventIdsUnique
<1>6. \A q \in Runs : \A c : (Logged(q, c) <=> Logged(q, c)') /\ (Covered(q, c) <=> Covered(q, c)')
  BY <1>1 DEF Logged, Covered, Pending
<1>7. \A i \in DOMAIN mem[r].calls : Logged(r, mem[r].calls[i])
  BY <1>1, ReadyLogged DEF TraceInv, CallsInv
<1>8. \A q \in Runs : saved'[q].up => \A i \in DOMAIN saved'[q].calls : Logged(q, saved[q].calls[i])'
  <2> TAKE q \in Runs
  <2>1. CASE q = r
    BY <1>3, <1>6, <1>7, <2>1
  <2>2. CASE q # r
    BY <1>3, <1>6, <2>2 DEF TraceInv, CallsInv
  <2> QED
    BY <2>1, <2>2
<1>9. CallsInv'
  BY <1>1, <1>6, <1>8 DEF TraceInv, CallsInv
<1> QED
  BY <1>4, <1>5, <1>9 DEF TraceInv

LEMMA ClearKeeps ==
    ASSUME TraceInv, NEW r \in Runs, Clear(r)
    PROVE  TraceInv'
<1>1. /\ saved' = [saved EXCEPT ![r] = Down] /\ UNCHANGED <<mem, sdk, runfile, casefile, todo>>
  BY DEF Clear
<1>2. TraceTyped
  BY DEF TraceInv
<1>3. saved'[r] = Down /\ \A q \in Runs \ {r} : saved'[q] = saved[q]
  BY <1>1, <1>2 DEF TraceTyped
<1>4. TraceTyped'
  BY <1>1, <1>2, DownIs DEF TraceTyped
<1>5. IdsInv'
  BY <1>1 DEF TraceInv, IdsInv, EventIdsUnique
<1>6. \A q \in Runs : \A c : (Logged(q, c) <=> Logged(q, c)') /\ (Covered(q, c) <=> Covered(q, c)')
  BY <1>1 DEF Logged, Covered, Pending
<1>7. \A q \in Runs : saved'[q].up => \A i \in DOMAIN saved'[q].calls : Logged(q, saved[q].calls[i])'
  BY <1>3, <1>6, DownIs DEF TraceInv, CallsInv
<1>8. CallsInv'
  BY <1>1, <1>6, <1>7 DEF TraceInv, CallsInv
<1> QED
  BY <1>4, <1>5, <1>8 DEF TraceInv

LEMMA ResumeKeeps ==
    ASSUME TraceInv, NEW r \in Runs, Resume(r)
    PROVE  TraceInv'
<1> DEFINE new == Reconciled(r, saved[r])
<1>1. /\ ~mem[r].up /\ saved[r].up /\ mem' = [mem EXCEPT ![r] = new]
      /\ todo' = [todo EXCEPT ![r] = <<>>] /\ UNCHANGED <<sdk, saved, runfile, casefile>>
  BY DEF Resume, Does
<1>2. TraceTyped
  BY DEF TraceInv
<1>3. /\ new \in States /\ new.up = saved[r].up /\ new.calls = saved[r].calls
      /\ new.prefix = saved[r].calls /\ new.counted = 0
      /\ \A i \in DOMAIN runfile[r] : runfile[r][i].id.seq <= new.seq
  BY <1>2, ReconciledIs
<1> HIDE DEF new
<1>4. mem'[r] = new /\ \A q \in Runs \ {r} : mem'[q] = mem[q] /\ todo'[q] = todo[q]
  BY <1>1, <1>2 DEF TraceTyped
<1>5. TraceTyped'
  <2>1. mem' \in [Runs -> States]
    BY <1>1, <1>2, <1>3 DEF TraceTyped
  <2>2. todo' \in [Runs -> Seq(Queued)]
    BY <1>1, <1>2 DEF TraceTyped
  <2> QED
    BY <1>1, <1>2, <2>1, <2>2 DEF TraceTyped
<1>6. IdsInv'
  <2>1. \A q \in Runs : \A i \in DOMAIN runfile[q] :
          /\ runfile[q][i].id.run = q
          /\ mem'[q].up => runfile[q][i].id.seq <= mem'[q].seq
    <3> TAKE q \in Runs
    <3>1. CASE q = r
      BY <1>3, <1>4, <3>1 DEF TraceInv, IdsInv
    <3>2. CASE q # r
      BY <1>4, <3>2 DEF TraceInv, IdsInv
    <3> QED
      BY <3>1, <3>2
  <2> QED
    BY <1>1, <2>1 DEF TraceInv, IdsInv, EventIdsUnique
<1>7. CallsInv'
  <2>1. \A q \in Runs : \A c : Logged(q, c) <=> Logged(q, c)'
    BY <1>1 DEF Logged
  <2>2. \A q \in Runs \ {r} : \A c : Covered(q, c) <=> Covered(q, c)'
    BY <1>4, <2>1 DEF Covered, Pending
  <2>3. Len(sdk[r]) = 0
    <3>1. sdk[r] = <<>>
      BY <1>1 DEF TraceInv, CallsInv
    <3> QED
      BY <3>1
  <2>4. \A i \in DOMAIN saved[r].calls : Logged(r, saved[r].calls[i])'
    BY <1>1, <2>1 DEF TraceInv, CallsInv
  <2>5. ASSUME NEW q \in Runs
        PROVE  /\ ~mem'[q].up => sdk'[q] = <<>>
               /\ mem'[q].up =>
                    /\ mem'[q].counted <= Len(sdk'[q])
                    /\ \A i \in DOMAIN mem'[q].calls : Covered(q, mem[q].calls[i])'
                    /\ \A i \in DOMAIN mem'[q].prefix : Covered(q, mem[q].prefix[i])'
                    /\ \A i \in 1..mem'[q].counted : Covered(q, sdk[q][i])'
    <3>1. CASE q = r
      <4>1. mem'[r].up /\ mem'[r].counted = 0 /\ Len(sdk'[r]) = 0
            /\ mem'[r].calls = saved[r].calls /\ mem'[r].prefix = saved[r].calls
        BY <1>1, <1>3, <1>4, <2>3
      <4>2. saved'[r].calls = saved[r].calls
        BY <1>1
      <4> QED
        BY <2>4, <3>1, <4>1, <4>2 DEF Covered, Logged
    <3>2. CASE q # r
      BY <1>1, <1>4, <2>2, <3>2 DEF TraceInv, CallsInv
    <3> QED
      BY <3>1, <3>2
  <2>6. \A q \in Runs : saved'[q].up => \A i \in DOMAIN saved'[q].calls : Logged(q, saved[q].calls[i])'
    BY <1>1, <2>1 DEF TraceInv, CallsInv
  <2> QED
    BY <2>5, <2>6 DEF CallsInv
<1> QED
  BY <1>5, <1>6, <1>7 DEF TraceInv

LEMMA StopKeeps ==
    ASSUME TraceInv, NEW torn, Stop(torn)
    PROVE  TraceInv'
<1>1. /\ torn \subseteq {r \in Runs : mem[r].up /\ todo[r] # <<>>
                                        /\ Head(todo[r]).kind # "write_trace"}
      /\ runfile' = [r \in Runs |-> IF r \in torn THEN Grown(r) ELSE runfile[r]]
      /\ mem' = [r \in Runs |-> Down] /\ sdk' = [r \in Runs |-> <<>>]
      /\ todo' = [r \in Runs |-> <<>>] /\ UNCHANGED <<saved, casefile>>
  BY DEF Stop, Grown
<1>2. TraceTyped
  BY DEF TraceInv
<1>3. \A r \in torn :
        /\ r \in Runs /\ runfile'[r] = Grown(r) /\ Grown(r) \in Seq(Filed)
        /\ \A i \in DOMAIN Grown(r) :
             Grown(r)[i].id.run = r /\ Grown(r)[i].id.seq <= mem[r].seq + 1
        /\ \A i, j \in DOMAIN Grown(r) : Grown(r)[i].id = Grown(r)[j].id => i = j
        /\ \A i \in DOMAIN runfile[r] : i \in DOMAIN Grown(r) /\ Grown(r)[i] = runfile[r][i]
  BY <1>1, GrownIs
<1>4. \A r \in Runs : /\ r \notin torn => runfile'[r] = runfile[r]
                      /\ ~mem'[r].up /\ sdk'[r] = <<>>
  BY <1>1, DownIs
<1>5. TraceTyped'
  <2>1. \A r \in Runs : runfile'[r] \in Seq(Filed)
    <3> TAKE r \in Runs
    <3>1. runfile[r] \in Seq(Filed)
      BY <1>2 DEF TraceTyped
    <3>2. CASE r \in torn
      BY <1>3, <3>2
    <3>3. CASE r \notin torn
      BY <1>4, <3>1, <3>3
    <3> QED
      BY <3>2, <3>3
  <2>2. mem' \in [Runs -> States]
    BY <1>1, DownIs
  <2>3. sdk' \in [Runs -> Seq(Calls)] /\ todo' \in [Runs -> Seq(Queued)]
    BY <1>1
  <2> QED
    BY <1>1, <1>2, <2>1, <2>2, <2>3 DEF TraceTyped
<1>6. IdsInv'
  <2>1. \A r \in Runs : \A i \in DOMAIN runfile'[r] : runfile'[r][i].id.run = r
    BY <1>3, <1>4 DEF TraceInv, IdsInv
  <2>2. \A r \in Runs : \A i, j \in DOMAIN runfile'[r] :
          runfile'[r][i].id = runfile'[r][j].id => i = j
    <3> TAKE r \in Runs
    <3>1. CASE r \in torn
      BY <1>3, <3>1
    <3>2. CASE r \notin torn
      BY <1>4, <3>2 DEF TraceInv, IdsInv, EventIdsUnique
    <3> QED
      BY <3>1, <3>2
  <2>3. \A r \in Runs : \A x \in ToSet(runfile[r]) : x \in ToSet(runfile'[r])
    BY <1>3, <1>4 DEF ToSet
  <2>4. \A i \in DOMAIN casefile : casefile[i].id.run \in Runs
    <3>1. \A i \in DOMAIN casefile : casefile[i] \in Filed
      BY <1>2 DEF TraceTyped
    <3> QED
      BY <3>1 DEF Filed
  <2>5. \A i \in DOMAIN casefile' : casefile'[i] \in ToSet(runfile'[casefile'[i].id.run])
    BY <1>1, <2>3, <2>4 DEF TraceInv, IdsInv, EventIdsUnique
  <2>6. \A i, j \in DOMAIN casefile' : casefile'[i].id = casefile'[j].id => i = j
    BY <1>1 DEF TraceInv, IdsInv, EventIdsUnique
  <2> QED
    BY <1>4, <2>1, <2>2, <2>5, <2>6 DEF IdsInv, EventIdsUnique
<1>7. CallsInv'
  <2>1. \A r \in Runs : \A c : Logged(r, c) => Logged(r, c)'
    BY <1>3, <1>4 DEF Logged
  <2>2. \A q \in Runs : saved'[q].up => \A i \in DOMAIN saved'[q].calls : Logged(q, saved[q].calls[i])'
    BY <1>1, <2>1 DEF TraceInv, CallsInv
  <2> QED
    BY <1>4, <2>2 DEF CallsInv
<1> QED
  BY <1>5, <1>6, <1>7 DEF TraceInv

-----------------------------------------------------------------------------
(* The revisions: a step of the store changes of the runs only which       *)
(* artifact is pending.                                                    *)

LEMMA PendingAlike ==
    ASSUME NEW st \in States, NEW n \in Nat
    PROVE  Alike([st EXCEPT !.pending = n], st)
BY DEF Alike, States

LEMMA PendingKeeps ==
    ASSUME TraceInv, NEW r \in Runs, NEW n \in Nat,
           mem' = [mem EXCEPT ![r].pending = n],
           UNCHANGED <<sdk, saved, runfile, casefile, todo>>
    PROVE  TraceInv'
<1>1. mem \in [Runs -> States] /\ todo \in [Runs -> Seq(Queued)]
  BY DEF TraceInv, TraceTyped
<1> DEFINE new == [mem[r] EXCEPT !.pending = n]
<1>2. Alike(new, mem[r]) /\ new \in States
  BY <1>1, PendingAlike DEF Alike
<1>3. mem' = [mem EXCEPT ![r] = new]
  OBVIOUS
<1> HIDE DEF new
<1>4. mem' \in [Runs -> States] /\ todo' \in [Runs -> Seq(Queued)]
  BY <1>1, <1>2, <1>3
<1>5. \A q \in Runs : Alike(mem[q], mem[q])
  BY <1>1 DEF Alike
<1>6. \A q \in Runs : Alike(mem'[q], mem[q]) /\ todo'[q] = todo[q]
  BY <1>1, <1>2, <1>3, <1>5
<1> QED
  BY <1>4, <1>6, AlikeKeeps

LEMMA TraceSame ==
    ASSUME TraceInv, UNCHANGED traceVars
    PROVE  TraceInv'
<1>1. UNCHANGED <<mem, sdk, saved, runfile, casefile, todo>>
  BY DEF traceVars
<1> QED
  BY <1>1 DEF TraceInv, TraceTyped, IdsInv, EventIdsUnique, CallsInv, Covered, Logged, Pending

-----------------------------------------------------------------------------
(* Types of the store: a file is named after the revision in it, and no    *)
(* revision number is above the operations asked for.                      *)

Sent == [id : Words, target : Checks \cup {""}, refs : SUBSET Words]
Checkpoints == [revision : Nat, status : Words, compile : Words, done : SUBSET Checks,
                corrections : Seq(Sent)]

FilesTyped ==
  /\ DOMAIN revisions = Children
  /\ \A k \in Children : \A n \in Files(k) :
       /\ n \in Nat /\ 1 <= n /\ n + left <= MaxOps
       /\ revisions[k][n].payload \in Checkpoints /\ revisions[k][n].payload.revision = n
       /\ revisions[k][n].time \in Nat /\ revisions[k][n].time <= clock

HeldTyped ==
  /\ DOMAIN child = Children
  /\ \A k \in Children : child[k] # Idle =>
       child[k] \in Checkpoints /\ 1 <= child[k].revision /\ child[k].revision + left <= MaxOps

StoreTyped ==
  /\ clock \in Nat /\ left \in Nat /\ left <= MaxOps
  /\ FilesTyped /\ HeldTyped
  /\ answered \in [Children -> SUBSET Corrections]

LEMMA SentAre == Corrections \subseteq Sent /\ [id |-> "", target |-> "", refs |-> {}] \in Sent
<1>1. Corrections \subseteq [id : STRING, target : Checks, refs : SUBSET STRING]
  BY StoreAssumption
<1>2. [id : STRING, target : Checks, refs : SUBSET STRING] \subseteq Sent
  BY WordsAre DEF Sent
<1>3. [id |-> "", target |-> "", refs |-> {}] \in Sent
  BY WordsAre DEF Sent
<1> QED
  BY <1>1, <1>2, <1>3

\* load_compiler reads the file with the highest number.
LEMMA HighestIs ==
    ASSUME StoreTyped, NEW k \in Children, Files(k) # {}
    PROVE  /\ Highest(k) \in Files(k) /\ \A m \in Files(k) : m <= Highest(k)
           /\ LoadCompiler(k) \in Checkpoints /\ LoadCompiler(k).revision = Highest(k)
<1> DEFINE N == Files(k)
<1>1. N \in SUBSET (1..MaxOps)
  BY HarnessAssumption DEF StoreTyped, FilesTyped
<1>2. \E n \in N : \A m \in N : m <= n
  <2> HIDE DEF N
  <2>1. N # {}
    BY DEF N
  <2> QED
    BY <1>1, <2>1, GreatestNumber, HarnessAssumption
<1>3. Highest(k) \in N /\ \A m \in N : m <= Highest(k)
  BY <1>2 DEF Highest
<1> QED
  BY <1>3 DEF StoreTyped, FilesTyped, LoadCompiler

\* latest_compiler reads the file written last.
LEMMA LastWrittenIs ==
    ASSUME StoreTyped, NEW ks \in SUBSET Children, \E k \in ks : Files(k) # {}
    PROVE  LET f == LastWritten(ks)
           IN  /\ f[1] \in ks /\ f[2] \in Files(f[1])
               /\ \A k \in ks : \A n \in Files(k) :
                    revisions[k][n].time <= revisions[f[1]][f[2]].time
<1> DEFINE written == {f \in ks \X (1..MaxOps) : f[2] \in Files(f[1])}
           Time(f) == revisions[f[1]][f[2]].time
           T == {Time(f) : f \in written}
           last == CHOOSE f \in written : \A g \in written : Time(g) <= Time(f)
<1>1. \A k \in ks : \A n \in Files(k) : n \in 1..MaxOps /\ <<k, n>> \in written
  <2>1. \A k \in ks : \A n \in Files(k) : n \in 1..MaxOps
    BY HarnessAssumption DEF StoreTyped, FilesTyped
  <2> QED
    BY <2>1
<1>2. \A f \in written : f[1] \in ks /\ f[2] \in Files(f[1]) /\ Time(f) \in 0..clock
  BY DEF StoreTyped, FilesTyped
<1>3. written # {}
  BY <1>1
<1>4. clock \in Nat
  BY DEF StoreTyped
<1> HIDE DEF written, Time
<1>5. PICK t \in T : \A u \in T : u <= t
  <2>1. T \in SUBSET (0..clock) /\ T # {}
    BY <1>2, <1>3
  <2> DEFINE U == {t + 1 : t \in T}
  <2>2. U \in SUBSET (1..(clock + 1)) /\ U # {} /\ clock + 1 \in Nat
    BY <1>4, <2>1
  <2> HIDE DEF U
  <2>3. PICK u \in U : \A v \in U : v <= u
    BY <2>2, GreatestNumber
  <2>4. PICK t \in T : u = t + 1
    BY <2>3 DEF U
  <2>5. \A v \in T : v + 1 \in U
    BY DEF U
  <2>6. \A v \in T : v <= t
    <3> HIDE DEF T
    <3> TAKE v \in T
    <3>1. v \in Nat /\ t \in Nat
      BY <1>4, <2>1
    <3>2. v + 1 <= t + 1
      BY <2>3, <2>4, <2>5
    <3> QED
      BY <3>1, <3>2
  <2> QED
    BY <2>6
<1>6. \E f \in written : \A g \in written : Time(g) <= Time(f)
  BY <1>5
<1>7. last \in written /\ \A g \in written : Time(g) <= Time(last)
  BY <1>6, Zenon
<1>8. LastWritten(ks) = last
  BY DEF LastWritten, last, written, Time
<1> HIDE DEF last
<1>9. last[1] \in ks /\ last[2] \in Files(last[1])
  BY <1>2, <1>7
<1>10. \A k \in ks : \A n \in Files(k) : revisions[k][n].time <= revisions[last[1]][last[2]].time
  <2> TAKE k \in ks
  <2> TAKE n \in Files(k)
  <2>1. Time(<<k, n>>) <= Time(last)
    BY <1>1, <1>7
  <2> QED
    BY <2>1 DEF Time
<1> QED
  BY <1>8, <1>9, <1>10

\* The child the Manager's tools work on, and the revision they read
LEMMA LatestIs ==
    ASSUME StoreTyped, NEW asked \in Children \cup {""}, Known(asked)
    PROVE  LatestChild(asked) \in Children /\ Files(LatestChild(asked)) # {}
<1>1. Addressed(asked) \in SUBSET Children
  BY DEF Addressed
<1>2. \E k \in Addressed(asked) : Files(k) # {}
  BY DEF Known
<1>3. LET f == LastWritten(Addressed(asked))
      IN  f[1] \in Addressed(asked) /\ f[2] \in Files(f[1])
  BY <1>1, <1>2, LastWrittenIs
<1> QED
  BY <1>1, <1>3 DEF LatestChild

LEMMA LatestCompilerIs ==
    ASSUME StoreTyped, NEW k \in Children, Files(k) # {}
    PROVE  /\ LatestCompiler(k) \in Checkpoints /\ LatestCompiler(k).revision \in Files(k)
           /\ LatestCompiler(k) = revisions[k][LatestCompiler(k).revision].payload
           /\ \A n \in Files(k) :
                revisions[k][n].time <= revisions[k][LatestCompiler(k).revision].time
<1> DEFINE f == LastWritten({k})
<1>1. f[1] \in {k} /\ f[2] \in Files(f[1])
      /\ \A n \in Files(k) : revisions[k][n].time <= revisions[f[1]][f[2]].time
  <2>1. {k} \in SUBSET Children /\ \E q \in {k} : Files(q) # {}
    OBVIOUS
  <2> QED
    BY <2>1, LastWrittenIs
<1> HIDE DEF f
<1>2. f[1] = k
  BY <1>1
<1>3. LatestCompiler(k) = revisions[k][f[2]].payload
  BY DEF LatestCompiler, f
<1>4. f[2] \in Files(k) /\ LatestCompiler(k).revision = f[2] /\ LatestCompiler(k) \in Checkpoints
  BY <1>1, <1>2, <1>3 DEF StoreTyped, FilesTyped
<1> QED
  BY <1>1, <1>2, <1>3, <1>4

-----------------------------------------------------------------------------
(* What is written, and what it does to the files. *)

\* A checkpoint whose compiler has not ended, and one whose compiler did not converge
Blank(ckpt) == ckpt.compile = ""
Stuck(ckpt) == ckpt.compile = "NON_CONVERGED"

LEMMA BlankIs == \A ckpt : Blank(ckpt) => ~Stuck(ckpt)
BY DEF Blank, Stuck

LEMMA RecheckedIs ==
    ASSUME NEW ckpt \in Checkpoints, NEW c \in Corrections
    PROVE  /\ Rechecked(ckpt, c) \in Checkpoints
           /\ Rechecked(ckpt, c).revision = ckpt.revision + 1
           /\ Rechecked(ckpt, c).corrections = Append(ckpt.corrections, c)
           /\ ~Stuck(Rechecked(ckpt, c))
<1>1. c \in Sent /\ ckpt.corrections \in Seq(Sent)
  BY SentAre DEF Checkpoints
<1>2. Append(ckpt.corrections, c) \in Seq(Sent)
  BY <1>1
<1>3. ckpt.done \ Downstream[c.target] \in SUBSET Checks /\ ckpt.revision + 1 \in Nat
  BY DEF Checkpoints
<1> QED
  BY <1>2, <1>3, WordsAre DEF Rechecked, Checkpoint, Checkpoints, Stuck

LEMMA CancelledIs ==
    ASSUME NEW ckpt \in Checkpoints
    PROVE  /\ Cancelled(ckpt) \in Checkpoints /\ Cancelled(ckpt).revision = ckpt.revision + 1
           /\ Cancelled(ckpt).corrections =
                Append(ckpt.corrections, [id |-> "", target |-> "", refs |-> {}])
           /\ ~Stuck(Cancelled(ckpt))
<1> DEFINE none == [id |-> "", target |-> "", refs |-> {}]
<1>1. none \in Sent /\ ckpt.corrections \in Seq(Sent)
  BY SentAre DEF Checkpoints
<1> HIDE DEF none
<1>2. Append(ckpt.corrections, none) \in Seq(Sent)
  BY <1>1
<1>3. ckpt.done \in SUBSET Checks /\ ckpt.revision + 1 \in Nat
  BY DEF Checkpoints
<1>4. Cancelled(ckpt) = Checkpoint(ckpt.revision + 1, "cancelled", "CANCELLED", ckpt.done,
                                   Append(ckpt.corrections, none))
  BY DEF Cancelled, none
<1> DEFINE all == Append(ckpt.corrections, none)
<1>5. all \in Seq(Sent)
  BY <1>2
<1> HIDE DEF all
<1>6. /\ Checkpoint(ckpt.revision + 1, "cancelled", "CANCELLED", ckpt.done, all) \in Checkpoints
      /\ Checkpoint(ckpt.revision + 1, "cancelled", "CANCELLED", ckpt.done, all).revision
           = ckpt.revision + 1
      /\ Checkpoint(ckpt.revision + 1, "cancelled", "CANCELLED", ckpt.done, all).corrections = all
      /\ ~Stuck(Checkpoint(ckpt.revision + 1, "cancelled", "CANCELLED", ckpt.done, all))
  BY <1>3, <1>5, WordsAre DEF Checkpoint, Checkpoints, Stuck
<1> QED
  BY <1>4, <1>6 DEF all, none

LEMMA FirstIs ==
    LET first == Checkpoint(1, "running", "", {}, <<>>)
    IN  first \in Checkpoints /\ first.revision = 1 /\ Blank(first)
<1>1. <<>> \in Seq(Sent)
  OBVIOUS
<1> QED
  BY <1>1, WordsAre DEF Checkpoint, Checkpoints, Blank

Continued(ckpt, n, status, compile) ==
  [ckpt EXCEPT !.revision = n, !.status = status, !.compile = compile]

LEMMA ContinuedIs ==
    ASSUME NEW ckpt \in Checkpoints, NEW n \in Nat, NEW status \in Words, NEW compile \in Words
    PROVE  /\ Continued(ckpt, n, status, compile) \in Checkpoints
           /\ Continued(ckpt, n, status, compile).revision = n
           /\ Continued(ckpt, n, status, compile).corrections = ckpt.corrections
BY DEF Continued, Checkpoints

LEMMA EndedIs ==
    ASSUME NEW ckpt \in Checkpoints, NEW status \in Words, NEW compile \in Words
    PROVE  LET end == [ckpt EXCEPT !.status = status, !.compile = compile]
           IN  /\ end \in Checkpoints /\ end.revision = ckpt.revision
               /\ end.corrections = ckpt.corrections
BY DEF Checkpoints

LEMMA DoneIs ==
    ASSUME NEW ckpt \in Checkpoints, NEW done \in SUBSET Checks
    PROVE  LET more == [ckpt EXCEPT !.done = done]
           IN  /\ more \in Checkpoints /\ more.revision = ckpt.revision
               /\ more.corrections = ckpt.corrections /\ (Blank(ckpt) => Blank(more))
BY DEF Checkpoints, Blank

LEMMA SavedAre ==
    ASSUME StoreTyped, NEW k \in Children, NEW p, SaveCompiler(k, p)
    PROVE  /\ clock' = clock + 1 /\ DOMAIN revisions' = Children
           /\ Files(k)' = Files(k) \cup {p.revision}
           /\ revisions'[k][p.revision].payload = p
           /\ revisions'[k][p.revision].time = clock + 1
           /\ \A n \in Files(k) : n # p.revision => revisions'[k][n] = revisions[k][n]
           /\ \A q \in Children \ {k} : revisions'[q] = revisions[q] /\ Files(q)' = Files(q)
<1> DEFINE file == [n \in Files(k) \cup {p.revision} |->
                      IF n = p.revision THEN [payload |-> p, time |-> clock + 1]
                                        ELSE revisions[k][n]]
<1>1. clock' = clock + 1 /\ revisions' = [revisions EXCEPT ![k] = file]
  BY DEF SaveCompiler
<1>2. /\ DOMAIN file = Files(k) \cup {p.revision}
      /\ file[p.revision] = [payload |-> p, time |-> clock + 1]
      /\ \A n \in Files(k) : n # p.revision => file[n] = revisions[k][n]
  OBVIOUS
<1> HIDE DEF file
<1>3. DOMAIN revisions = Children
  BY DEF StoreTyped, FilesTyped
<1>4. DOMAIN revisions' = Children /\ revisions'[k] = file
      /\ \A q \in Children \ {k} : revisions'[q] = revisions[q]
  BY <1>1, <1>3
<1>5. revisions'[k][p.revision] = [payload |-> p, time |-> clock + 1]
  BY <1>2, <1>4
<1>6. \A q \in Children : Files(q)' = DOMAIN revisions'[q] /\ Files(q) = DOMAIN revisions[q]
  BY DEF Files
<1> QED
  BY <1>1, <1>2, <1>4, <1>5, <1>6

LEMMA SavedTyped ==
    ASSUME StoreTyped, NEW k \in Children, NEW p \in Checkpoints, SaveCompiler(k, p),
           left' \in Nat, left' <= left, 1 <= p.revision, p.revision + left' <= MaxOps
    PROVE  clock' \in Nat /\ FilesTyped'
<1>1. /\ clock' = clock + 1 /\ DOMAIN revisions' = Children
      /\ Files(k)' = Files(k) \cup {p.revision}
      /\ revisions'[k][p.revision].payload = p
      /\ revisions'[k][p.revision].time = clock + 1
      /\ \A n \in Files(k) : n # p.revision => revisions'[k][n] = revisions[k][n]
      /\ \A q \in Children \ {k} : revisions'[q] = revisions[q] /\ Files(q)' = Files(q)
  BY SavedAre
<1>2. clock \in Nat /\ left \in Nat /\ MaxOps \in Nat /\ p.revision \in Nat
  BY HarnessAssumption DEF StoreTyped, Checkpoints
<1>3. \A q \in Children : \A n \in Files(q) :
        /\ n \in Nat /\ 1 <= n /\ n + left' <= MaxOps
        /\ revisions[q][n].payload \in Checkpoints /\ revisions[q][n].payload.revision = n
        /\ revisions[q][n].time \in Nat /\ revisions[q][n].time <= clock + 1
  BY <1>2 DEF StoreTyped, FilesTyped
<1>4. ASSUME NEW q \in Children, NEW n \in Files(q)'
      PROVE  /\ n \in Nat /\ 1 <= n /\ n + left' <= MaxOps
             /\ revisions'[q][n].payload \in Checkpoints /\ revisions'[q][n].payload.revision = n
             /\ revisions'[q][n].time \in Nat /\ revisions'[q][n].time <= clock'
  <2>1. CASE q = k /\ n = p.revision
    BY <1>1, <1>2, <2>1
  <2>2. CASE q = k /\ n # p.revision
    BY <1>1, <1>3, <2>2
  <2>3. CASE q # k
    BY <1>1, <1>3, <2>3
  <2> QED
    BY <2>1, <2>2, <2>3
<1> QED
  BY <1>1, <1>2, <1>4 DEF FilesTyped

\* A step that writes no file, asked or not
LEMMA FilesSame ==
    ASSUME StoreTyped, left' \in Nat, left' <= left, UNCHANGED <<revisions, clock>>
    PROVE  clock' \in Nat /\ FilesTyped'
<1>1. clock \in Nat /\ left \in Nat /\ MaxOps \in Nat
  BY HarnessAssumption DEF StoreTyped
<1> QED
  BY <1>1 DEF StoreTyped, FilesTyped, Files

\* A step after which each child holds what it held or nothing
LEMMA HeldSame ==
    ASSUME StoreTyped, left' \in Nat, left' <= left, DOMAIN child' = Children,
           \A k \in Children : child'[k] = child[k] \/ child'[k] = Idle
    PROVE  HeldTyped'
<1>1. left \in Nat /\ MaxOps \in Nat
  BY HarnessAssumption DEF StoreTyped
<1>2. \A ckpt \in Checkpoints : ckpt.revision \in Nat
  BY DEF Checkpoints
<1> QED
  BY <1>1, <1>2 DEF StoreTyped, HeldTyped

-----------------------------------------------------------------------------
(* The invariant of the revisions, and what a step does to corrections.    *)

Apart(k) ==
  \A m, n \in Files(k) : revisions[k][m].time = revisions[k][n].time => m = n
Begun(k) == Files(k) = {} => answered[k] = {}
Running(k) ==
  child[k] # Idle =>
    /\ Blank(child[k])
    /\ Files(k) # {} /\ Highest(k) < child[k].revision =>
         /\ child[k].revision = Highest(k) + 1 /\ ~Parted(k)
         /\ child[k].corrections = LoadCompiler(k).corrections
Open(k) ==
  Files(k) # {} /\ Stuck(LoadCompiler(k)) =>
    ~Parted(k) /\ (child[k] # Idle => Highest(k) < child[k].revision)

Standing(k) == Apart(k) /\ Begun(k) /\ Running(k) /\ Open(k)
StandInv == \A k \in Children : Standing(k)

Kept(k) ==
  /\ Loses(k) => Parted(k) \/ (Overtaken(k) /\ child[k].revision = Highest(k))
  /\ Parted(k)' => Parted(k) \/ Overtaken(k)
  /\ Overtaken(k)' => Overtaken(k) \/ (child[k] # Idle /\ child'[k] = child[k])

\* What a write does to the highest revision and to the last
LEMMA SavedStands ==
    ASSUME StoreTyped, NEW k \in Children, NEW p \in Checkpoints, SaveCompiler(k, p), Apart(k)
    PROVE  /\ Apart(k)' /\ Files(k)' # {}
           /\ (\A n \in Files(k) : n <= p.revision) =>
                Highest(k)' = p.revision /\ LoadCompiler(k)' = p /\ ~Parted(k)'
           /\ Files(k) # {} /\ p.revision < Highest(k) =>
                Highest(k)' = Highest(k) /\ LoadCompiler(k)' = LoadCompiler(k)
<1>1. /\ clock' = clock + 1 /\ Files(k)' = Files(k) \cup {p.revision}
      /\ revisions'[k][p.revision].payload = p
      /\ revisions'[k][p.revision].time = clock + 1
      /\ \A n \in Files(k) : n # p.revision => revisions'[k][n] = revisions[k][n]
  BY SavedAre
<1>2. clock \in Nat /\ p.revision \in Nat
      /\ \A n \in Files(k) : n \in Nat /\ revisions[k][n].time \in Nat
                             /\ revisions[k][n].time <= clock
  BY DEF StoreTyped, FilesTyped, Checkpoints
<1>3. \A n \in Files(k)' : /\ n \in Nat /\ revisions'[k][n].time \in Nat
                           /\ revisions'[k][n].time <= clock + 1
                           /\ n # p.revision => /\ n \in Files(k)
                                                /\ revisions'[k][n] = revisions[k][n]
                                                /\ revisions'[k][n].time <= clock
  BY <1>1, <1>2
<1>4. Apart(k)'
  <2>1. ASSUME NEW m \in Files(k)', NEW n \in Files(k)',
               revisions'[k][m].time = revisions'[k][n].time
        PROVE  m = n
    <3>1. CASE m = p.revision \/ n = p.revision
      BY <1>1, <1>2, <1>3, <2>1, <3>1
    <3>2. CASE m # p.revision /\ n # p.revision
      BY <1>3, <2>1, <3>2 DEF Apart
    <3> QED
      BY <3>1, <3>2
  <2> QED
    BY <2>1 DEF Apart
<1>5. ASSUME NEW top \in Files(k)', \A m \in Files(k)' : m <= top
      PROVE  Highest(k)' = top
  <2> DEFINE N == Files(k)'
             high == CHOOSE n \in N : \A m \in N : m <= n
  <2>1. top \in N /\ \A m \in N : m <= top
    BY <1>5
  <2> HIDE DEF N
  <2>2. high \in N /\ \A m \in N : m <= high
    BY <2>1, Zenon
  <2>3. Highest(k)' = high
    BY DEF Highest, high, N
  <2> HIDE DEF high
  <2>4. top \in Nat /\ high \in Nat
    BY <1>3, <2>1, <2>2 DEF N
  <2> QED
    BY <2>1, <2>2, <2>3, <2>4
<1>6. ASSUME \A n \in Files(k) : n <= p.revision
      PROVE  Highest(k)' = p.revision /\ LoadCompiler(k)' = p /\ ~Parted(k)'
  <2>1. p.revision \in Files(k)' /\ \A n \in Files(k)' : n <= p.revision
    BY <1>1, <1>2, <1>6
  <2>2. Highest(k)' = p.revision
    BY <1>5, <2>1
  <2>3. LoadCompiler(k)' = p
    BY <1>1, <2>2 DEF LoadCompiler
  <2>4. \A n \in Files(k)' : ~ (revisions'[k][p.revision].time < revisions'[k][n].time)
    BY <1>1, <1>2, <1>3
  <2>5. ~Parted(k)'
    BY <2>2, <2>4 DEF Parted
  <2> QED
    BY <2>2, <2>3, <2>5
<1>7. ASSUME Files(k) # {}, p.revision < Highest(k)
      PROVE  Highest(k)' = Highest(k) /\ LoadCompiler(k)' = LoadCompiler(k)
  <2>1. Highest(k) \in Files(k) /\ \A m \in Files(k) : m <= Highest(k)
    BY <1>7, HighestIs
  <2>2. Highest(k) \in Files(k)' /\ \A m \in Files(k)' : m <= Highest(k)
    BY <1>1, <1>2, <1>7, <2>1
  <2>3. Highest(k)' = Highest(k)
    BY <1>5, <2>2
  <2>4. revisions'[k][Highest(k)] = revisions[k][Highest(k)]
    BY <1>1, <1>2, <1>7, <2>1
  <2> QED
    BY <2>3, <2>4 DEF LoadCompiler
<1> QED
  BY <1>1, <1>4, <1>6, <1>7

\* What is not written stays: the other children's revisions, and all of them in a step
\* that writes none.
LEMMA LoadSame ==
    ASSUME NEW k \in Children, revisions'[k] = revisions[k]
    PROVE  /\ Files(k)' = Files(k) /\ LoadCompiler(k)' = LoadCompiler(k)
           /\ Highest(k)' = Highest(k)
           /\ Apart(k)' <=> Apart(k)
           /\ Parted(k)' <=> Parted(k)
<1>1. Files(k)' = Files(k)
  BY DEF Files
<1>2. Highest(k)' = Highest(k)
  BY <1>1 DEF Highest
<1> QED
  BY <1>1, <1>2 DEF LoadCompiler, Apart, Parted

LEMMA NoneLost ==
    ASSUME NEW k \in Children, revisions'[k] = revisions[k], answered'[k] = answered[k]
    PROVE  ~Loses(k)
<1>1. Files(k)' = Files(k) /\ LoadCompiler(k)' = LoadCompiler(k)
  BY LoadSame
<1>2. \A c : Stands(k, c)' <=> Stands(k, c)
  BY <1>1 DEF Stands
<1> QED
  BY <1>2 DEF Loses

LEMMA Unwritten ==
    ASSUME NEW k \in Children, revisions'[k] = revisions[k], answered'[k] = answered[k],
           child'[k] = child[k] \/ child'[k] = Idle,
           Standing(k)
    PROVE  Standing(k)' /\ Kept(k)
<1>1. /\ Files(k)' = Files(k) /\ LoadCompiler(k)' = LoadCompiler(k)
      /\ Highest(k)' = Highest(k)
      /\ Apart(k)' <=> Apart(k)
      /\ Parted(k)' <=> Parted(k)
  BY LoadSame
<1>2. Idle' = Idle
  BY DEF Idle
<1>3. Running(k)' /\ Open(k)' /\ Begun(k)' /\ Apart(k)'
  BY <1>1, <1>2 DEF Standing, Running, Open, Begun
<1>4. Overtaken(k)' => Overtaken(k)
  BY <1>1, <1>2 DEF Overtaken
<1>5. ~Loses(k)
  BY NoneLost
<1> QED
  BY <1>1, <1>3, <1>4, <1>5 DEF Standing, Kept

LEMMA OnceLast ==
    ASSUME NEW s \in Seq(Sent), NEW c \in Sent, \A i \in DOMAIN s : s[i].id # c.id
    PROVE  Once(Append(s, c), c.id)
<1> DEFINE t == Append(s, c)
           n == Len(s) + 1
<1>1. DOMAIN t = 1..n /\ n \in 1..n /\ t[n] = c /\ DOMAIN s = 1..Len(s) /\ Len(s) \in Nat
      /\ \A i \in 1..Len(s) : t[i] = s[i]
  OBVIOUS
<1>2. \A i \in DOMAIN t : i = n \/ i \in DOMAIN s
  BY <1>1
<1> HIDE DEF t, n
<1>3. \A i \in DOMAIN t : t[i].id = c.id => i = n
  BY <1>1, <1>2
<1>4. Once(t, c.id)
  BY <1>1, <1>3 DEF Once
<1> QED
  BY <1>4 DEF t

LEMMA OnceStill ==
    ASSUME NEW s \in Seq(Sent), NEW c \in Sent, NEW id, Once(s, id), id # c.id
    PROVE  Once(Append(s, c), id)
<1> DEFINE t == Append(s, c)
           n == Len(s) + 1
<1>1. DOMAIN t = 1..n /\ t[n] = c /\ DOMAIN s = 1..Len(s) /\ Len(s) \in Nat
      /\ \A i \in 1..Len(s) : i \in DOMAIN t /\ t[i] = s[i]
  OBVIOUS
<1>2. \A i \in DOMAIN t : i = n \/ i \in DOMAIN s
  BY <1>1
<1> HIDE DEF t, n
<1>3. PICK i \in DOMAIN s : s[i].id = id /\ \A j \in DOMAIN s : s[j].id = id => j = i
  BY DEF Once
<1>4. i \in DOMAIN t /\ t[i].id = id /\ \A j \in DOMAIN t : t[j].id = id => j = i
  BY <1>1, <1>2, <1>3
<1>5. Once(t, id)
  BY <1>4 DEF Once
<1> QED
  BY <1>5 DEF t

-----------------------------------------------------------------------------
(* The steps of the store. *)

LEMMA AskedIs ==
    ASSUME StoreTyped, Asked
    PROVE  left' \in Nat /\ left' <= left /\ left' = left - 1 /\ left \in Nat /\ MaxOps \in Nat
           /\ left' <= MaxOps
BY HarnessAssumption DEF StoreTyped, Asked

LEMMA StartedIs ==
    ASSUME StoreTyped, NEW k \in Children, StartChild(k)
    PROVE  /\ Asked /\ UNCHANGED <<traceVars, revisions, clock, reader, answered>>
           /\ \E new \in Checkpoints :
                /\ child' = [child EXCEPT ![k] = new]
                /\ 1 <= new.revision /\ new.revision + left' <= MaxOps /\ Blank(new)
                /\ Files(k) # {} =>
                     /\ new.corrections = LoadCompiler(k).corrections
                     /\ new.revision = IF Stuck(LoadCompiler(k))
                                      THEN Highest(k) + 1 ELSE Highest(k)
<1>1. Asked /\ UNCHANGED <<traceVars, revisions, clock, reader, answered>>
  BY DEF StartChild
<1>2. left' \in Nat /\ left' = left - 1 /\ left \in Nat /\ MaxOps \in Nat /\ left <= MaxOps
  BY <1>1, AskedIs DEF StoreTyped
<1>3. CASE Files(k) = {}
  <2> DEFINE first == Checkpoint(1, "running", "", {}, <<>>)
  <2>1. child' = [child EXCEPT ![k] = first]
    BY <1>3 DEF StartChild
  <2>2. first \in Checkpoints /\ first.revision = 1 /\ Blank(first)
    BY FirstIs
  <2> HIDE DEF first
  <2>3. 1 <= first.revision /\ first.revision + left' <= MaxOps
    BY <1>2, <2>2
  <2> QED
    BY <1>1, <1>3, <2>1, <2>2, <2>3
<1>4. CASE Files(k) # {}
  <2> DEFINE ckpt == LoadCompiler(k)
             n == IF ckpt.compile = "NON_CONVERGED" THEN ckpt.revision + 1 ELSE ckpt.revision
             next == [ckpt EXCEPT !.revision = n, !.status = "running", !.compile = ""]
  <2>1. /\ Highest(k) \in Files(k) /\ \A m \in Files(k) : m <= Highest(k)
        /\ ckpt \in Checkpoints /\ ckpt.revision = Highest(k)
    BY <1>4, HighestIs
  <2>2. /\ Highest(k) \in Nat /\ 1 <= Highest(k) /\ Highest(k) + left <= MaxOps
        /\ \A m \in Files(k) : m \in Nat
    BY <2>1 DEF StoreTyped, FilesTyped
  <2>3. child' = [child EXCEPT ![k] = next]
    BY <1>4 DEF StartChild
  <2> HIDE DEF ckpt
  <2>4. n \in Nat /\ Highest(k) <= n /\ n <= Highest(k) + 1
        /\ n = IF Stuck(ckpt) THEN Highest(k) + 1 ELSE Highest(k)
    BY <2>1, <2>2 DEF Stuck
  <2> HIDE DEF n
  <2>5. next \in Checkpoints /\ next.revision = n /\ next.corrections = ckpt.corrections
        /\ Blank(next)
    <3>1. PICK run \in Words : run = "running"
      BY WordsAre
    <3>2. PICK none \in Words : none = ""
      BY WordsAre
    <3>3. ckpt \in Checkpoints /\ n \in Nat
      BY <2>1, <2>4
    <3>4. next = Continued(ckpt, n, run, none)
      BY <3>1, <3>2 DEF Continued
    <3>5. Blank(next)
      BY <3>3 DEF Blank, next, Checkpoints
    <3> HIDE DEF next
    <3> QED
      BY <3>3, <3>4, <3>5, ContinuedIs
  <2> HIDE DEF next
  <2>6. 1 <= n /\ n + left' <= MaxOps
    BY <1>2, <2>2, <2>4
  <2> QED
    BY <1>1, <2>3, <2>4, <2>5, <2>6 DEF ckpt
<1> QED
  BY <1>3, <1>4

LEMMA StartChildTyped ==
    ASSUME StoreTyped, NEW k \in Children, StartChild(k)
    PROVE  StoreTyped'
<1>1. Asked /\ UNCHANGED <<revisions, clock, answered>>
  BY StartedIs
<1>2. PICK new \in Checkpoints : /\ child' = [child EXCEPT ![k] = new]
                                 /\ 1 <= new.revision /\ new.revision + left' <= MaxOps
  BY StartedIs
<1>3. left' \in Nat /\ left' <= left /\ left \in Nat /\ MaxOps \in Nat /\ left <= MaxOps
  BY <1>1, AskedIs DEF StoreTyped
<1>4. clock' \in Nat /\ FilesTyped'
  BY <1>1, <1>3, FilesSame
<1>5. HeldTyped'
  <2>1. DOMAIN child = Children /\ \A q \in Children : child[q] # Idle =>
          child[q] \in Checkpoints /\ 1 <= child[q].revision
          /\ child[q].revision \in Nat /\ child[q].revision + left <= MaxOps
    BY DEF StoreTyped, HeldTyped, Checkpoints
  <2>2. DOMAIN child' = Children /\ child'[k] = new
        /\ \A q \in Children \ {k} : child'[q] = child[q]
    BY <1>2, <2>1
  <2> QED
    BY <1>2, <1>3, <2>1, <2>2 DEF HeldTyped, Idle
<1> QED
  BY <1>1, <1>3, <1>4, <1>5 DEF StoreTyped

\* A child that starts holds the highest revision or the one after it.
LEMMA StartChildStands ==
    ASSUME StoreTyped, StandInv, NEW k \in Children, StartChild(k), NEW q \in Children
    PROVE  Standing(q)' /\ Kept(q)
<1>1. UNCHANGED <<revisions, answered>>
  BY StartedIs
<1>2. PICK new \in Checkpoints :
        /\ child' = [child EXCEPT ![k] = new] /\ Blank(new)
        /\ Files(k) # {} =>
             /\ new.corrections = LoadCompiler(k).corrections
             /\ new.revision = IF Stuck(LoadCompiler(k))
                              THEN Highest(k) + 1 ELSE Highest(k)
  BY StartedIs
<1>3. child'[k] = new /\ \A x \in Children \ {k} : child'[x] = child[x]
  BY <1>2 DEF StoreTyped, HeldTyped
<1>4. Standing(q) /\ Standing(k)
  BY DEF StandInv
<1>5. CASE q # k
  BY <1>1, <1>3, <1>4, <1>5, Unwritten
<1>6. CASE q = k
  <2>1. /\ Files(k)' = Files(k) /\ LoadCompiler(k)' = LoadCompiler(k)
        /\ Highest(k)' = Highest(k)
        /\ Apart(k)' <=> Apart(k)
        /\ Parted(k)' <=> Parted(k)
    BY <1>1, LoadSame
  <2>2. Files(k) # {} => Highest(k) \in Nat
    BY HighestIs DEF StoreTyped, FilesTyped
  <2>3. Running(k)' /\ Open(k)'
    BY <1>2, <1>3, <1>4, <2>1, <2>2, BlankIs DEF Standing, Running, Open
  <2>4. Apart(k)' /\ Begun(k)'
    BY <1>1, <1>4, <2>1 DEF Standing, Begun
  <2>5. ~Overtaken(k)'
    BY <1>2, <1>3, <2>1, <2>2 DEF Overtaken
  <2>6. ~Loses(k)
    BY <1>1, NoneLost
  <2> QED
    BY <1>6, <2>1, <2>3, <2>4, <2>5, <2>6 DEF Standing, Kept
<1> QED
  BY <1>5, <1>6

\* A running child writes what it holds, and then holds that or nothing.
LEMMA WritesTyped ==
    ASSUME StoreTyped, Asked, NEW k \in Children, child[k] # Idle, NEW p \in Checkpoints,
           p.revision = child[k].revision, SaveCompiler(k, p),
           child' = [child EXCEPT ![k] = p] \/ child' = [child EXCEPT ![k] = Idle],
           UNCHANGED answered
    PROVE  StoreTyped'
<1>1. left' \in Nat /\ left' <= left /\ left \in Nat /\ MaxOps \in Nat /\ left <= MaxOps
  BY AskedIs DEF StoreTyped
<1>2. DOMAIN child = Children /\ \A q \in Children : child[q] # Idle =>
        child[q] \in Checkpoints /\ 1 <= child[q].revision
        /\ child[q].revision \in Nat /\ child[q].revision + left <= MaxOps
  BY DEF StoreTyped, HeldTyped, Checkpoints
<1>3. 1 <= p.revision /\ p.revision + left' <= MaxOps
  BY <1>1, <1>2
<1>4. clock' \in Nat /\ FilesTyped'
  BY <1>1, <1>3, SavedTyped
<1>5. HeldTyped'
  <2>1. DOMAIN child' = Children /\ (child'[k] = p \/ child'[k] = Idle)
        /\ \A q \in Children \ {k} : child'[q] = child[q]
    BY <1>2
  <2>2. Idle' = Idle
    BY DEF Idle
  <2> QED
    BY <1>1, <1>2, <1>3, <2>1, <2>2 DEF HeldTyped
<1> QED
  BY <1>1, <1>4, <1>5 DEF StoreTyped

LEMMA WritesStands ==
    ASSUME StoreTyped, StandInv, NEW k \in Children, child[k] # Idle, NEW p \in Checkpoints,
           p.revision = child[k].revision, p.corrections = child[k].corrections,
           SaveCompiler(k, p),
           \/ child' = [child EXCEPT ![k] = p] /\ (Blank(child[k]) => Blank(p))
           \/ child' = [child EXCEPT ![k] = Idle],
           UNCHANGED answered, NEW q \in Children
    PROVE  Standing(q)' /\ Kept(q)
<1>1. DOMAIN child = Children
  BY DEF StoreTyped, HeldTyped
<1>2. /\ (child'[k] = p /\ (Blank(child[k]) => Blank(p))) \/ child'[k] = Idle
      /\ \A x \in Children \ {k} : child'[x] = child[x]
  BY <1>1
<1>3. \A x \in Children \ {k} : revisions'[x] = revisions[x]
  BY SavedAre
<1>4. Standing(q) /\ Standing(k)
  BY DEF StandInv
<1>5. CASE q # k
  BY <1>2, <1>3, <1>4, <1>5, Unwritten
<1>6. CASE q = k
  <2>1. /\ Apart(k)' /\ Files(k)' # {}
        /\ (\A n \in Files(k) : n <= p.revision) =>
             Highest(k)' = p.revision /\ LoadCompiler(k)' = p /\ ~Parted(k)'
        /\ Files(k) # {} /\ p.revision < Highest(k) =>
             Highest(k)' = Highest(k) /\ LoadCompiler(k)' = LoadCompiler(k)
    BY <1>4, SavedStands DEF Standing
  <2>2. Idle' = Idle /\ p.revision \in Nat /\ Blank(child[k])
    BY <1>4 DEF Idle, Checkpoints, Standing, Running
  <2>3. Files(k) # {} => /\ Highest(k) \in Nat
                         /\ \A n \in Files(k) : n \in Nat /\ n <= Highest(k)
    BY HighestIs DEF StoreTyped, FilesTyped
  <2>4. Begun(k)'
    BY <2>1 DEF Begun
  <2>5. CASE \A n \in Files(k) : n <= p.revision
    <3>1. Highest(k)' = p.revision /\ LoadCompiler(k)' = p /\ ~Parted(k)'
      BY <2>1, <2>5
    <3>2. Running(k)' /\ Open(k)'
      BY <1>2, <2>1, <2>2, <3>1, BlankIs DEF Running, Open
    <3>3. ~Overtaken(k)'
      BY <1>2, <2>2, <3>1 DEF Overtaken
    <3>4. Loses(k) => Overtaken(k) /\ child[k].revision = Highest(k)
      <4>1. SUFFICES ASSUME NEW c \in answered[k], Stands(k, c), ~Stands(k, c)'
                     PROVE  Overtaken(k) /\ child[k].revision = Highest(k)
        BY DEF Loses
      <4>2. Files(k) # {} /\ p.corrections # LoadCompiler(k).corrections
        BY <2>1, <3>1, <4>1 DEF Stands
      <4>3. Highest(k) \in Files(k)
        BY <4>2, HighestIs
      <4>4. p.revision = Highest(k)
        BY <1>4, <2>2, <2>3, <2>5, <4>2, <4>3 DEF Standing, Running
      <4> QED
        BY <4>2, <4>4 DEF Overtaken
    <3> QED
      BY <2>1, <2>4, <3>1, <3>2, <3>3, <3>4, <1>6 DEF Standing, Kept
  <2>6. CASE ~ \A n \in Files(k) : n <= p.revision
    <3>1. Files(k) # {} /\ p.revision < Highest(k)
      BY <2>2, <2>3, <2>6
    <3>2. Highest(k)' = Highest(k) /\ LoadCompiler(k)' = LoadCompiler(k)
      BY <2>1, <3>1
    <3>3. Overtaken(k)
      BY <3>1 DEF Overtaken
    <3>4. Running(k)'
      BY <1>2, <2>2, <2>3, <3>1, <3>2 DEF Running
    <3>5. Open(k)'
      BY <1>4, <2>2, <2>3, <3>1, <3>2 DEF Standing, Open
    <3>6. ~Loses(k)
      BY <2>1, <3>2 DEF Loses, Stands
    <3> QED
      BY <2>1, <2>4, <3>3, <3>4, <3>5, <3>6, <1>6 DEF Standing, Kept
  <2> QED
    BY <2>5, <2>6
<1> QED
  BY <1>5, <1>6

LEMMA CommittedIs ==
    ASSUME StoreTyped, NEW k \in Children, NEW c \in Checks, ChildCommits(k, c)
    PROVE  /\ Asked /\ child[k] # Idle /\ UNCHANGED <<traceVars, reader, answered>>
           /\ \E p \in Checkpoints :
                /\ p.revision = child[k].revision /\ p.corrections = child[k].corrections
                /\ (Blank(child[k]) => Blank(p))
                /\ SaveCompiler(k, p) /\ child' = [child EXCEPT ![k] = p]
<1> DEFINE held == child[k]
           p == [held EXCEPT !.done = held.done \cup {c}]
<1>1. /\ Asked /\ child[k] # Idle /\ UNCHANGED <<traceVars, reader, answered>>
      /\ child' = [child EXCEPT ![k] = p] /\ SaveCompiler(k, child'[k])
  BY DEF ChildCommits
<1>2. held \in Checkpoints /\ held.done \in SUBSET Checks
  BY <1>1 DEF StoreTyped, HeldTyped, Checkpoints
<1> DEFINE done == held.done \cup {c}
<1>3. done \in SUBSET Checks
  BY <1>2
<1>4. p = [held EXCEPT !.done = done]
  OBVIOUS
<1> HIDE DEF done, p
<1>5. held \in Checkpoints
  BY <1>2
<1> HIDE DEF held
<1>6. p \in Checkpoints /\ p.revision = held.revision /\ p.corrections = held.corrections
      /\ (Blank(held) => Blank(p))
  BY <1>3, <1>4, <1>5, DoneIs
<1>7. child'[k] = p
  BY <1>1 DEF StoreTyped, HeldTyped
<1>8. SaveCompiler(k, p)
  BY <1>1, <1>7
<1> QED
  BY <1>1, <1>6, <1>8 DEF held

LEMMA EndsIs ==
    ASSUME StoreTyped, NEW k \in Children, ChildEnds(k)
    PROVE  /\ Asked /\ child[k] # Idle /\ child' = [child EXCEPT ![k] = Idle]
           /\ child[k].revision \in Nat
           /\ mem' = [mem EXCEPT ![ParentOf[k]].pending = child[k].revision]
           /\ UNCHANGED <<sdk, saved, runfile, casefile, trace, todo, reader, answered>>
           /\ \E p \in Checkpoints :
                /\ p.revision = child[k].revision /\ p.corrections = child[k].corrections
                /\ SaveCompiler(k, p)
<1> DEFINE held == child[k]
           compile == IF held.done = Checks THEN "COMMITTED" ELSE "NON_CONVERGED"
           p == [held EXCEPT !.status = "completed", !.compile = compile]
<1>1. /\ Asked /\ child[k] # Idle /\ child' = [child EXCEPT ![k] = Idle]
      /\ mem' = [mem EXCEPT ![ParentOf[k]].pending = child[k].revision]
      /\ UNCHANGED <<sdk, saved, runfile, casefile, trace, todo, reader, answered>>
      /\ SaveCompiler(k, p)
  BY DEF ChildEnds
<1>2. held \in Checkpoints /\ held.revision \in Nat
  BY <1>1 DEF StoreTyped, HeldTyped, Checkpoints
<1>3. compile \in Words /\ "completed" \in Words
  BY WordsAre
<1> HIDE DEF compile, held
<1>4. p \in Checkpoints /\ p.revision = held.revision /\ p.corrections = held.corrections
  BY <1>2, <1>3, EndedIs
<1> HIDE DEF p
<1> QED
  BY <1>1, <1>2, <1>4 DEF held

\* Unless something was written after the highest revision, what the Manager's tools read is
\* what the child resumes from.
LEMMA LatestHighest ==
    ASSUME StoreTyped, NEW k \in Children, Files(k) # {}, Apart(k), ~Parted(k)
    PROVE  LatestCompiler(k) = LoadCompiler(k)
<1> DEFINE last == LatestCompiler(k).revision
           top == Highest(k)
<1>1. /\ last \in Files(k) /\ LatestCompiler(k) = revisions[k][last].payload
      /\ \A n \in Files(k) : revisions[k][n].time <= revisions[k][last].time
  BY LatestCompilerIs
<1>2. top \in Files(k) /\ \A m \in Files(k) : m <= top
  BY HighestIs
<1>3. \A n \in Files(k) : n \in Nat /\ revisions[k][n].time \in Nat
  BY DEF StoreTyped, FilesTyped
<1>4. LoadCompiler(k) = revisions[k][top].payload
  BY DEF LoadCompiler
<1>5. ~ (revisions[k][top].time < revisions[k][last].time)
  BY <1>1 DEF Parted
<1> HIDE DEF last, top
<1>6. revisions[k][top].time = revisions[k][last].time
  BY <1>1, <1>2, <1>3, <1>5
<1>7. last = top
  BY <1>1, <1>2, <1>6 DEF Apart
<1> QED
  BY <1>1, <1>4, <1>7

\* The Manager's tools write the revision after the one they read.
LEMMA RevisesTyped ==
    ASSUME StoreTyped, Asked, NEW k \in Children, Files(k) # {}, NEW p \in Checkpoints,
           p.revision = LatestCompiler(k).revision + 1, SaveCompiler(k, p),
           UNCHANGED child, answered' \in [Children -> SUBSET Corrections]
    PROVE  StoreTyped'
<1>1. left' \in Nat /\ left' <= left /\ left' = left - 1 /\ left \in Nat /\ MaxOps \in Nat
      /\ left <= MaxOps
  BY AskedIs DEF StoreTyped
<1>2. LatestCompiler(k).revision \in Files(k)
  BY LatestCompilerIs
<1>3. 1 <= p.revision /\ p.revision + left' <= MaxOps
  BY <1>1, <1>2 DEF StoreTyped, FilesTyped
<1>4. clock' \in Nat /\ FilesTyped'
  BY <1>1, <1>3, SavedTyped
<1>5. HeldTyped'
  BY <1>1, HeldSame DEF StoreTyped, HeldTyped
<1> QED
  BY <1>1, <1>4, <1>5 DEF StoreTyped

LEMMA RevisesStands ==
    ASSUME StoreTyped, StandInv, NEW k \in Children, Files(k) # {},
           NEW p \in Checkpoints, NEW c \in Sent,
           p.revision = LatestCompiler(k).revision + 1,
           p.corrections = Append(LatestCompiler(k).corrections, c),
           ~Stuck(p),
           SaveCompiler(k, p), UNCHANGED child,
           \A x \in Children \ {k} : answered'[x] = answered[x],
           \A d \in answered'[k] :
             (d \in answered[k] => Once(LatestCompiler(k).corrections, d.id)) =>
               \/ Once(LatestCompiler(k).corrections, d.id) /\ d.id # c.id
               \/ /\ d = c
                  /\ \A i \in DOMAIN LatestCompiler(k).corrections :
                       LatestCompiler(k).corrections[i].id # c.id,
           NEW q \in Children
    PROVE  Standing(q)' /\ Kept(q)
<1> DEFINE last == LatestCompiler(k)
<1>1. Standing(q) /\ Standing(k)
  BY DEF StandInv
<1>2. \A x \in Children \ {k} : revisions'[x] = revisions[x]
  BY SavedAre
<1>3. CASE q # k
  BY <1>1, <1>2, <1>3, Unwritten
<1>4. CASE q = k
  <2>1. /\ Apart(k)' /\ Files(k)' # {}
        /\ (\A n \in Files(k) : n <= p.revision) =>
             Highest(k)' = p.revision /\ LoadCompiler(k)' = p /\ ~Parted(k)'
        /\ Files(k) # {} /\ p.revision < Highest(k) =>
             Highest(k)' = Highest(k) /\ LoadCompiler(k)' = LoadCompiler(k)
    BY <1>1, SavedStands DEF Standing
  <2>2. /\ Highest(k) \in Nat /\ LoadCompiler(k).revision = Highest(k)
        /\ \A n \in Files(k) : n \in Nat /\ n <= Highest(k)
    BY HighestIs DEF StoreTyped, FilesTyped
  <2>3. last.revision \in Files(k) /\ last \in Checkpoints
    BY LatestCompilerIs
  <2>4. ~Parted(k) => last = LoadCompiler(k)
    BY <1>1, LatestHighest DEF Standing
  <2>5. p.revision = last.revision + 1 /\ p.corrections = Append(last.corrections, c)
    OBVIOUS
  <2>6. \A d \in answered'[k] :
          (d \in answered[k] => Once(last.corrections, d.id)) =>
            \/ Once(last.corrections, d.id) /\ d.id # c.id
            \/ d = c /\ \A i \in DOMAIN last.corrections : last.corrections[i].id # c.id
    OBVIOUS
  <2> HIDE DEF last
  <2>7. Idle' = Idle /\ child'[k] = child[k]
    BY DEF Idle
  <2>8. ~Parted(k) => p.revision = Highest(k) + 1 /\ \A n \in Files(k) : n <= p.revision
    BY <2>2, <2>4, <2>5
  <2>9. Begun(k)'
    BY <2>1 DEF Begun
  <2>10. Running(k)' /\ Open(k)'
    <3>1. CASE \A n \in Files(k) : n <= p.revision
      <4>1. Highest(k)' = p.revision /\ LoadCompiler(k)' = p /\ ~Parted(k)'
        BY <2>1, <3>1
      <4>2. Highest(k) <= p.revision
        BY <3>1, HighestIs
      <4>3. child[k] # Idle => Blank(child[k]) /\ ~ (p.revision < child[k].revision)
        <5> SUFFICES ASSUME child[k] # Idle
                     PROVE  Blank(child[k]) /\ ~ (p.revision < child[k].revision)
          OBVIOUS
        <5>1. child[k].revision \in Nat /\ p.revision \in Nat
          BY DEF StoreTyped, HeldTyped, Checkpoints
        <5>2. Highest(k) < child[k].revision => child[k].revision = p.revision
          BY <1>1, <2>8 DEF Standing, Running
        <5> QED
          BY <1>1, <2>2, <4>2, <5>1, <5>2 DEF Standing, Running
      <4> QED
        BY <2>7, <4>1, <4>3 DEF Running, Open
    <3>2. CASE ~ \A n \in Files(k) : n <= p.revision
      <4>1. p.revision < Highest(k)
        BY <2>2, <3>2 DEF Checkpoints
      <4>2. Highest(k)' = Highest(k) /\ LoadCompiler(k)' = LoadCompiler(k) /\ Parted(k)
        BY <2>1, <2>8, <3>2, <4>1
      <4> QED
        BY <1>1, <2>7, <4>2 DEF Standing, Running, Open
    <3> QED
      BY <3>1, <3>2
  <2>11. ~Parted(k) => ~Parted(k)' /\ ~Loses(k)
    <3> SUFFICES ASSUME ~Parted(k) PROVE ~Parted(k)' /\ ~Loses(k)
      OBVIOUS
    <3>1. LoadCompiler(k)' = p /\ ~Parted(k)'
      BY <2>1, <2>8
    <3>2. last = LoadCompiler(k) /\ last.corrections \in Seq(Sent)
      BY <2>3, <2>4 DEF Checkpoints
    <3>3. ASSUME NEW d \in answered'[k], d \in answered[k] => Stands(k, d)
          PROVE  Stands(k, d)'
      <4>1. d \in answered[k] => Once(last.corrections, d.id)
        BY <3>2, <3>3 DEF Stands
      <4>2. CASE Once(last.corrections, d.id) /\ d.id # c.id
        <5>1. Once(p.corrections, d.id)
          BY <2>5, <3>2, <4>2, OnceStill
        <5> QED
          BY <2>1, <3>1, <5>1 DEF Stands
      <4>3. CASE d = c /\ \A i \in DOMAIN last.corrections : last.corrections[i].id # c.id
        <5>1. Once(p.corrections, d.id)
          BY <2>5, <3>2, <4>3, OnceLast
        <5> QED
          BY <2>1, <3>1, <5>1 DEF Stands
      <4> QED
        BY <2>6, <3>3, <4>1, <4>2, <4>3
    <3> QED
      BY <3>1, <3>3 DEF Loses
  <2>12. Overtaken(k)' => child[k] # Idle
    BY <2>7 DEF Overtaken
  <2> QED
    BY <1>4, <2>1, <2>7, <2>9, <2>10, <2>11, <2>12 DEF Standing, Kept
<1> QED
  BY <1>3, <1>4

\* What a correction of the child k does
Corrects(r, k, c) ==
  /\ Asked /\ Files(k) # {}
  /\ LatestCompiler(k) \in Checkpoints
  /\ mem' = [mem EXCEPT ![r].pending = 0]
  /\ UNCHANGED <<sdk, saved, runfile, casefile, trace, todo, child, reader>>
  /\ \/ UNCHANGED <<revisions, clock, answered>>
     \/ /\ \A i \in DOMAIN LatestCompiler(k).corrections :
             LatestCompiler(k).corrections[i].id # c.id
        /\ SaveCompiler(k, Rechecked(LatestCompiler(k), c))
        /\ answered' = [answered EXCEPT ![k] = answered[k] \cup {c}]

LEMMA RecheckIs ==
    ASSUME StoreTyped, NEW r \in Runs, NEW asked \in Children \cup {""},
           NEW c \in Corrections, NEW n, Recheck(r, asked, c, n)
    PROVE  LatestChild(asked) \in Children /\ Corrects(r, LatestChild(asked), c)
<1> DEFINE k == LatestChild(asked)
           ckpt == LatestCompiler(k)
<1>1. /\ Asked /\ Known(asked)
      /\ mem' = [mem EXCEPT ![r].pending = 0]
      /\ UNCHANGED <<sdk, saved, runfile, casefile, trace, todo, child, reader>>
      /\ \/ UNCHANGED <<revisions, clock, answered>>
         \/ /\ Existing(ckpt, c) = {} /\ SaveCompiler(k, Rechecked(ckpt, c))
            /\ answered' = [answered EXCEPT ![k] = answered[k] \cup {c}]
  BY DEF Recheck, ForgetArtifact
<1>2. k \in Children /\ Files(k) # {}
  BY <1>1, LatestIs
<1>3. ckpt \in Checkpoints
  BY <1>2, LatestCompilerIs
<1>4. Existing(ckpt, c) = {} =>
        \A i \in DOMAIN ckpt.corrections : ckpt.corrections[i].id # c.id
  BY DEF Existing, ToSet
<1> QED
  BY <1>1, <1>2, <1>3, <1>4 DEF Corrects

LEMMA CorrectsTyped ==
    ASSUME StoreTyped, NEW r \in Runs, NEW k \in Children, NEW c \in Corrections,
           Corrects(r, k, c)
    PROVE  StoreTyped'
<1>2. /\ Asked /\ Files(k) # {} /\ LatestCompiler(k) \in Checkpoints /\ UNCHANGED child
      /\ \/ UNCHANGED <<revisions, clock, answered>>
         \/ /\ SaveCompiler(k, Rechecked(LatestCompiler(k), c))
            /\ answered' = [answered EXCEPT ![k] = answered[k] \cup {c}]
  BY DEF Corrects
<1>3. left' \in Nat /\ left' <= left /\ left' <= MaxOps
  BY <1>2, AskedIs
<1>4. CASE UNCHANGED <<revisions, clock, answered>>
  <2>1. clock' \in Nat /\ FilesTyped'
    BY <1>3, <1>4, FilesSame
  <2>2. HeldTyped'
    BY <1>2, <1>3, HeldSame DEF StoreTyped, HeldTyped
  <2>3. answered' \in [Children -> SUBSET Corrections]
    BY <1>4 DEF StoreTyped
  <2>4. left' \in Nat /\ left' <= MaxOps
    BY <1>3
  <2> QED
    BY <2>1, <2>2, <2>3, <2>4 DEF StoreTyped
<1>5. CASE /\ SaveCompiler(k, Rechecked(LatestCompiler(k), c))
           /\ answered' = [answered EXCEPT ![k] = answered[k] \cup {c}]
  <2>1. Rechecked(LatestCompiler(k), c) \in Checkpoints
        /\ Rechecked(LatestCompiler(k), c).revision = LatestCompiler(k).revision + 1
    BY <1>2, RecheckedIs
  <2>2. answered' \in [Children -> SUBSET Corrections]
    BY <1>5 DEF StoreTyped
  <2> QED
    BY <1>2, <1>5, <2>1, <2>2, RevisesTyped
<1> QED
  BY <1>2, <1>4, <1>5

LEMMA CorrectsStands ==
    ASSUME StoreTyped, StandInv, NEW r \in Runs, NEW k \in Children,
           NEW c \in Corrections, Corrects(r, k, c), NEW q \in Children
    PROVE  Standing(q)' /\ Kept(q)
<1> DEFINE ckpt == LatestCompiler(k)
<1>1. Standing(q)
  BY DEF StandInv
<1>2. /\ Files(k) # {} /\ ckpt \in Checkpoints /\ UNCHANGED child
      /\ \/ UNCHANGED <<revisions, clock, answered>>
         \/ /\ \A i \in DOMAIN ckpt.corrections : ckpt.corrections[i].id # c.id
            /\ SaveCompiler(k, Rechecked(ckpt, c))
            /\ answered' = [answered EXCEPT ![k] = answered[k] \cup {c}]
  BY DEF Corrects
<1>3. CASE UNCHANGED <<revisions, clock, answered>>
  BY <1>1, <1>2, <1>3, Unwritten
<1>4. CASE /\ \A i \in DOMAIN ckpt.corrections : ckpt.corrections[i].id # c.id
           /\ SaveCompiler(k, Rechecked(ckpt, c))
           /\ answered' = [answered EXCEPT ![k] = answered[k] \cup {c}]
  <2>1. /\ Rechecked(ckpt, c) \in Checkpoints
        /\ Rechecked(ckpt, c).revision = ckpt.revision + 1
        /\ Rechecked(ckpt, c).corrections = Append(ckpt.corrections, c)
        /\ ~Stuck(Rechecked(ckpt, c))
    BY <1>2, RecheckedIs
  <2>2. c \in Sent
    BY SentAre
  <2>3. \A x \in Children \ {k} : answered'[x] = answered[x]
    BY <1>4 DEF StoreTyped
  <2>4. answered'[k] = answered[k] \cup {c}
    BY <1>4 DEF StoreTyped
  <2>5. \A d \in answered'[k] :
          (d \in answered[k] => Once(ckpt.corrections, d.id)) =>
            \/ Once(ckpt.corrections, d.id) /\ d.id # c.id
            \/ d = c /\ \A i \in DOMAIN ckpt.corrections : ckpt.corrections[i].id # c.id
    <3> HIDE DEF ckpt
    <3> QED
      BY <1>4, <2>4 DEF Once
  <2> QED
    BY <1>2, <1>4, <2>1, <2>2, <2>3, <2>5, RevisesStands
<1> QED
  BY <1>2, <1>3, <1>4

LEMMA CancelIs ==
    ASSUME StoreTyped, NEW r \in Runs, NEW asked \in Children \cup {""}, Cancel(r, asked)
    PROVE  LET k == LatestChild(asked)
           IN  /\ Asked /\ k \in Children /\ Files(k) # {}
               /\ LatestCompiler(k) \in Checkpoints
               /\ mem' = [mem EXCEPT ![r].pending = 0]
               /\ UNCHANGED <<sdk, saved, runfile, casefile, trace, todo, child, reader, answered>>
               /\ SaveCompiler(k, Cancelled(LatestCompiler(k)))
<1> DEFINE k == LatestChild(asked)
<1>1. /\ Asked /\ Known(asked)
      /\ mem' = [mem EXCEPT ![r].pending = 0]
      /\ UNCHANGED <<sdk, saved, runfile, casefile, trace, todo, child, reader, answered>>
      /\ SaveCompiler(k, Cancelled(LatestCompiler(k)))
  BY DEF Cancel, ForgetArtifact
<1>2. k \in Children /\ Files(k) # {}
  BY <1>1, LatestIs
<1>3. LatestCompiler(k) \in Checkpoints
  BY <1>2, LatestCompilerIs
<1> QED
  BY <1>1, <1>2, <1>3

LEMMA CancelTyped ==
    ASSUME StoreTyped, NEW r \in Runs, NEW asked \in Children \cup {""}, Cancel(r, asked)
    PROVE  StoreTyped'
<1>1. PICK k \in Children : k = LatestChild(asked)
  BY CancelIs
<1>2. /\ Asked /\ Files(k) # {} /\ LatestCompiler(k) \in Checkpoints
      /\ UNCHANGED <<child, answered>> /\ SaveCompiler(k, Cancelled(LatestCompiler(k)))
  BY <1>1, CancelIs
<1>3. Cancelled(LatestCompiler(k)) \in Checkpoints
      /\ Cancelled(LatestCompiler(k)).revision = LatestCompiler(k).revision + 1
  BY <1>2, CancelledIs
<1>4. answered' \in [Children -> SUBSET Corrections]
  BY <1>2 DEF StoreTyped
<1> QED
  BY <1>2, <1>3, <1>4, RevisesTyped

\* A cancellation carries no id, so it stands for no correction that was answered.
LEMMA CancelStands ==
    ASSUME StoreTyped, StandInv, NEW r \in Runs, NEW asked \in Children \cup {""},
           Cancel(r, asked), NEW q \in Children
    PROVE  Standing(q)' /\ Kept(q)
<1>1. PICK k \in Children : k = LatestChild(asked)
  BY CancelIs
<1> DEFINE none == [id |-> "", target |-> "", refs |-> {}]
<1>2. /\ Files(k) # {} /\ LatestCompiler(k) \in Checkpoints
      /\ UNCHANGED <<child, answered>> /\ SaveCompiler(k, Cancelled(LatestCompiler(k)))
  BY <1>1, CancelIs
<1>3. /\ Cancelled(LatestCompiler(k)) \in Checkpoints
      /\ Cancelled(LatestCompiler(k)).revision = LatestCompiler(k).revision + 1
      /\ Cancelled(LatestCompiler(k)).corrections = Append(LatestCompiler(k).corrections, none)
      /\ ~Stuck(Cancelled(LatestCompiler(k)))
  BY <1>2, CancelledIs
<1>4. none \in Sent /\ none.id = ""
  BY SentAre
<1> HIDE DEF none
<1>5. \A d \in answered[k] : d.id # none.id
  <2>1. \A d \in Corrections : d.id \in STRING \ {""}
    BY StoreAssumption
  <2>2. answered[k] \subseteq Corrections
    BY DEF StoreTyped
  <2> QED
    BY <1>4, <2>1, <2>2
<1>6. answered'[k] = answered[k] /\ \A x \in Children \ {k} : answered'[x] = answered[x]
  BY <1>2
<1> QED
  BY <1>2, <1>3, <1>4, <1>5, <1>6, RevisesStands

-----------------------------------------------------------------------------
(* The invariants hold at first and are kept by every step. *)

LEMMA StoreStarts == StoreInit => TraceInv /\ StoreTyped /\ StandInv
<1> SUFFICES ASSUME StoreInit PROVE TraceInv /\ StoreTyped /\ StandInv
  OBVIOUS
<1>1. /\ Init /\ clock = 0 /\ left = MaxOps
      /\ revisions = [k \in Children |-> [n \in {} |-> Idle]]
      /\ child = [k \in Children |-> Idle] /\ answered = [k \in Children |-> {}]
  BY DEF StoreInit, Init
<1>2. \A k \in Children : Files(k) = {} /\ child[k] = Idle /\ answered[k] = {}
  BY <1>1 DEF Files
<1>3. DOMAIN revisions = Children /\ DOMAIN child = Children
      /\ answered \in [Children -> SUBSET Corrections]
  BY <1>1
<1>4. FilesTyped /\ HeldTyped
  BY <1>2, <1>3 DEF FilesTyped, HeldTyped
<1>5. StoreTyped
  BY <1>1, <1>3, <1>4, HarnessAssumption DEF StoreTyped
<1>6. StandInv
  BY <1>2 DEF StandInv, Standing, Apart, Begun, Running, Open
<1> QED
  BY <1>1, <1>5, <1>6, TraceInit

\* A step that touches no revision, running child or answer
LEMMA StoreSame ==
    ASSUME StoreTyped, left' = left \/ Asked,
           UNCHANGED <<revisions, clock, child, answered>>
    PROVE  StoreTyped' /\ (StandInv => \A k \in Children : Standing(k)' /\ Kept(k))
<1>1. left' \in Nat /\ left' <= left /\ left' <= MaxOps
  BY AskedIs DEF StoreTyped
<1>2. clock' \in Nat /\ FilesTyped'
  BY <1>1, FilesSame
<1>3. HeldTyped'
  BY <1>1, HeldSame DEF StoreTyped, HeldTyped
<1>4. answered' \in [Children -> SUBSET Corrections]
  BY DEF StoreTyped
<1>5. StandInv => \A k \in Children : Standing(k)' /\ Kept(k)
  BY Unwritten DEF StandInv
<1> QED
  BY <1>1, <1>2, <1>3, <1>4, <1>5 DEF StoreTyped

LEMMA RunNextKeeps ==
    ASSUME TraceInv, RunNext
    PROVE  TraceInv' /\ (left' = left \/ Asked)
<1>1. PICK r \in Runs :
        \/ BeginRun(r) \/ RecordModelCalls(r) \/ Finalize(r) \/ AppendEvent(r) \/ WriteTrace(r)
        \/ Save(r) \/ Clear(r) \/ Resume(r)
        \/ \E c \in Calls : CallModel(r, c)
        \/ \E d \in DecisionsOf[r], fs \in Findings : Decide(r, d, fs)
  BY DEF RunNext
<1>2. CASE BeginRun(r)
  BY <1>2, BeginRunKeeps DEF BeginRun
<1>3. CASE RecordModelCalls(r)
  BY <1>3, RecordModelCallsKeeps DEF RecordModelCalls
<1>4. CASE Finalize(r)
  BY <1>4, FinalizeKeeps DEF Finalize
<1>5. CASE AppendEvent(r)
  BY <1>5, AppendEventKeeps DEF AppendEvent
<1>6. CASE WriteTrace(r)
  BY <1>6, WriteTraceKeeps DEF WriteTrace
<1>7. CASE Save(r)
  BY <1>7, SaveKeeps DEF Save
<1>8. CASE Clear(r)
  BY <1>8, ClearKeeps DEF Clear
<1>9. CASE Resume(r)
  BY <1>9, ResumeKeeps DEF Resume
<1>10. ASSUME NEW c \in Calls, CallModel(r, c) PROVE TraceInv' /\ Asked
  BY <1>10, CallModelKeeps DEF CallModel
<1>11. ASSUME NEW d, NEW fs \in Findings, Decide(r, d, fs) PROVE TraceInv' /\ Asked
  BY <1>11, DecideKeeps DEF Decide
<1> QED
  BY <1>1, <1>2, <1>3, <1>4, <1>5, <1>6, <1>7, <1>8, <1>9, <1>10, <1>11

LEMMA StoreNextKeeps ==
    ASSUME TraceInv, StoreTyped, StoreNext
    PROVE  TraceInv' /\ StoreTyped' /\ (StandInv => \A q \in Children : Standing(q)' /\ Kept(q))
<1>1. ASSUME NEW k \in Children, StartChild(k)
      PROVE  TraceInv' /\ StoreTyped' /\ (StandInv => \A q \in Children : Standing(q)' /\ Kept(q))
  BY <1>1, StartedIs, TraceSame, StartChildTyped, StartChildStands
<1>2. ASSUME NEW k \in Children, NEW c \in Checks, ChildCommits(k, c)
      PROVE  TraceInv' /\ StoreTyped' /\ (StandInv => \A q \in Children : Standing(q)' /\ Kept(q))
  <2>1. Asked /\ child[k] # Idle /\ UNCHANGED <<traceVars, answered>>
    BY <1>2, CommittedIs
  <2>2. PICK p \in Checkpoints :
          /\ p.revision = child[k].revision /\ p.corrections = child[k].corrections
          /\ (Blank(child[k]) => Blank(p))
          /\ SaveCompiler(k, p) /\ child' = [child EXCEPT ![k] = p]
    BY <1>2, CommittedIs
  <2> QED
    BY <2>1, <2>2, TraceSame, WritesTyped, WritesStands
<1>3. ASSUME NEW k \in Children, ChildEnds(k)
      PROVE  TraceInv' /\ StoreTyped' /\ (StandInv => \A q \in Children : Standing(q)' /\ Kept(q))
  <2>1. /\ Asked /\ child[k] # Idle /\ child' = [child EXCEPT ![k] = Idle]
        /\ child[k].revision \in Nat
        /\ mem' = [mem EXCEPT ![ParentOf[k]].pending = child[k].revision]
        /\ UNCHANGED <<sdk, saved, runfile, casefile, todo, answered>>
    BY <1>3, EndsIs
  <2>2. PICK p \in Checkpoints :
          /\ p.revision = child[k].revision /\ p.corrections = child[k].corrections
          /\ SaveCompiler(k, p)
    BY <1>3, EndsIs
  <2>3. StoreTyped' /\ (StandInv => \A q \in Children : Standing(q)' /\ Kept(q))
    BY <2>1, <2>2, WritesTyped, WritesStands
  <2>4. ParentOf[k] \in Runs
    BY StoreAssumption
  <2>5. TraceInv'
    BY <2>1, <2>4, PendingKeeps
  <2> QED
    BY <2>3, <2>5
<1>4. ASSUME NEW asked \in Children \cup {""}, NEW fresh \in BOOLEAN, Inspect(asked, fresh)
      PROVE  TraceInv' /\ StoreTyped' /\ (StandInv => \A q \in Children : Standing(q)' /\ Kept(q))
  <2>1. UNCHANGED <<traceVars, revisions, clock, child, answered, left>>
    BY <1>4 DEF Inspect
  <2> QED
    BY <2>1, TraceSame, StoreSame
<1>5. ASSUME NEW r \in Runs, NEW asked \in Children \cup {""}, Cancel(r, asked)
      PROVE  TraceInv' /\ StoreTyped' /\ (StandInv => \A q \in Children : Standing(q)' /\ Kept(q))
  <2>1. mem' = [mem EXCEPT ![r].pending = 0]
        /\ UNCHANGED <<sdk, saved, runfile, casefile, todo>>
    BY <1>5, CancelIs
  <2>2. TraceInv'
    BY <2>1, PendingKeeps
  <2> QED
    BY <1>5, <2>2, CancelTyped, CancelStands
<1>6. ASSUME NEW r \in Runs, NEW asked \in Children \cup {""}, NEW c \in Corrections, NEW n,
             Recheck(r, asked, c, n)
      PROVE  TraceInv' /\ StoreTyped' /\ (StandInv => \A q \in Children : Standing(q)' /\ Kept(q))
  <2>1. LatestChild(asked) \in Children /\ Corrects(r, LatestChild(asked), c)
    BY <1>6, RecheckIs
  <2>2. mem' = [mem EXCEPT ![r].pending = 0]
        /\ UNCHANGED <<sdk, saved, runfile, casefile, todo>>
    BY <2>1 DEF Corrects
  <2>3. TraceInv'
    BY <2>2, PendingKeeps
  <2> QED
    BY <2>1, <2>3, CorrectsTyped, CorrectsStands
<1>7. ASSUME NEW torn, Crash(torn)
      PROVE  TraceInv' /\ StoreTyped' /\ (StandInv => \A q \in Children : Standing(q)' /\ Kept(q))
  <2>1. /\ Stop(torn) /\ Asked /\ child' = [k \in Children |-> Idle]
        /\ UNCHANGED <<revisions, clock, answered>>
    BY <1>7 DEF Crash, Stop
  <2>2. TraceInv'
    BY <2>1, StopKeeps
  <2>3. left' \in Nat /\ left' <= left /\ left' <= MaxOps
    BY <2>1, AskedIs
  <2>4. clock' \in Nat /\ FilesTyped'
    BY <2>1, <2>3, FilesSame
  <2>5. HeldTyped'
    BY <2>1, <2>3, HeldSame
  <2>6. answered' \in [Children -> SUBSET Corrections]
    BY <2>1 DEF StoreTyped
  <2>7. StoreTyped'
    BY <2>3, <2>4, <2>5, <2>6 DEF StoreTyped
  <2>8. StandInv => \A q \in Children : Standing(q)' /\ Kept(q)
    <3>1. \A k \in Children : child'[k] = Idle
      BY <2>1
    <3> QED
      BY <2>1, <3>1, Unwritten DEF StandInv
  <2> QED
    BY <2>2, <2>7, <2>8
<1> QED
  BY <1>1, <1>2, <1>3, <1>4, <1>5, <1>6, <1>7 DEF StoreNext

LEMMA NextKeeps ==
    ASSUME TraceInv, StoreTyped, [Next]_vars
    PROVE  TraceInv' /\ StoreTyped' /\ (StandInv => \A q \in Children : Standing(q)' /\ Kept(q))
<1>1. CASE RunNext /\ UNCHANGED storeVars
  <2>1. TraceInv' /\ (left' = left \/ Asked)
    BY <1>1, RunNextKeeps
  <2>2. UNCHANGED <<revisions, clock, child, answered>>
    BY <1>1 DEF storeVars
  <2> QED
    BY <2>1, <2>2, StoreSame
<1>2. CASE StoreNext
  BY <1>2, StoreNextKeeps
<1>3. CASE UNCHANGED vars
  <2>1. UNCHANGED <<traceVars, revisions, clock, child, answered, left>>
    BY <1>3 DEF vars, storeVars
  <2> QED
    BY <2>1, TraceSame, StoreSame
<1> QED
  BY <1>1, <1>2, <1>3 DEF Next

\* No two events of a run carry the same id, in its own file or in the case's, however
\* often it is stopped inside an append and resumed from an older state: the number goes on
\* after the largest one on disk (append_debug_event, reconcile_debug_sequence).
THEOREM IdsAreUnique == Spec => []EventIdsUnique
<1>1. StoreInit => TraceInv /\ StoreTyped
  BY StoreStarts
<1>2. TraceInv /\ StoreTyped /\ [Next]_vars => (TraceInv /\ StoreTyped)'
  BY NextKeeps
<1>3. TraceInv => EventIdsUnique
  BY DEF TraceInv, IdsInv
<1> QED
  BY <1>1, <1>2, <1>3, PTL DEF Spec

\* A run with nothing left to append has an event on file for every model call it accounts
\* for, those made before a resume and those since (record_model_calls).
THEOREM EveryCallIsLogged == Spec => []CallsLogged
<1>1. StoreInit => TraceInv /\ StoreTyped
  BY StoreStarts
<1>2. TraceInv /\ StoreTyped /\ [Next]_vars => (TraceInv /\ StoreTyped)'
  BY NextKeeps
<1>3. TraceInv => CallsLogged
  <2> SUFFICES ASSUME TraceInv, NEW r \in Runs, Ready(r), NEW c \in ToSet(mem[r].calls)
               PROVE  \E e \in ToSet(runfile[r]) : e.call = c
    BY DEF CallsLogged
  <2>1. PICK i \in DOMAIN mem[r].calls : mem[r].calls[i] = c
    BY DEF ToSet
  <2>2. Covered(r, c)
    BY <2>1 DEF TraceInv, CallsInv, Ready
  <2>3. Logged(r, c)
    BY <2>2, ReadyLogged DEF Ready
  <2> QED
    BY <2>3 DEF Logged, ToSet
<1> QED
  BY <1>1, <1>2, <1>3, PTL DEF Spec

\* A correction answered "revision_created" is, once, in the revision the child resumes from,
\* and stays there, unless a running child and the Manager raced for a revision number: then
\* it can go only where the child writes the number the Manager gave out meanwhile, or the
\* Manager corrects a revision that is no longer the highest.  What the Manager's tools read,
\* the file written last, is not the highest revision only after a write of a child that was
\* overtaken, and only a revision saved while it runs overtakes a child (load_compiler,
\* latest_compiler, revise_compiler_checkpoint).
THEOREM CorrectionsAreKept == Spec => CorrectionsStand
<1>1. StoreInit => TraceInv /\ StoreTyped /\ StandInv
  BY StoreStarts
<1>2. TraceInv /\ StoreTyped /\ StandInv /\ [Next]_vars => (TraceInv /\ StoreTyped /\ StandInv)'
  BY NextKeeps DEF StandInv
<1>3. TraceInv /\ StoreTyped /\ StandInv /\ [Next]_vars => [\A k \in Children : Kept(k)]_vars
  BY NextKeeps
<1>4. Spec => [][\A k \in Children : Kept(k)]_vars
  BY <1>1, <1>2, <1>3, PTL DEF Spec
<1>5. CorrectionsStand <=> [][\A k \in Children : Kept(k)]_vars
  BY DEF CorrectionsStand, Kept
<1> QED
  BY <1>4, <1>5

-----------------------------------------------------------------------------
(* Pages of events: which lines a page is made of. *)

\* g lists the numbers of S, all of them, in their order.
Enumerates(g, m, S) ==
  /\ g \in [1..m -> S]
  /\ \A i, j \in 1..m : i < j => g[i] < g[j]
  /\ \A n \in S : \E i \in 1..m : g[i] = n

\* One listing goes no other way than another as far as both go.
LEMMA ListedAlike ==
    ASSUME NEW S \in SUBSET Nat, NEW m \in Nat, NEW n \in Nat, NEW g, NEW h,
           Enumerates(g, m, S), Enumerates(h, n, S)
    PROVE  \A i \in 1..m : i <= n => g[i] = h[i]
<1> DEFINE T == {i \in Nat : i \in 1..m /\ i \in 1..n /\ g[i] # h[i]}
<1> SUFFICES ASSUME T # {} PROVE FALSE
  OBVIOUS
<1>1. PICK i \in T : \A t \in T : i <= t
  <2>1. T \in SUBSET Nat
    OBVIOUS
  <2> HIDE DEF T
  <2> QED
    BY <2>1, LeastNumber
<1>2. i \in 1..m /\ i \in 1..n /\ g[i] # h[i]
  OBVIOUS
<1>3. \A j \in 1..m : j < i => j \in 1..n /\ g[j] = h[j]
  <2> SUFFICES ASSUME NEW j \in 1..m, j < i PROVE j \in 1..n /\ g[j] = h[j]
    OBVIOUS
  <2>1. j \in Nat /\ j \in 1..n
    BY <1>2
  <2>2. j \notin T
    <3> HIDE DEF T
    <3>1. i \in Nat
      BY <1>2
    <3> QED
      BY <1>1, <2>1, <3>1
  <2> QED
    BY <2>1, <2>2
<1> HIDE DEF T
<1>4. /\ \A j \in 1..m : g[j] \in S /\ g[j] \in Nat
      /\ \A j \in 1..n : h[j] \in S /\ h[j] \in Nat
  BY DEF Enumerates
<1>5. CASE g[i] < h[i]
  <2>1. PICK j \in 1..n : h[j] = g[i]
    BY <1>2, <1>4 DEF Enumerates
  <2>2. j < i
    <3> SUFFICES ASSUME i <= j PROVE FALSE
      BY <1>2
    <3>1. i = j \/ h[i] < h[j]
      <4>1. i = j \/ i < j
        BY <1>2
      <4> QED
        BY <1>2, <4>1 DEF Enumerates
    <3> QED
      BY <1>2, <1>4, <1>5, <2>1, <3>1
  <2>3. j \in 1..m /\ g[j] = h[j]
    <3>1. j \in 1..m
      BY <1>2, <2>2
    <3> QED
      BY <1>3, <2>2, <3>1
  <2>4. g[j] < g[i]
    BY <1>2, <2>2, <2>3 DEF Enumerates
  <2> QED
    BY <1>2, <1>4, <2>1, <2>3, <2>4
<1>6. CASE h[i] < g[i]
  <2>1. PICK j \in 1..m : g[j] = h[i]
    BY <1>2, <1>4 DEF Enumerates
  <2>2. j < i
    <3> SUFFICES ASSUME i <= j PROVE FALSE
      BY <1>2
    <3>1. i = j \/ g[i] < g[j]
      <4>1. i = j \/ i < j
        BY <1>2
      <4> QED
        BY <1>2, <4>1 DEF Enumerates
    <3> QED
      BY <1>2, <1>4, <1>6, <2>1, <3>1
  <2>3. j \in 1..n /\ g[j] = h[j]
    BY <1>3, <2>2
  <2>4. h[j] < h[i]
    BY <1>2, <2>2, <2>3 DEF Enumerates
  <2> QED
    BY <1>2, <1>4, <2>1, <2>3, <2>4
<1> QED
  BY <1>2, <1>4, <1>5, <1>6

\* No listing is longer than another.
LEMMA NoLongerListing ==
    ASSUME NEW S \in SUBSET Nat, NEW m \in Nat, NEW n \in Nat, NEW g, NEW h,
           Enumerates(g, m, S), Enumerates(h, n, S), m < n
    PROVE  FALSE
<1>1. /\ \A i \in 1..m : g[i] \in Nat
      /\ \A i \in 1..n : h[i] \in S /\ h[i] \in Nat
  BY DEF Enumerates
<1>2. \A i \in 1..m : i \in 1..n /\ g[i] = h[i]
  BY ListedAlike
<1>3. n \in 1..n
  OBVIOUS
<1>4. PICK i \in 1..m : g[i] = h[n]
  BY <1>1, <1>3 DEF Enumerates
<1>5. i \in 1..n /\ i < n /\ h[i] = h[n]
  BY <1>2, <1>4
<1>6. h[i] < h[n]
  BY <1>3, <1>5 DEF Enumerates
<1> QED
  BY <1>1, <1>3, <1>5, <1>6

\* There is one listing of a set of numbers.
LEMMA ListedOnce ==
    ASSUME NEW S \in SUBSET Nat, NEW m \in Nat, NEW n \in Nat, NEW g, NEW h,
           Enumerates(g, m, S), Enumerates(h, n, S)
    PROVE  m = n /\ \A i \in 1..m : g[i] = h[i]
<1>1. m = n
  BY NoLongerListing
<1> QED
  BY <1>1, ListedAlike

\* What is left of a listing up to one of its numbers ...
LEMMA ListedFirst ==
    ASSUME NEW S \in SUBSET Nat, NEW n \in Nat, NEW h, Enumerates(h, n, S), NEW p \in 1..n
    PROVE  Enumerates([i \in 1..p |-> h[i]], p, {x \in S : x <= h[p]})
<1>1. \A i \in 1..n : h[i] \in S /\ h[i] \in Nat
  BY DEF Enumerates
<1>2. \A i \in 1..p : i \in 1..n /\ h[i] <= h[p]
  BY <1>1 DEF Enumerates
<1>3. ASSUME NEW x \in S, x <= h[p] PROVE \E i \in 1..p : h[i] = x
  <2>1. PICK i \in 1..n : h[i] = x
    BY DEF Enumerates
  <2>2. ~ (p < i)
    BY <1>1, <1>3, <2>1 DEF Enumerates
  <2> QED
    BY <2>1, <2>2
<1>4. \A i, j \in 1..p : i < j => h[i] < h[j]
  BY <1>2 DEF Enumerates
<1> QED
  BY <1>1, <1>2, <1>3, <1>4 DEF Enumerates

\* ... and from one of its numbers on
LEMMA ListedLast ==
    ASSUME NEW S \in SUBSET Nat, NEW n \in Nat, NEW h, Enumerates(h, n, S), NEW p \in 1..n
    PROVE  Enumerates([i \in 1..p |-> h[n - p + i]], p, {x \in S : h[n - p + 1] <= x})
<1>1. \A i \in 1..n : h[i] \in S /\ h[i] \in Nat
  BY DEF Enumerates
<1>2. \A i \in 1..p : n - p + i \in 1..n /\ n - p + 1 <= n - p + i
  OBVIOUS
<1>3. n - p + 1 \in 1..n
  OBVIOUS
<1>4. \A i \in 1..p : h[n - p + 1] <= h[n - p + i]
  <2> TAKE i \in 1..p
  <2>1. CASE i = 1
    BY <1>1, <1>3, <2>1
  <2>2. CASE i # 1
    <3>1. n - p + i \in 1..n /\ n - p + 1 < n - p + i
      BY <2>2
    <3>2. h[n - p + 1] < h[n - p + i]
      BY <1>3, <3>1 DEF Enumerates
    <3> QED
      BY <1>1, <1>3, <3>1, <3>2
  <2> QED
    BY <2>1, <2>2
<1>5. ASSUME NEW x \in S, h[n - p + 1] <= x PROVE \E i \in 1..p : h[n - p + i] = x
  <2>1. PICK i \in 1..n : h[i] = x
    BY DEF Enumerates
  <2>2. ~ (i < n - p + 1)
    BY <1>1, <1>3, <1>5, <2>1 DEF Enumerates
  <2>3. i - (n - p) \in 1..p /\ n - p + (i - (n - p)) = i
    BY <2>2
  <2> QED
    BY <2>1, <2>3
<1>6. \A i, j \in 1..p : i < j => h[n - p + i] < h[n - p + j]
  <2> TAKE i, j \in 1..p
  <2>1. n - p + i \in 1..n /\ n - p + j \in 1..n /\ (i < j => n - p + i < n - p + j)
    OBVIOUS
  <2> QED
    BY <2>1 DEF Enumerates
<1> QED
  BY <1>1, <1>2, <1>4, <1>5, <1>6 DEF Enumerates

\* One listing behind another
LEMMA ListedOn ==
    ASSUME NEW S \in SUBSET Nat, NEW Q \in SUBSET Nat, NEW m \in Nat, NEW n \in Nat, NEW g, NEW h,
           Enumerates(g, m, S), Enumerates(h, n, Q), \A x \in S, y \in Q : x < y
    PROVE  Enumerates([i \in 1..(m + n) |-> IF i <= m THEN g[i] ELSE h[i - m]], m + n, S \cup Q)
<1> DEFINE f == [i \in 1..(m + n) |-> IF i <= m THEN g[i] ELSE h[i - m]]
<1>1. /\ \A i \in 1..m : g[i] \in S /\ g[i] \in Nat
      /\ \A i \in 1..n : h[i] \in Q /\ h[i] \in Nat
  BY DEF Enumerates
<1>2. \A i \in 1..(m + n) : IF i <= m THEN i \in 1..m ELSE i - m \in 1..n
  OBVIOUS
<1>3. \A i \in 1..(m + n) : f[i] = IF i <= m THEN g[i] ELSE h[i - m]
  OBVIOUS
<1>4. f \in [1..(m + n) -> S \cup Q]
  BY <1>1, <1>2
<1>5. \A i \in 1..n : m + i \in 1..(m + n) /\ ~ (m + i <= m) /\ (m + i) - m = i
  OBVIOUS
<1>6. \A i \in 1..m : i \in 1..(m + n) /\ i <= m
  OBVIOUS
<1> HIDE DEF f
<1>7. \A i, j \in 1..(m + n) : i < j => f[i] < f[j]
  <2> SUFFICES ASSUME NEW i \in 1..(m + n), NEW j \in 1..(m + n), i < j PROVE f[i] < f[j]
    OBVIOUS
  <2>1. CASE j <= m
    <3>1. i <= m /\ i \in 1..m /\ j \in 1..m
      BY <2>1
    <3> QED
      BY <1>3, <2>1, <3>1 DEF Enumerates
  <2>2. CASE i <= m /\ ~ (j <= m)
    <3>1. g[i] \in S /\ h[j - m] \in Q
      BY <1>1, <1>2, <2>2
    <3> QED
      BY <1>3, <2>2, <3>1
  <2>3. CASE ~ (i <= m) /\ ~ (j <= m)
    <3>1. i - m \in 1..n /\ j - m \in 1..n /\ i - m < j - m
      BY <2>3
    <3> QED
      BY <1>3, <2>3, <3>1 DEF Enumerates
  <2> QED
    BY <2>1, <2>2, <2>3
<1>8. \A x \in S \cup Q : \E i \in 1..(m + n) : f[i] = x
  <2>1. ASSUME NEW x \in S PROVE \E i \in 1..(m + n) : f[i] = x
    <3>1. PICK i \in 1..m : g[i] = x
      BY DEF Enumerates
    <3> QED
      BY <1>3, <1>6, <3>1
  <2>2. ASSUME NEW x \in Q PROVE \E i \in 1..(m + n) : f[i] = x
    <3>1. PICK i \in 1..n : h[i] = x
      BY DEF Enumerates
    <3> QED
      BY <1>3, <1>5, <3>1
  <2> QED
    BY <2>1, <2>2
<1>9. Enumerates(f, m + n, S \cup Q)
  BY <1>4, <1>7, <1>8 DEF Enumerates
<1> QED
  BY <1>9 DEF f

\* t is what the lines of s at S are, g lists S.
Reads(t, s, S, X) ==
  /\ t \in Seq(X)
  /\ \E g : Enumerates(g, Len(t), S) /\ \A i \in 1..Len(t) : t[i] = s[g[i]]

\* Reading one line more
LEMMA ReadsNext ==
    ASSUME NEW X, NEW s \in Seq(X), NEW n \in 1..Len(s), NEW S \in SUBSET (1..(n - 1)),
           NEW t, Reads(t, s, S, X)
    PROVE  Reads(Append(t, s[n]), s, S \cup {n}, X)
<1> DEFINE L == Len(t)
           u == Append(t, s[n])
<1>1. PICK g : Enumerates(g, L, S) /\ \A i \in 1..L : t[i] = s[g[i]]
  BY DEF Reads
<1>2. /\ L \in Nat /\ u \in Seq(X) /\ Len(u) = L + 1 /\ u[L + 1] = s[n]
      /\ \A i \in 1..L : u[i] = t[i]
  <2>1. t \in Seq(X) /\ s[n] \in X
    BY DEF Reads
  <2> QED
    BY <2>1
<1> DEFINE one == [i \in 1..1 |-> n]
           f == [i \in 1..(L + 1) |-> IF i <= L THEN g[i] ELSE one[i - L]]
<1>3. Enumerates(one, 1, {n})
  BY DEF Enumerates
<1>4. S \in SUBSET Nat /\ {n} \in SUBSET Nat /\ 1 \in Nat /\ \A x \in S, y \in {n} : x < y
  OBVIOUS
<1> HIDE DEF one, u, L
<1>5. Enumerates(f, L + 1, S \cup {n})
  BY <1>1, <1>2, <1>3, <1>4, ListedOn
<1>6. \A i \in 1..(L + 1) : u[i] = s[f[i]]
  <2> SUFFICES ASSUME NEW i \in 1..(L + 1) PROVE u[i] = s[f[i]]
    OBVIOUS
  <2>1. f[i] = IF i <= L THEN g[i] ELSE one[i - L]
    OBVIOUS
  <2> HIDE DEF f
  <2>2. CASE i <= L
    <3>1. i \in 1..L
      BY <1>2, <2>2
    <3> QED
      BY <1>1, <1>2, <2>1, <2>2, <3>1
  <2>3. CASE ~ (i <= L)
    <3>1. i = L + 1 /\ i - L = 1
      BY <1>2, <2>3
    <3>2. one[1] = n
      BY DEF one
    <3> QED
      BY <1>2, <2>1, <2>3, <3>1, <3>2
  <2> QED
    BY <2>2, <2>3
<1> HIDE DEF f
<1>7. Reads(u, s, S \cup {n}, X)
  BY <1>2, <1>5, <1>6 DEF Reads
<1> QED
  BY <1>7 DEF u

\* Reading the lines at S of a file finds them, in order.
LEMMA LinesAre ==
    ASSUME NEW X, NEW s \in Seq(X), NEW S \in SUBSET (1..Len(s))
    PROVE  Reads(LinesAt(s, S), s, S, X)
<1> DEFINE N == Len(s)
           Step(n, v) == IF n \in S THEN Append(v, s[n]) ELSE v
           F == [n \in 1..N |-> [v \in Seq(X) |-> Step(n, v)]]
           Is(f) == f = [n \in 0..N |-> IF n = 0 THEN <<>>
                           ELSE IF n \in S THEN Append(f[n - 1], s[n]) ELSE f[n - 1]]
           g == CHOOSE f : Is(f)
<1>0. N \in Nat
  OBVIOUS
<1>1. LinesAt(s, S) = g[N]
  BY DEF LinesAt
<1>2. \A n \in 1..N : \A v \in Seq(X) : Step(n, v) \in Seq(X)
  <2> TAKE n \in 1..N
  <2> TAKE v \in Seq(X)
  <2>1. s[n] \in X
    OBVIOUS
  <2> QED
    BY <2>1
<1>3. PICK f \in [0..N -> Seq(X)] : Accumulates(f, <<>>, F, N)
  <2>1. F \in [1..N -> [Seq(X) -> Seq(X)]]
    <3> HIDE DEF Step, N
    <3> QED
      BY <1>2
  <2>2. <<>> \in Seq(X)
    OBVIOUS
  <2> HIDE DEF F, N
  <2> QED
    BY <1>0, <2>1, <2>2, AccumulationExists
<1>4. \A n \in 0..N : f[n] = IF n = 0 THEN <<>> ELSE Step(n, f[n - 1])
  <2> HIDE DEF Step
  <2> TAKE n \in 0..N
  <2>1. f[n] = IF n = 0 THEN <<>> ELSE F[n][f[n - 1]]
    BY <1>3 DEF Accumulates
  <2>2. n # 0 => n \in 1..N /\ n - 1 \in 0..N
    OBVIOUS
  <2>3. n # 0 => f[n - 1] \in Seq(X)
    <3> HIDE DEF N, F
    <3> QED
      BY <1>3, <2>2
  <2> QED
    BY <2>1, <2>2, <2>3
<1>5. Is(f)
  <2> HIDE DEF N
  <2> QED
    BY <1>4
<1>6. Is(g)
  <2> HIDE DEF Is
  <2> QED
    BY <1>5, Zenon
<1>7. g[0] = <<>> /\ \A n \in 1..N : g[n] = Step(n, g[n - 1])
  <2>1. g = [n \in 0..N |-> IF n = 0 THEN <<>> ELSE Step(n, g[n - 1])]
    BY <1>6
  <2> HIDE DEF g, N, Step
  <2>2. \A n \in 0..N : g[n] = IF n = 0 THEN <<>> ELSE Step(n, g[n - 1])
    BY <2>1
  <2>3. 0 \in 0..N /\ \A n \in 1..N : n \in 0..N /\ n # 0
    BY <1>0
  <2> QED
    BY <2>2, <2>3
<1> DEFINE Upto(n) == {x \in S : x <= n}
           T == {n \in 0..N : Reads(g[n], s, Upto(n), X)}
<1> HIDE DEF g, F
<1>8. 0 \in T
  <2>1. Upto(0) = {} /\ 0 \in 0..N
    OBVIOUS
  <2>2. Enumerates([i \in 1..0 |-> 0], 0, {})
    BY DEF Enumerates
  <2>3. Reads(<<>>, s, {}, X)
    BY <2>2 DEF Reads
  <2> QED
    BY <1>7, <2>1, <2>3
<1>9. ASSUME NEW n \in 1..N, n - 1 \in T PROVE n \in T
  <2>1. Reads(g[n - 1], s, Upto(n - 1), X) /\ n \in 0..N
    BY <1>9
  <2>0. \A x \in S : x \in 1..N /\ (x <= n <=> x <= n - 1 \/ x = n)
    <3> HIDE DEF Step, T, Upto, Is
    <3>1. \A x \in S : x \in 1..N
      OBVIOUS
    <3> HIDE DEF N
    <3> QED
      BY <1>0, <3>1
  <2>2. CASE n \in S
    <3>1. Upto(n - 1) \in SUBSET (1..(n - 1)) /\ Upto(n) = Upto(n - 1) \cup {n}
      <4> HIDE DEF N, Step, T, Is
      <4>1. \A x \in Upto(n - 1) : x \in S /\ x \in 1..(n - 1)
        BY <1>0, <2>0
      <4>2. \A x \in S : x <= n <=> x <= n - 1 \/ x = n
        BY <2>0
      <4>3. n <= n
        BY <1>0
      <4> QED
        BY <2>2, <4>1, <4>2, <4>3
    <3>2. g[n] = Append(g[n - 1], s[n])
      BY <1>7, <2>2
    <3> HIDE DEF Upto, Step
    <3>3. Reads(g[n], s, Upto(n), X)
      BY <2>1, <3>1, <3>2, ReadsNext
    <3> QED
      BY <2>1, <3>3
  <2>3. CASE n \notin S
    <3>1. Upto(n) = Upto(n - 1)
      <4> HIDE DEF N, Step, T, Is
      <4> QED
        BY <2>0, <2>3
    <3>2. g[n] = g[n - 1]
      BY <1>7, <2>3
    <3> HIDE DEF Upto, Step
    <3> QED
      BY <2>1, <3>1, <3>2
  <2> QED
    BY <2>2, <2>3
<1>10. N \in T
  <2>1. \A n \in 1..N : n - 1 \in T => n \in T
    BY <1>9
  <2>2. N \in 0..N
    BY <1>0
  <2> HIDE DEF T, N
  <2> QED
    BY <1>0, <1>8, <2>1, <2>2, TurnByTurn, Zenon
<1>11. Upto(N) = S
  OBVIOUS
<1> QED
  BY <1>1, <1>10, <1>11

\* The events of child k behind a number; those the Manager has been shown
Behind(k, c) == {n \in Places(k) : casefile[n].case > c}
Shown(k) == {n \in Places(k) : /\ reader[k].from <= casefile[n].case
                              /\ casefile[n].case <= reader[k].cursor}

\* An event is numbered by its line; what the Manager has seen is what its cursor has passed,
\* from where it started.
EventIds == [run : Runs, seq : Nat]
Passed(k) ==
  /\ reader[k].from <= reader[k].cursor /\ reader[k].cursor <= Len(casefile)
  /\ \E g : /\ Enumerates(g, Len(reader[k].seen), Shown(k))
            /\ \A i \in 1..Len(reader[k].seen) : reader[k].seen[i] = casefile[g[i]].id
PageInv ==
  /\ \A n \in DOMAIN casefile : casefile[n].case = n
  /\ reader \in [Children -> [from : Nat, cursor : Nat, seen : Seq(EventIds)]]
  /\ \A k \in Children : Passed(k)

\* What is behind a number in the file, read line by line
LEMMA AfterIs ==
    ASSUME TraceTyped, PageInv, NEW k \in Children, NEW c \in Nat
    PROVE  /\ Behind(k, c) = {n \in Places(k) : c < n}
           /\ Places(k) \in SUBSET (1..Len(casefile)) /\ Len(casefile) \in Nat
           /\ After(k, c) \in Seq(Filed)
           /\ \E g : /\ Enumerates(g, Len(After(k, c)), Behind(k, c))
                     /\ \A i \in 1..Len(After(k, c)) : After(k, c)[i] = casefile[g[i]]
<1>1. casefile \in Seq(Filed) /\ DOMAIN casefile = 1..Len(casefile) /\ Len(casefile) \in Nat
  BY DEF TraceTyped
<1>2. Places(k) \in SUBSET (1..Len(casefile))
  BY <1>1 DEF Places
<1>3. \A n \in Places(k) : casefile[n].case = n /\ n \in Nat
  BY <1>1, <1>2 DEF PageInv
<1>4. Behind(k, c) = {n \in Places(k) : c < n}
  BY <1>3 DEF Behind
<1>5. Behind(k, c) \in SUBSET (1..Len(casefile))
  BY <1>2 DEF Behind
<1>6. Reads(LinesAt(casefile, Behind(k, c)), casefile, Behind(k, c), Filed)
  BY <1>1, <1>5, LinesAre
<1>7. After(k, c) = LinesAt(casefile, Behind(k, c))
  BY DEF After, Behind
<1> QED
  BY <1>1, <1>2, <1>4, <1>6, <1>7 DEF Reads

\* A page is a listing of what is behind the cursor, up to the last event it shows.
LEMMA PageIs ==
    ASSUME TraceTyped, PageInv, NEW k \in Children, NEW c \in Nat, Page(k, c) # <<>>
    PROVE  \E p, h :
             /\ p \in Nat /\ p >= 1 /\ Len(Page(k, c)) = p
             /\ Enumerates(h, p, {n \in Places(k) : c < n /\ n <= h[p]})
             /\ \A i \in 1..p : Page(k, c)[i] = casefile[h[i]]
             /\ NextCaseSeq(c, Page(k, c)) = h[p]
<1> DEFINE es == After(k, c)
           L == Len(es)
           p == AtMost(L, PageSize)
           B == Behind(k, c)
<1>1. /\ B = {n \in Places(k) : c < n} /\ Places(k) \in SUBSET (1..Len(casefile))
      /\ Len(casefile) \in Nat /\ es \in Seq(Filed)
  BY AfterIs
<1>2. PICK g : Enumerates(g, L, B) /\ \A i \in 1..L : es[i] = casefile[g[i]]
  BY AfterIs
<1>3. Page(k, c) = SubSeq(es, 1, p)
  BY DEF Page
<1> HIDE DEF es, B
<1>4. L \in Nat /\ p \in Nat /\ p <= L
  <2>1. L \in Nat
    BY <1>1
  <2>2. PageSize \in Nat
    BY StoreAssumption
  <2> HIDE DEF L
  <2> QED
    BY <2>1, <2>2 DEF AtMost
<1> HIDE DEF p, L
<1>5. /\ Page(k, c) = [i \in 1..p |-> es[i]] /\ Len(Page(k, c)) = p
  BY <1>1, <1>3, <1>4 DEF L
<1>6. p # 0
  BY <1>5
<1>7. p \in 1..L
  BY <1>4, <1>6
<1> DEFINE h == [i \in 1..p |-> g[i]]
<1>8. B \in SUBSET Nat
  BY <1>1
<1>9. Enumerates(h, p, {x \in B : x <= g[p]})
  BY <1>2, <1>4, <1>7, <1>8, ListedFirst
<1>10. h[p] = g[p] /\ \A i \in 1..p : h[i] = g[i] /\ i \in 1..L
  BY <1>4, <1>6
<1> HIDE DEF h
<1>11. {x \in B : x <= g[p]} = {n \in Places(k) : c < n /\ n <= h[p]}
  BY <1>1, <1>10
<1>12. \A i \in 1..p : Page(k, c)[i] = casefile[h[i]]
  BY <1>2, <1>5, <1>10
<1>13. NextCaseSeq(c, Page(k, c)) = h[p]
  <2>1. p \in 1..p
    BY <1>4, <1>6
  <2>2. NextCaseSeq(c, Page(k, c)) = Page(k, c)[p].case
    BY <1>5 DEF NextCaseSeq
  <2>3. h[p] \in DOMAIN casefile
    <3>1. h[p] \in {x \in B : x <= g[p]}
      BY <1>9, <2>1 DEF Enumerates
    <3>2. h[p] \in 1..Len(casefile)
      BY <1>1, <3>1
    <3> QED
      BY <3>2 DEF TraceTyped
  <2>4. casefile[h[p]].case = h[p]
    BY <2>3 DEF PageInv
  <2> QED
    BY <1>12, <2>1, <2>2, <2>4
<1>14. p >= 1
  BY <1>4, <1>6
<1>15. Enumerates(h, p, {n \in Places(k) : c < n /\ n <= h[p]})
  BY <1>9, <1>11
<1> QED
  BY <1>4, <1>5, <1>12, <1>13, <1>14, <1>15

\* The first view is a listing of all there is, from the first event it shows.
LEMMA FirstViewIs ==
    ASSUME TraceTyped, PageInv, NEW k \in Children, FirstView(k) # <<>>
    PROVE  \E p, h :
             /\ p \in Nat /\ p >= 1 /\ Len(FirstView(k)) = p
             /\ Enumerates(h, p, {n \in Places(k) : h[1] <= n /\ n <= h[p]})
             /\ \A i \in 1..p : FirstView(k)[i] = casefile[h[i]]
             /\ FirstView(k)[1].case = h[1]
             /\ NextCaseSeq(0, FirstView(k)) = h[p]
<1> DEFINE es == After(k, 0)
           L == Len(es)
           p == AtMost(L, PageSize)
           B == Behind(k, 0)
<1>1. /\ B = {n \in Places(k) : 0 < n} /\ Places(k) \in SUBSET (1..Len(casefile))
      /\ Len(casefile) \in Nat /\ es \in Seq(Filed)
  BY AfterIs
<1>2. PICK g : Enumerates(g, L, B) /\ \A i \in 1..L : es[i] = casefile[g[i]]
  BY AfterIs
<1>3. FirstView(k) = SubSeq(es, L - p + 1, L)
  BY DEF FirstView
<1> HIDE DEF es, B
<1>4. L \in Nat /\ p \in Nat /\ p <= L
  <2>1. L \in Nat
    BY <1>1
  <2>2. PageSize \in Nat
    BY StoreAssumption
  <2> HIDE DEF L
  <2> QED
    BY <2>1, <2>2 DEF AtMost
<1> HIDE DEF p
<1>5. /\ Len(FirstView(k)) = p /\ \A i \in 1..p : FirstView(k)[i] = es[L - p + i]
  <2>1. L - p + 1 \in Nat /\ L - (L - p + 1) + 1 = p
    BY <1>4
  <2>2. SubSeq(es, L - p + 1, L) = [i \in 1..(1 + L - (L - p + 1)) |-> es[i + (L - p + 1) - 1]]
    BY <1>1, <1>4
  <2>3. 1 + L - (L - p + 1) = p /\ \A i \in 1..p : i + (L - p + 1) - 1 = L - p + i
    BY <1>4
  <2> HIDE DEF L
  <2>4. FirstView(k) = [i \in 1..p |-> es[i + (L - p + 1) - 1]]
    BY <1>3, <2>2, <2>3
  <2> QED
    BY <1>4, <2>3, <2>4
<1>6. p # 0
  BY <1>5
<1> HIDE DEF L
<1>7. p \in 1..L /\ \A i \in 1..p : L - p + i \in 1..L
  BY <1>4, <1>6
<1> DEFINE h == [i \in 1..p |-> g[L - p + i]]
<1>8. B \in SUBSET Nat
  BY <1>1
<1>9. Enumerates(h, p, {x \in B : g[L - p + 1] <= x})
  BY <1>2, <1>4, <1>7, <1>8, ListedLast
<1>10. h[1] = g[L - p + 1] /\ h[p] = g[L] /\ \A i \in 1..p : h[i] = g[L - p + i]
  <2>1. 1 \in 1..p /\ p \in 1..p /\ L - p + p = L
    BY <1>4, <1>6
  <2> QED
    BY <2>1
<1> HIDE DEF h
<1>11. \A x \in B : x <= h[p]
  <2> TAKE x \in B
  <2>1. PICK i \in 1..L : g[i] = x
    BY <1>2 DEF Enumerates
  <2>2. L \in 1..L /\ (i = L \/ i < L)
    BY <1>4
  <2>3. i = L \/ g[i] < g[L]
    BY <1>2, <2>2 DEF Enumerates
  <2>4. g[i] \in Nat /\ g[L] \in Nat
    BY <1>2, <1>8, <2>2 DEF Enumerates
  <2> QED
    BY <1>10, <2>1, <2>3, <2>4
<1>12. {x \in B : g[L - p + 1] <= x} = {n \in Places(k) : h[1] <= n /\ n <= h[p]}
  BY <1>1, <1>10, <1>11
<1>13. \A i \in 1..p : FirstView(k)[i] = casefile[h[i]]
  BY <1>2, <1>5, <1>7, <1>10
<1>14. \A i \in 1..p : casefile[h[i]].case = h[i]
  <2> TAKE i \in 1..p
  <2>1. h[i] \in B
    BY <1>9 DEF Enumerates
  <2>2. h[i] \in 1..Len(casefile)
    BY <1>1, <2>1
  <2>3. h[i] \in DOMAIN casefile
    BY <2>2 DEF TraceTyped
  <2> QED
    BY <2>3 DEF PageInv
<1>15. FirstView(k)[1].case = h[1] /\ NextCaseSeq(0, FirstView(k)) = h[p]
  <2>1. 1 \in 1..p /\ p \in 1..p
    BY <1>4, <1>6
  <2>2. NextCaseSeq(0, FirstView(k)) = FirstView(k)[p].case
    BY <1>5 DEF NextCaseSeq
  <2> QED
    BY <1>13, <1>14, <2>1, <2>2
<1>16. p >= 1
  BY <1>4, <1>6
<1>17. Enumerates(h, p, {n \in Places(k) : h[1] <= n /\ n <= h[p]})
  BY <1>9, <1>12
<1> QED
  BY <1>4, <1>5, <1>13, <1>15, <1>16, <1>17

\* What the Manager has seen stays what its cursor has passed as the file grows.
LEMMA GrowsPassed ==
    ASSUME TraceTyped, PageInv, NEW e \in Filed, e.case = Len(casefile) + 1,
           casefile' = Append(casefile, e), reader' = reader
    PROVE  PageInv'
<1> DEFINE N == Len(casefile)
<1>1. N \in Nat /\ casefile \in Seq(Filed) /\ DOMAIN casefile = 1..N
  BY DEF TraceTyped
<1>2. /\ Len(casefile') = N + 1 /\ DOMAIN casefile' = 1..(N + 1) /\ casefile'[N + 1] = e
      /\ \A n \in 1..N : casefile'[n] = casefile[n]
  BY <1>1
<1>3. \A n \in DOMAIN casefile' : casefile'[n].case = n
  <2> TAKE n \in DOMAIN casefile'
  <2>1. n \in 1..N \/ n = N + 1
    BY <1>1, <1>2
  <2>2. n \in 1..N => casefile[n].case = n
    BY <1>1 DEF PageInv
  <2> QED
    BY <1>2, <2>1, <2>2
<1>4. ASSUME NEW k \in Children PROVE Passed(k)'
  <2>1. /\ reader[k].from <= reader[k].cursor /\ reader[k].cursor <= N
        /\ reader[k].from \in Nat /\ reader[k].cursor \in Nat
    BY DEF PageInv, Passed
  <2>2. PICK g : /\ Enumerates(g, Len(reader[k].seen), Shown(k))
                 /\ \A i \in 1..Len(reader[k].seen) : reader[k].seen[i] = casefile[g[i]].id
    BY DEF PageInv, Passed
  <2>3. Shown(k) \in SUBSET (1..N)
    BY <1>1 DEF Shown, Places
  <2>4. Shown(k)' = Shown(k)
    <3>1. \A n \in 1..N : n \in Shown(k)' <=> n \in Shown(k)
      BY <1>1, <1>2 DEF Shown, Places, Belongs
    <3>2. N + 1 \notin Shown(k)'
      BY <1>1, <1>2, <2>1 DEF Shown
    <3>3. Shown(k)' \in SUBSET (1..(N + 1))
      BY <1>2 DEF Shown, Places
    <3>4. \A n \in 1..(N + 1) : n \in 1..N \/ n = N + 1
      BY <1>1
    <3> HIDE DEF N
    <3> QED
      BY <2>3, <3>1, <3>2, <3>3, <3>4
  <2>5. \A i \in 1..Len(reader[k].seen) : g[i] \in 1..N
    BY <2>2, <2>3 DEF Enumerates
  <2>6. \A i \in 1..Len(reader[k].seen) : reader'[k].seen[i] = casefile'[g[i]].id
    BY <1>2, <2>2, <2>5
  <2>7. Enumerates(g, Len(reader'[k].seen), Shown(k)')
    BY <2>2, <2>4
  <2>8. reader'[k].from <= reader'[k].cursor /\ reader'[k].cursor <= Len(casefile')
    BY <1>1, <1>2, <2>1
  <2> QED
    BY <2>6, <2>7, <2>8 DEF Passed
<1> QED
  BY <1>3, <1>4 DEF PageInv

\* A step that touches neither the file nor the cursors leaves it so.
LEMMA SamePassed ==
    ASSUME PageInv, UNCHANGED <<casefile, reader>>
    PROVE  PageInv'
BY DEF PageInv, Passed, Shown, Places, Belongs

\* What a reader's place should be worth
Due(k, r) == {n \in Places(k) : r.from <= n /\ n <= r.cursor}
Place(k, r) ==
  /\ r \in [from : Nat, cursor : Nat, seen : Seq(EventIds)]
  /\ r.from <= r.cursor /\ r.cursor <= Len(casefile)
  /\ \E g : /\ Enumerates(g, Len(r.seen), Due(k, r))
            /\ \A i \in 1..Len(r.seen) : r.seen[i] = casefile[g[i]].id
IdsOf(page) == [i \in 1..Len(page) |-> page[i].id]

\* A child's places are lines of the file, numbered by where they stand.
LEMMA PlacesAre ==
    ASSUME TraceTyped, PageInv, NEW k
    PROVE  /\ casefile \in Seq(Filed) /\ Len(casefile) \in Nat /\ DOMAIN casefile = 1..Len(casefile)
           /\ \A n \in Places(k) : /\ n \in 1..Len(casefile) /\ n \in Nat
                                   /\ casefile[n].case = n /\ casefile[n].id \in EventIds
<1>1. casefile \in Seq(Filed) /\ Len(casefile) \in Nat /\ DOMAIN casefile = 1..Len(casefile)
  BY DEF TraceTyped
<1>2. \A n \in Places(k) : n \in 1..Len(casefile) /\ casefile[n].case = n
  BY <1>1 DEF Places, PageInv
<1>3. \A n \in 1..Len(casefile) : n \in Nat /\ casefile[n] \in Filed
  BY <1>1
<1>4. \A e \in Filed : e.id \in EventIds
  BY DEF Filed, EventIds
<1> QED
  BY <1>1, <1>2, <1>3, <1>4

\* What the invariant says of a reader's place
LEMMA PassedIs ==
    ASSUME TraceTyped, PageInv, NEW k \in Children
    PROVE  Place(k, reader[k]) /\ Shown(k) = Due(k, reader[k])
<1>1. Shown(k) = Due(k, reader[k])
  BY PlacesAre DEF Shown, Due
<1>2. /\ reader[k] \in [from : Nat, cursor : Nat, seen : Seq(EventIds)]
      /\ Passed(k)
  BY DEF PageInv
<1> QED
  BY <1>1, <1>2 DEF Passed, Place

\* The lines of a page are those of the file that h lists, which are those at S.
ListedBy(page, h, p, S) ==
  /\ p \in Nat /\ Len(page) = p /\ Enumerates(h, p, S)
  /\ \A i \in 1..p : page[i] = casefile[h[i]]

NamedBy(ids, h, p) == \A i \in 1..p : ids[i] = casefile[h[i]].id

\* The ids of a page, and the lines they come from
LEMMA IdsAre ==
    ASSUME TraceTyped, PageInv, NEW k, NEW S \in SUBSET Places(k), NEW page, NEW p, NEW h,
           ListedBy(page, h, p, S)
    PROVE  /\ IdsOf(page) \in Seq(EventIds) /\ Len(IdsOf(page)) = p
           /\ NamedBy(IdsOf(page), h, p)
           /\ \A i \in 1..p : h[i] \in S /\ h[i] \in Nat /\ h[i] <= Len(casefile)
<1>0. p \in Nat /\ Len(page) = p /\ \A i \in 1..p : page[i] = casefile[h[i]]
  BY DEF ListedBy
<1>1. \A i \in 1..p : h[i] \in S /\ h[i] \in Places(k)
  BY DEF ListedBy, Enumerates
<1>2. \A i \in 1..p : casefile[h[i]].id \in EventIds /\ h[i] \in Nat /\ h[i] <= Len(casefile)
  BY <1>1, PlacesAre
<1>3. IdsOf(page) \in [1..p -> EventIds] /\ \A i \in 1..p : IdsOf(page)[i] = casefile[h[i]].id
  BY <1>0, <1>2 DEF IdsOf
<1> DEFINE ids == IdsOf(page)
<1> HIDE DEF ids
<1>4. ids \in [1..p -> EventIds]
  BY <1>3 DEF ids
<1>5. ids \in Seq(EventIds) /\ Len(ids) = p
  BY <1>0, <1>4
<1> QED
  BY <1>1, <1>2, <1>3, <1>5 DEF ids, NamedBy

\* After a first view, the reader's place is where that view ends.
LEMMA ViewPlaces ==
    ASSUME TraceTyped, PageInv, NEW k \in Children, NEW page, page = FirstView(k), page # <<>>
    PROVE  Place(k, [from |-> page[1].case, cursor |-> NextCaseSeq(0, page), seen |-> IdsOf(page)])
<1>1. PICK p, h :
        /\ p \in Nat /\ p >= 1 /\ Len(page) = p
        /\ Enumerates(h, p, {n \in Places(k) : h[1] <= n /\ n <= h[p]})
        /\ \A i \in 1..p : page[i] = casefile[h[i]]
        /\ page[1].case = h[1] /\ NextCaseSeq(0, page) = h[p]
  BY FirstViewIs
<1> DEFINE S == {n \in Places(k) : h[1] <= n /\ n <= h[p]}
           r == [from |-> h[1], cursor |-> h[p], seen |-> IdsOf(page)]
<1>8. Enumerates(h, p, S)
  BY <1>1
<1>5. Due(k, r) = S
  BY DEF Due
<1>10. S \in SUBSET Places(k)
  OBVIOUS
<1> HIDE DEF S, r
<1>2. /\ IdsOf(page) \in Seq(EventIds) /\ Len(IdsOf(page)) = p
      /\ \A i \in 1..p : IdsOf(page)[i] = casefile[h[i]].id
      /\ \A i \in 1..p : h[i] \in S /\ h[i] \in Nat /\ h[i] <= Len(casefile)
  <2>1. ListedBy(page, h, p, S)
    BY <1>1, <1>8 DEF ListedBy
  <2>2. /\ IdsOf(page) \in Seq(EventIds) /\ Len(IdsOf(page)) = p /\ NamedBy(IdsOf(page), h, p)
        /\ \A i \in 1..p : h[i] \in S /\ h[i] \in Nat /\ h[i] <= Len(casefile)
    BY <1>10, <2>1, IdsAre
  <2> QED
    BY <2>2 DEF NamedBy
<1>3. 1 \in 1..p /\ p \in 1..p
  BY <1>1
<1>4. h[1] \in Nat /\ h[p] \in Nat /\ h[1] <= h[p] /\ h[p] <= Len(casefile)
  BY <1>2, <1>3 DEF S
<1>6. r \in [from : Nat, cursor : Nat, seen : Seq(EventIds)]
  BY <1>2, <1>4 DEF r
<1>7. r.from = h[1] /\ r.cursor = h[p] /\ r.seen = IdsOf(page)
  BY DEF r
<1>9. Place(k, r)
  BY <1>2, <1>4, <1>5, <1>6, <1>7, <1>8 DEF Place
<1> QED
  BY <1>1, <1>9 DEF r

\* After a further page, it is where that page ends.
LEMMA PagePlaces ==
    ASSUME TraceTyped, PageInv, NEW k \in Children, NEW old, Place(k, old),
           NEW page, page = Page(k, old.cursor), page # <<>>
    PROVE  Place(k, [from |-> old.from, cursor |-> NextCaseSeq(old.cursor, page),
                     seen |-> old.seen \o IdsOf(page)])
<1>0. /\ old.from \in Nat /\ old.cursor \in Nat /\ old.seen \in Seq(EventIds)
      /\ old.from <= old.cursor /\ old.cursor <= Len(casefile)
  BY DEF Place
<1>1. PICK p, h :
        /\ p \in Nat /\ p >= 1 /\ Len(page) = p
        /\ Enumerates(h, p, {n \in Places(k) : old.cursor < n /\ n <= h[p]})
        /\ \A i \in 1..p : page[i] = casefile[h[i]]
        /\ NextCaseSeq(old.cursor, page) = h[p]
  <2> DEFINE c == old.cursor
  <2>1. c \in Nat /\ page = Page(k, c) /\ Page(k, c) # <<>>
    BY <1>0
  <2> HIDE DEF c
  <2>2. \E p, h :
          /\ p \in Nat /\ p >= 1 /\ Len(Page(k, c)) = p
          /\ Enumerates(h, p, {n \in Places(k) : c < n /\ n <= h[p]})
          /\ \A i \in 1..p : Page(k, c)[i] = casefile[h[i]]
          /\ NextCaseSeq(c, Page(k, c)) = h[p]
    BY <2>1, PageIs
  <2> QED
    BY <2>1, <2>2 DEF c
<1>2. PICK g : /\ Enumerates(g, Len(old.seen), Due(k, old))
               /\ \A i \in 1..Len(old.seen) : old.seen[i] = casefile[g[i]].id
  BY DEF Place
<1> DEFINE S == {n \in Places(k) : old.cursor < n /\ n <= h[p]}
           ids == IdsOf(page)
           m == Len(old.seen)
           f == [i \in 1..(m + p) |-> IF i <= m THEN g[i] ELSE h[i - m]]
           seen == old.seen \o ids
           r == [from |-> old.from, cursor |-> h[p], seen |-> seen]
<1>3. S \in SUBSET Places(k) /\ Enumerates(h, p, S) /\ \A n \in S : old.cursor < n
  BY <1>1
<1>4. Enumerates(g, m, Due(k, old)) /\ p \in 1..p
  BY <1>1, <1>2
<1>5. \A n \in Places(k) : n \in Nat
  BY PlacesAre
<1>6. \A n \in Places(k) : n \in S <=> old.cursor < n /\ n <= h[p]
  OBVIOUS
<1>7. r.from = old.from /\ r.cursor = h[p] /\ r.seen = seen
  OBVIOUS
<1> HIDE DEF S, ids, seen, m, r
<1>8. /\ ids \in Seq(EventIds) /\ Len(ids) = p /\ \A i \in 1..p : ids[i] = casefile[h[i]].id
      /\ \A i \in 1..p : h[i] \in S /\ h[i] \in Nat /\ h[i] <= Len(casefile)
  <2>1. ListedBy(page, h, p, S)
    BY <1>1, <1>3 DEF ListedBy
  <2>2. S \in SUBSET Places(k)
    BY <1>3
  <2> HIDE DEF f
  <2>3. /\ ids \in Seq(EventIds) /\ Len(ids) = p /\ NamedBy(ids, h, p)
        /\ \A i \in 1..p : h[i] \in S /\ h[i] \in Nat /\ h[i] <= Len(casefile)
    BY <2>1, <2>2, IdsAre DEF ids
  <2> QED
    BY <2>3 DEF NamedBy
<1>9. h[p] \in S /\ h[p] \in Nat /\ old.cursor < h[p] /\ h[p] <= Len(casefile)
  BY <1>3, <1>4, <1>8
<1>10. /\ m \in Nat /\ seen \in Seq(EventIds) /\ Len(seen) = m + p
       /\ \A i \in 1..(m + p) : seen[i] = IF i <= m THEN old.seen[i] ELSE ids[i - m]
  <2> HIDE DEF f
  <2> DEFINE a == old.seen
  <2>1. a \in Seq(EventIds) /\ ids \in Seq(EventIds)
    BY <1>0, <1>8
  <2>2. m = Len(a) /\ seen = a \o ids
    BY DEF m, seen
  <2> HIDE DEF a
  <2>3. m \in Nat /\ seen \in Seq(EventIds) /\ Len(seen) = m + Len(ids)
    BY <2>1, <2>2
  <2>4. \A i \in 1..(m + Len(ids)) : seen[i] = IF i <= m THEN a[i] ELSE ids[i - m]
    BY <2>1, <2>2
  <2> QED
    BY <1>8, <2>3, <2>4 DEF a
<1>11. /\ Due(k, old) \in SUBSET Nat /\ S \in SUBSET Nat
       /\ \A x \in Due(k, old), y \in S : x < y
  <2>1. \A x \in Due(k, old) : x \in Places(k) /\ x <= old.cursor
    BY DEF Due
  <2> QED
    BY <1>0, <1>3, <1>5, <2>1
<1>12. Due(k, r) = Due(k, old) \cup S
  <2>1. \A n \in Places(k) : old.from <= n /\ n <= h[p]
          <=> (old.from <= n /\ n <= old.cursor) \/ (old.cursor < n /\ n <= h[p])
    BY <1>0, <1>5, <1>9
  <2>2. \A n : n \in Due(k, r) <=> n \in Places(k) /\ old.from <= n /\ n <= h[p]
    BY <1>7 DEF Due
  <2>3. \A n : n \in Due(k, old) <=> n \in Places(k) /\ old.from <= n /\ n <= old.cursor
    BY DEF Due
  <2>4. \A n : n \in Due(k, r) <=> n \in Due(k, old) \cup S
    BY <1>3, <1>6, <2>1, <2>2, <2>3
  <2> QED
    BY <2>4
<1>13. Enumerates(f, m + p, Due(k, r))
  <2>0. p \in Nat /\ m \in Nat
    BY <1>1, <1>10
  <2>1. Enumerates(f, m + p, Due(k, old) \cup S)
    BY <1>3, <1>4, <1>11, <2>0, ListedOn
  <2> QED
    BY <1>12, <2>1
<1>14. \A i \in 1..(m + p) : seen[i] = casefile[f[i]].id
  <2> TAKE i \in 1..(m + p)
  <2>1. f[i] = IF i <= m THEN g[i] ELSE h[i - m]
    OBVIOUS
  <2> HIDE DEF f
  <2>2. IF i <= m THEN i \in 1..m ELSE i - m \in 1..p
    BY <1>1, <1>10
  <2>3. \A t \in 1..m : old.seen[t] = casefile[g[t]].id
    BY <1>2 DEF m
  <2> QED
    BY <1>8, <1>10, <2>1, <2>2, <2>3
<1> HIDE DEF f
<1>15. r \in [from : Nat, cursor : Nat, seen : Seq(EventIds)]
  BY <1>0, <1>9, <1>10 DEF r
<1>16. r.from <= r.cursor /\ r.cursor <= Len(casefile)
  BY <1>0, <1>7, <1>9
<1>17. Place(k, r)
  BY <1>7, <1>10, <1>13, <1>14, <1>15, <1>16 DEF Place
<1> QED
  BY <1>1, <1>17 DEF r, seen, ids

\* An inspection moves the cursor past the events it shows and no further.
LEMMA InspectPassed ==
    ASSUME TraceTyped, StoreTyped, PageInv, NEW asked \in Children \cup {""}, NEW fresh \in BOOLEAN,
           Inspect(asked, fresh)
    PROVE  PageInv'
<1>0. TraceTyped /\ PageInv
  OBVIOUS
<1>1. Known(asked) /\ casefile' = casefile
  BY DEF Inspect, traceVars
<1>2. PICK k \in Children : k = LatestChild(asked)
  BY <1>1, LatestIs
<1>3. PICK new : Place(k, new) /\ reader' = [reader EXCEPT ![k] = new]
  <2>1. CASE fresh
    <3> DEFINE page == FirstView(k)
               new == [from |-> page[1].case, cursor |-> NextCaseSeq(0, page), seen |-> IdsOf(page)]
    <3>1. page # <<>> /\ reader' = [reader EXCEPT ![k] = new]
      BY <1>2, <2>1 DEF Inspect, IdsOf
    <3>2. Place(k, new)
      BY <3>1, ViewPlaces
    <3> QED
      BY <3>1, <3>2
  <2>2. CASE ~fresh
    <3> DEFINE old == reader[k]
               page == Page(k, old.cursor)
               new == [from |-> old.from, cursor |-> NextCaseSeq(old.cursor, page),
                       seen |-> old.seen \o IdsOf(page)]
    <3>1. page # <<>> /\ reader' = [reader EXCEPT ![k] = new]
      BY <1>2, <2>2 DEF Inspect, IdsOf
    <3>2. Place(k, old)
      BY PassedIs
    <3>3. Place(k, new)
      BY <3>1, <3>2, PagePlaces
    <3> QED
      BY <3>1, <3>3
  <2> QED
    BY <2>1, <2>2
<1>4. reader' \in [Children -> [from : Nat, cursor : Nat, seen : Seq(EventIds)]]
  BY <1>3 DEF PageInv, Place
<1>5. reader'[k] = new /\ \A q \in Children : q # k => reader'[q] = reader[q]
  BY <1>3 DEF PageInv
<1>6. \A q : Places(q)' = Places(q)
  BY <1>1 DEF Places, Belongs
<1>7. ASSUME NEW q \in Children PROVE Passed(q)'
  <2>1. Place(q, reader'[q])
    BY <1>3, <1>5, PassedIs
  <2>2. Shown(q)' = Due(q, reader'[q])
    <3>1. \A n \in Places(q) : casefile[n].case = n
      BY <1>0, PlacesAre
    <3>2. \A n : n \in Shown(q)' <=> /\ n \in Places(q)
                                     /\ reader'[q].from <= casefile[n].case
                                     /\ casefile[n].case <= reader'[q].cursor
      BY <1>1, <1>6 DEF Shown
    <3>3. \A n : n \in Due(q, reader'[q]) <=> /\ n \in Places(q)
                                              /\ reader'[q].from <= n /\ n <= reader'[q].cursor
      BY DEF Due
    <3>4. \A n : n \in Shown(q)' <=> n \in Due(q, reader'[q])
      <4> TAKE n
      <4>1. CASE n \in Places(q)
        <5>1. casefile[n].case = n
          BY <3>1, <4>1
        <5> QED
          BY <3>2, <3>3, <4>1, <5>1
      <4>2. CASE n \notin Places(q)
        BY <3>2, <3>3, <4>2
      <4> QED
        BY <4>1, <4>2
    <3> QED
      BY <3>4
  <2> QED
    BY <1>1, <2>1, <2>2 DEF Passed, Place
<1>8. \A n \in DOMAIN casefile' : casefile'[n].case = n
  BY <1>1 DEF PageInv
<1> QED
  BY <1>4, <1>7, <1>8 DEF PageInv

\* At the start nobody has read anything and there is nothing to read.
LEMMA PageStarts == StoreInit => PageInv
<1> SUFFICES ASSUME StoreInit PROVE PageInv
  OBVIOUS
<1>1. /\ casefile = <<>> /\ reader = [k \in Children |-> [from |-> 0, cursor |-> 0, seen |-> <<>>]]
  BY DEF StoreInit, Init
<1>2. \A n \in DOMAIN casefile : casefile[n].case = n
  BY <1>1
<1>3. reader \in [Children -> [from : Nat, cursor : Nat, seen : Seq(EventIds)]]
  BY <1>1
<1>4. ASSUME NEW k \in Children PROVE Passed(k)
  <2>1. reader[k].from = 0 /\ reader[k].cursor = 0 /\ Len(reader[k].seen) = 0 /\ Len(casefile) = 0
    BY <1>1
  <2>2. Shown(k) = {}
    BY <1>1 DEF Shown, Places
  <2>3. Enumerates([i \in 1..0 |-> 0], 0, {})
    BY DEF Enumerates
  <2> QED
    BY <2>1, <2>2, <2>3 DEF Passed
<1> QED
  BY <1>2, <1>3, <1>4 DEF PageInv

\* The case's file grows by the event a run appends; nothing else writes to it.
LEMMA PageStep ==
    ASSUME TraceInv, StoreTyped, PageInv, [Next]_vars
    PROVE  PageInv'
<1>1. TraceTyped
  BY DEF TraceInv
<1>2. ASSUME NEW r \in Runs, AppendEvent(r), reader' = reader PROVE PageInv'
  <2> DEFINE e == Numbered(r, Head(todo[r]))
  <2>1. todo[r] # <<>> /\ casefile' = Append(casefile, e)
    BY <1>2 DEF AppendEvent
  <2>2. e \in Filed
    BY <1>1, <2>1, NumberedIs
  <2>3. e.case = Len(casefile) + 1
    BY DEF Numbered, CaseSeq
  <2> HIDE DEF e
  <2> QED
    BY <1>1, <1>2, <2>1, <2>2, <2>3, GrowsPassed
<1>3. CASE RunNext /\ UNCHANGED storeVars
  <2>1. reader' = reader
    BY <1>3 DEF storeVars
  <2>2. PICK r \in Runs :
          \/ BeginRun(r) \/ RecordModelCalls(r) \/ Finalize(r) \/ AppendEvent(r) \/ WriteTrace(r)
          \/ Save(r) \/ Clear(r) \/ Resume(r)
          \/ \E c \in Calls : CallModel(r, c)
          \/ \E d \in DecisionsOf[r], fs \in Findings : Decide(r, d, fs)
    BY <1>3 DEF RunNext
  <2>3. CASE AppendEvent(r)
    BY <1>2, <2>1, <2>3
  <2>4. CASE ~AppendEvent(r)
    <3>1. casefile' = casefile
      BY <2>2, <2>4 DEF BeginRun, RecordModelCalls, Finalize, WriteTrace, Save, Clear, Resume,
                        CallModel, Decide
    <3> QED
      BY <2>1, <3>1, SamePassed
  <2> QED
    BY <2>3, <2>4
<1>4. CASE StoreNext
  <2>1. ASSUME NEW asked \in Children \cup {""}, NEW fresh \in BOOLEAN, Inspect(asked, fresh)
        PROVE  PageInv'
    BY <1>1, <2>1, InspectPassed
  <2>2. ASSUME NEW k \in Children, StartChild(k) \/ ChildEnds(k) \/ \E c \in Checks : ChildCommits(k, c)
        PROVE  PageInv'
    <3>1. UNCHANGED <<casefile, reader>>
      BY <2>2 DEF StartChild, ChildEnds, ChildCommits, traceVars
    <3> QED
      BY <3>1, SamePassed
  <2>3. ASSUME NEW r \in Runs, NEW asked \in Children \cup {""},
               Cancel(r, asked) \/ \E c \in Corrections, n \in 1..MaxOps : Recheck(r, asked, c, n)
        PROVE  PageInv'
    <3>1. UNCHANGED <<casefile, reader>>
      BY <2>3 DEF Cancel, Recheck
    <3> QED
      BY <3>1, SamePassed
  <2>4. ASSUME NEW torn, Crash(torn) PROVE PageInv'
    <3>1. UNCHANGED <<casefile, reader>>
      BY <2>4 DEF Crash, Stop
    <3> QED
      BY <3>1, SamePassed
  <2> QED
    BY <1>4, <2>1, <2>2, <2>3, <2>4 DEF StoreNext
<1>5. CASE UNCHANGED vars
  <2>1. UNCHANGED <<casefile, reader>>
    BY <1>5 DEF vars, traceVars, storeVars
  <2> QED
    BY <2>1, SamePassed
<1> QED
  BY <1>3, <1>4, <1>5 DEF Next

\* Paging through a child's events with the cursor it was given, the Manager sees each of them
\* once and in order from where it started, whatever the runs append between two pages and
\* however long a page is (_compiler_events, _compiler_snapshot).
THEOREM NoEventIsSkipped == Spec => []PagesLossless
<1>1. StoreInit => TraceInv /\ StoreTyped /\ PageInv
  BY StoreStarts, PageStarts
<1>2. TraceInv /\ StoreTyped /\ PageInv /\ [Next]_vars => (TraceInv /\ StoreTyped /\ PageInv)'
  BY NextKeeps, PageStep
<1>3. TraceInv /\ PageInv => PagesLossless
  <2> SUFFICES ASSUME TraceInv, PageInv, NEW k \in Children
               PROVE  LET es == LinesAt(casefile, Shown(k))
                      IN  reader[k].seen = [i \in 1..Len(es) |-> es[i].id]
    BY DEF PagesLossless, Shown
  <2> DEFINE es == LinesAt(casefile, Shown(k))
             seen == reader[k].seen
  <2>1. casefile \in Seq(Filed) /\ Shown(k) \in SUBSET (1..Len(casefile))
    BY DEF TraceInv, TraceTyped, Shown, Places
  <2>2. Reads(es, casefile, Shown(k), Filed)
    BY <2>1, LinesAre
  <2>3. seen \in Seq(EventIds)
    BY DEF PageInv
  <2>4. PICK g : Enumerates(g, Len(seen), Shown(k))
                 /\ \A i \in 1..Len(seen) : seen[i] = casefile[g[i]].id
    BY DEF PageInv, Passed
  <2> HIDE DEF es, seen
  <2>5. PICK h : Enumerates(h, Len(es), Shown(k)) /\ \A i \in 1..Len(es) : es[i] = casefile[h[i]]
    BY <2>2 DEF Reads
  <2>6. Len(seen) \in Nat /\ Len(es) \in Nat /\ Shown(k) \in SUBSET Nat
    BY <2>1, <2>2, <2>3 DEF Reads
  <2>7. Len(seen) = Len(es) /\ \A i \in 1..Len(seen) : g[i] = h[i]
    BY <2>4, <2>5, <2>6, ListedOnce
  <2>8. \A i \in 1..Len(es) : seen[i] = es[i].id
    BY <2>4, <2>5, <2>7
  <2>9. seen = [i \in 1..Len(es) |-> es[i].id]
    BY <2>3, <2>7, <2>8
  <2> QED
    BY <2>9 DEF es, seen
<1> QED
  BY <1>1, <1>2, <1>3, PTL DEF Spec
==============================================================================
