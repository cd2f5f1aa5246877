--------------------------- MODULE EventLogProofs ----------------------------
(***************************************************************************)
(* Theorems about EventLog, for every set of calls, window and bound, and  *)
(* every choice of faults the theorem does not rule out.                   *)
(***************************************************************************)
EXTENDS EventLog, SequenceTheorems, FiniteSetTheorems, WellFoundedInduction, TLAPS

-----------------------------------------------------------------------------
(* The largest number of the file                                          *)

\* A nonempty set of naturals with an upper bound has a largest element, and
\* Max picks it.
LEMMA MaxOfBounded ==
    ASSUME NEW S \in SUBSET Nat, S # {}, NEW b \in Nat, \A s \in S : s <= b
    PROVE  Max(S) \in S /\ \A s \in S : Max(S) >= s
<1> DEFINE T == {b - s : s \in S}
<1>1. T \subseteq Nat /\ T # {}
  <2>1. \A s \in S : s \in Nat /\ b - s \in Nat
    OBVIOUS
  <2>2. PICK s \in S : TRUE
    OBVIOUS
  <2>3. b - s \in T
    OBVIOUS
  <2> QED
    BY <2>1, <2>3
<1> DEFINE R == {ss \in Nat \X Nat : ss[1] < ss[2]}
<1>2. IsWellFoundedOn(R, Nat)
  BY NatLessThanWellFounded DEF OpToRel
<1> HIDE DEF T, R
<1>3. PICK m \in T : \A t \in T : <<t, m>> \notin R
  BY <1>1, <1>2, WFMin, Zenon
<1> USE DEF T
<1>4. \A t \in T : ~ (t < m)
  BY <1>1, <1>3 DEF R
<1>5. PICK s \in S : m = b - s
  OBVIOUS
<1>6. \A t \in S : s >= t
  <2> SUFFICES ASSUME NEW t \in S PROVE s >= t
    OBVIOUS
  <2>1. b - t \in T
    OBVIOUS
  <2>2. ~ (b - t < b - s)
    BY <1>4, <1>5, <2>1
  <2> QED
    BY <2>2, <1>5
<1> QED
  BY <1>6 DEF Max

LEMMA LastSeqIsLast ==
    ASSUME file \in Seq(Line)
    PROVE  LastSeq \in Number /\ \A i \in DOMAIN file : file[i].seq <= LastSeq
<1> DEFINE S == {0} \cup {file[i].seq : i \in DOMAIN file}
<1>1. \A i \in DOMAIN file : file[i].seq \in Number
  <2>1. \A i \in DOMAIN file : file[i] \in Line
    BY LenProperties, ElementOfSeq
  <2> QED
    BY <2>1 DEF Line
<1>2. S \in SUBSET Nat /\ S # {} /\ (\A s \in S : s <= MaxLines) /\ MaxLines \in Nat
  BY <1>1, LogAssumption DEF Number
<1>3. Max(S) \in S /\ \A s \in S : Max(S) >= s
  BY <1>2, MaxOfBounded
<1>4. S \subseteq Number
  BY <1>1, LogAssumption DEF Number
<1>5. LastSeq = Max(S)
  BY DEF LastSeq
<1>6. \A i \in DOMAIN file : file[i].seq \in S
  OBVIOUS
<1>7. \A s \in S : s \in Nat
  BY <1>2
<1> HIDE DEF S
<1> QED
  BY <1>3, <1>4, <1>5, <1>6, <1>7

-----------------------------------------------------------------------------
(* What an append may do                                                   *)

\* The file stays as it is, or grows by the line or by one that is unreadable.
Grows(e) == file' \in {file, Append(file, e), Append(file, Torn)}

LEMMA TornIsLine == Torn \in Line
  BY LogAssumption DEF Torn, Line, Kind, Number

LEMMA AppendGrows ==
    ASSUME NEW e, NEW r \in BOOLEAN, AddLine(e, r), TypeOK
    PROVE  Grows(e) /\ tail' = "ended"
  BY DEF AddLine, Grows, TypeOK

LEMMA HalfLineGrows ==
    ASSUME AddHalfLine, TypeOK
    PROVE  Grows(Torn) /\ tail' \in {"ended", "torn"}
  BY DEF AddHalfLine, Grows, TypeOK

\* A file that grows keeps its lines and its type.
LEMMA GrowthKeeps ==
    ASSUME TypeOK, NEW e \in Line, Grows(e)
    PROVE  /\ file' \in Seq(Line)
           /\ Len(file') \in {Len(file), Len(file) + 1}
           /\ DOMAIN file \subseteq DOMAIN file'
           /\ \A i \in DOMAIN file : file'[i] = file[i]
           /\ \A i \in DOMAIN file' \ DOMAIN file :
                i = Len(file) + 1 /\ i = Len(file') /\ file'[i] \in {e, Torn}
<1>1. file \in Seq(Line)
  BY DEF TypeOK
<1>2. CASE file' = file
  BY <1>1, <1>2
<1>3. ASSUME NEW l \in {e, Torn}, file' = Append(file, l)
      PROVE  /\ file' \in Seq(Line) /\ Len(file') = Len(file) + 1
             /\ DOMAIN file \subseteq DOMAIN file'
             /\ \A i \in DOMAIN file : file'[i] = file[i]
             /\ file'[Len(file) + 1] = l
             /\ DOMAIN file' = 1 .. Len(file) + 1 /\ DOMAIN file = 1 .. Len(file)
  <2>1. l \in Line
    BY <1>3, TornIsLine
  <2> QED
    BY <1>1, <1>3, <2>1, AppendProperties
<1>4. CASE file' # file
  <2>1. PICK l \in {e, Torn} : file' = Append(file, l)
    BY <1>4 DEF Grows
  <2>2. Len(file) \in Nat
    BY <1>1
  <2> QED
    BY <2>1, <2>2, <1>3
<1> QED
  BY <1>2, <1>4

\* A line past all numbers of the file keeps the readable ones in order.
LEMMA GrowthIsOrdered ==
    ASSUME TypeOK, Ordered, NEW e \in Line, Grows(e), NEW n \in Nat,
           \A i \in DOMAIN file : file[i].seq <= n, e.seq > n \/ e = Torn
    PROVE  /\ Ordered'
           /\ \A i \in DOMAIN file' : file'[i].seq <= n \/ file'[i].seq = e.seq
<1>1. /\ DOMAIN file \subseteq DOMAIN file'
      /\ \A i \in DOMAIN file : file'[i] = file[i]
      /\ \A i \in DOMAIN file' \ DOMAIN file :
           i = Len(file) + 1 /\ i = Len(file') /\ file'[i] \in {e, Torn}
  BY GrowthKeeps
<1>2. Len(file) \in Nat /\ DOMAIN file = 1 .. Len(file) /\ DOMAIN file' \subseteq Nat
      /\ \A i \in DOMAIN file : file[i].seq \in Nat
  <2>1. file \in Seq(Line)
    BY DEF TypeOK
  <2>2. \A i \in DOMAIN file : file[i] \in Line
    BY <2>1, LenProperties, ElementOfSeq
  <2>3. \A i \in DOMAIN file : file[i].seq \in Nat
    BY <2>2, LogAssumption DEF Line, Number
  <2> QED
    BY <2>1, <2>3, <1>1, LenProperties
<1>3. Torn.seq = 0 /\ Torn.kind = "torn"
  BY DEF Torn
<1>4. e.seq \in Nat
  BY LogAssumption DEF Line, Number
<1>5. \A i \in DOMAIN file' : file'[i].seq <= n \/ file'[i].seq = e.seq
  BY <1>1, <1>2, <1>3
<1>6. Ordered'
  <2> SUFFICES ASSUME NEW i \in DOMAIN file', NEW j \in DOMAIN file', i < j,
                      Decodable(i)', Decodable(j)'
               PROVE  file'[i].seq < file'[j].seq
    BY DEF Ordered
  <2>1. i \in DOMAIN file
    BY <1>1, <1>2
  <2>2. CASE j \in DOMAIN file
    BY <1>1, <2>1, <2>2 DEF Ordered, Decodable
  <2>3. CASE j \notin DOMAIN file
    <3>1. file'[j] = e /\ e # Torn
      BY <1>1, <1>3, <2>3 DEF Decodable
    <3> QED
      BY <3>1, <2>1, <1>1, <1>2, <1>4
  <2> QED
    BY <2>2, <2>3
<1> QED
  BY <1>5, <1>6

\* Only the line itself can block the run or lift a block.
LEMMA GrowthBlocks ==
    ASSUME TypeOK, NEW e \in Line, Grows(e)
    PROVE  /\ Blocked' => Blocked \/ e.kind = "paused"
           /\ Blocked => Blocked' \/ (file'[Len(file')] = e /\ e # Torn)
<1>1. /\ DOMAIN file \subseteq DOMAIN file'
      /\ \A i \in DOMAIN file : file'[i] = file[i]
      /\ \A i \in DOMAIN file' \ DOMAIN file :
           i = Len(file) + 1 /\ i = Len(file') /\ file'[i] \in {e, Torn}
  BY GrowthKeeps
<1>2. Torn.kind = "torn"
  BY DEF Torn
<1>3. ASSUME Blocked' PROVE Blocked \/ e.kind = "paused"
  <2>1. PICK i \in DOMAIN file' :
          file'[i].kind = "paused" /\ \A j \in DOMAIN file' : j > i => ~Decodable(j)'
    BY <1>3 DEF Blocked
  <2>2. CASE i \in DOMAIN file
    BY <1>1, <2>1, <2>2 DEF Blocked, Decodable
  <2>3. CASE i \notin DOMAIN file
    BY <1>1, <1>2, <2>1, <2>3
  <2> QED
    BY <2>2, <2>3
<1>4. ASSUME Blocked, ~(file'[Len(file')] = e /\ e # Torn) PROVE Blocked'
  <2>1. PICK i \in DOMAIN file :
          file[i].kind = "paused" /\ \A j \in DOMAIN file : j > i => ~Decodable(j)
    BY <1>4 DEF Blocked
  <2>2. \A j \in DOMAIN file' : j > i => ~Decodable(j)'
    BY <1>1, <1>2, <1>4, <2>1 DEF Decodable
  <2> QED
    BY <1>1, <2>1, <2>2 DEF Blocked
<1> QED
  BY <1>3, <1>4

-----------------------------------------------------------------------------
(* Type correctness                                                        *)

\* An event of the worker or of its call.
LEMMA Emitting ==
    ASSUME TypeOK, NEW c \in Call, NEW kind \in Kind, Emit(c, kind)
    PROVE  /\ next' \in [Call -> Number] /\ next'[c] = next[c] + 1
           /\ queue' \in [Call -> Seq(Number)] /\ wrote' \in [Call -> Seq(Number)]
           /\ [seq |-> next[c] + 1, kind |-> kind] \in Line
           /\ Grows([seq |-> next[c] + 1, kind |-> kind]) /\ tail' = "ended"
<1>1. next[c] \in Number /\ next[c] < MaxLines /\ MaxLines \in Nat
  BY LogAssumption DEF Emit, TypeOK
<1>2. next[c] + 1 \in Number
  BY <1>1 DEF Number
<1>3. next' \in [Call -> Number] /\ next'[c] = next[c] + 1
  BY <1>2 DEF Emit, TypeOK
<1>4. Append(queue[c], next[c] + 1) \in Seq(Number) /\ Append(wrote[c], next[c] + 1) \in Seq(Number)
  BY <1>2, AppendProperties DEF TypeOK
<1>5. queue' \in [Call -> Seq(Number)] /\ wrote' \in [Call -> Seq(Number)]
  BY <1>3, <1>4 DEF Emit, TypeOK
<1>6. [seq |-> next[c] + 1, kind |-> kind] \in Line
  BY <1>2 DEF Line
<1>7. PICK r \in BOOLEAN : AddLine([seq |-> next[c] + 1, kind |-> kind], r)
  BY <1>3 DEF Emit
<1> QED
  BY <1>3, <1>5, <1>6, <1>7, AppendGrows

LEMMA TypeInit == Init => TypeOK
<1> SUFFICES ASSUME Init PROVE TypeOK
  OBVIOUS
<1>1. 0 \in Number
  BY LogAssumption DEF Number
<1>2. /\ file \in Seq(Line) /\ session \in [Call \cup {"parent"} -> Seq(Number)]
      /\ queue \in [Call -> Seq(Number)] /\ wrote \in [Call -> Seq(Number)]
  BY EmptySeq DEF Init
<1>3. thread \in [Call -> Thread] /\ next \in [Call -> Number]
  BY <1>1 DEF Init, Thread
<1> QED
  BY <1>1, <1>2, <1>3 DEF Init, TypeOK

LEMMA TypeNext == TypeOK /\ [Next]_vars => TypeOK'
<1> SUFFICES ASSUME TypeOK, [Next]_vars PROVE TypeOK'
  OBVIOUS
<1> USE DEF workers, parent
<1>1. ASSUME NEW c \in Call, Begin(c) PROVE TypeOK'
  <2>1. LastSeq \in Number
    BY LastSeqIsLast DEF TypeOK
  <2>2. thread' \in [Call -> Thread] /\ next' \in [Call -> Number]
    BY <1>1, <2>1 DEF Begin, Step, TypeOK, Thread
  <2> QED
    BY <1>1, <2>2 DEF Begin, TypeOK
<1>2. ASSUME NEW c \in Call, WorkerAppends(c) PROVE TypeOK'
  <2>1. "other" \in Kind /\ Emit(c, "other")
    BY <1>2 DEF WorkerAppends, Kind
  <2>2. PICK e \in Line : Grows(e) /\ tail' = "ended"
    BY <2>1, Emitting
  <2>3. file' \in Seq(Line) /\ DOMAIN file \subseteq DOMAIN file'
    BY <2>2, GrowthKeeps
  <2>4. /\ next' \in [Call -> Number] /\ queue' \in [Call -> Seq(Number)]
        /\ wrote' \in [Call -> Seq(Number)]
    BY <2>1, Emitting
  <2> QED
    BY <1>2, <2>2, <2>3, <2>4 DEF WorkerAppends, TypeOK
<1>3. ASSUME NEW c \in Call, WorkerTears(c) PROVE TypeOK'
  <2>1. Grows(Torn) /\ tail' \in {"ended", "torn"}
    BY <1>3, HalfLineGrows DEF WorkerTears
  <2>2. file' \in Seq(Line) /\ DOMAIN file \subseteq DOMAIN file'
    BY <2>1, GrowthKeeps, TornIsLine
  <2>3. next[c] + 1 \in Number
    BY <1>3, LogAssumption DEF WorkerTears, TypeOK, Number
  <2>4. next' \in [Call -> Number] /\ thread' \in [Call -> Thread]
    BY <1>3, <2>3 DEF WorkerTears, Step, TypeOK, Thread
  <2> QED
    BY <1>3, <2>1, <2>2, <2>4 DEF WorkerTears, TypeOK
<1>4. ASSUME NEW c \in Call, WorkerEnds(c) PROVE TypeOK'
  BY <1>4 DEF WorkerEnds, Step, TypeOK, Thread
<1>5. ASSUME NEW c \in Call, Publish(c) PROVE TypeOK'
  <2>1. queue[c] \in Seq(Number) /\ queue[c] # <<>>
    BY <1>5 DEF Publish, TypeOK
  <2>2. Head(queue[c]) \in Number /\ Tail(queue[c]) \in Seq(Number)
    BY <2>1, HeadTailProperties
  <2>3. session' \in [Call \cup {"parent"} -> Seq(Number)]
    BY <1>5, <2>2, AppendProperties DEF Publish, TypeOK
  <2>4. queue' \in [Call -> Seq(Number)]
    BY <1>5, <2>2 DEF Publish, TypeOK
  <2> QED
    BY <1>5, <2>3, <2>4 DEF Publish, TypeOK
<1>6. ASSUME NEW c \in Call, ReportEnd(c) PROVE TypeOK'
  <2>1. PICK kind \in {"paused", "other"} : Emit(c, kind)
    BY <1>6 DEF ReportEnd
  <2>2. kind \in Kind
    BY DEF Kind
  <2>3. PICK e \in Line : Grows(e) /\ tail' = "ended"
    BY <2>1, <2>2, Emitting
  <2>4. file' \in Seq(Line) /\ DOMAIN file \subseteq DOMAIN file'
    BY <2>3, GrowthKeeps
  <2>5. /\ next' \in [Call -> Number] /\ queue' \in [Call -> Seq(Number)]
        /\ wrote' \in [Call -> Seq(Number)]
    BY <2>1, <2>2, Emitting
  <2>6. thread' \in [Call -> Thread]
    BY <1>6 DEF ReportEnd, Step, TypeOK, Thread
  <2> QED
    BY <1>6, <2>3, <2>4, <2>5, <2>6 DEF ReportEnd, TypeOK
<1>7. ASSUME NEW c \in Call, ReportTears(c) PROVE TypeOK'
  <2>1. Grows(Torn) /\ tail' \in {"ended", "torn"}
    BY <1>7, HalfLineGrows DEF ReportTears
  <2>2. file' \in Seq(Line) /\ DOMAIN file \subseteq DOMAIN file'
    BY <2>1, GrowthKeeps, TornIsLine
  <2>3. thread' \in [Call -> Thread]
    BY <1>7 DEF ReportTears, Step, TypeOK, Thread
  <2> QED
    BY <1>7, <2>1, <2>2, <2>3 DEF ReportTears, TypeOK
<1>8. ASSUME NEW c \in Call, Return(c) PROVE TypeOK'
  BY <1>8 DEF Return, Step, TypeOK, Thread
<1>9. ASSUME NEW c \in Call, Abandon(c) PROVE TypeOK'
  BY <1>9 DEF Abandon, TypeOK, Thread
<1>10. ASSUME RecheckNumbers PROVE TypeOK'
  <2>1. LastSeq \in Number /\ LastSeq < MaxLines
    BY <1>10, LastSeqIsLast DEF RecheckNumbers, TypeOK
  <2>2. LastSeq + 1 \in Number
    BY <2>1, LogAssumption DEF Number
  <2> QED
    BY <1>10, <2>2 DEF RecheckNumbers, TypeOK
<1>11. ASSUME RecheckAppends PROVE TypeOK'
  <2>1. [seq |-> revising, kind |-> "revised"] \in Line
    BY DEF TypeOK, Line, Kind
  <2>2. Grows([seq |-> revising, kind |-> "revised"]) /\ tail' = "ended"
    BY <1>11, AppendGrows DEF RecheckAppends
  <2>3. file' \in Seq(Line) /\ DOMAIN file \subseteq DOMAIN file'
    BY <2>1, <2>2, GrowthKeeps
  <2>4. session' \in [Call \cup {"parent"} -> Seq(Number)]
    BY <1>11, AppendProperties DEF RecheckAppends, TypeOK
  <2>5. 0 \in Number
    BY LogAssumption DEF Number
  <2> QED
    BY <1>11, <2>2, <2>3, <2>4, <2>5 DEF RecheckAppends, TypeOK
<1>12. ASSUME RecheckTears PROVE TypeOK'
  <2>1. Grows(Torn) /\ tail' \in {"ended", "torn"}
    BY <1>12, HalfLineGrows DEF RecheckTears
  <2>2. file' \in Seq(Line) /\ DOMAIN file \subseteq DOMAIN file'
    BY <2>1, GrowthKeeps, TornIsLine
  <2>3. 0 \in Number
    BY LogAssumption DEF Number
  <2> QED
    BY <1>12, <2>1, <2>2, <2>3 DEF RecheckTears, TypeOK
<1>13. ASSUME Inspect PROVE TypeOK'
  <2> DEFINE S == {cursor} \cup {file[i].seq : i \in Fresh}
  <2>1. \A i \in DOMAIN file : file[i] \in Line
    BY LenProperties, ElementOfSeq DEF TypeOK
  <2>2. \A i \in Fresh : file[i].seq \in Number
    BY <2>1 DEF Fresh, Line
  <2>3. cursor \in Number /\ S \subseteq Number
    BY <2>2 DEF TypeOK
  <2>4. S \in SUBSET Nat /\ S # {} /\ MaxLines \in Nat /\ \A s \in S : s <= MaxLines
    BY <2>3, LogAssumption DEF Number
  <2>5. Max(S) \in S
    BY <2>4, MaxOfBounded
  <2>6. NextCursor = Max(S)
    BY DEF NextCursor
  <2>7. cursor' \in Number
    BY <1>13, <2>3, <2>5, <2>6 DEF Inspect
  <2>8. seen' \subseteq DOMAIN file'
    BY <1>13 DEF Inspect, Fresh, TypeOK
  <2> QED
    BY <1>13, <2>7, <2>8 DEF Inspect, TypeOK
<1>14. ASSUME Crash PROVE TypeOK'
  <2>1. PICK e \in {Torn} : Grows(e) /\ tail' \in {"ended", "torn"}
    BY <1>14, HalfLineGrows DEF Crash, Grows, TypeOK
  <2>2. file' \in Seq(Line) /\ DOMAIN file \subseteq DOMAIN file'
    BY <2>1, GrowthKeeps, TornIsLine
  <2>3. 0 \in Number /\ <<>> \in Seq(Number)
    BY LogAssumption, EmptySeq DEF Number
  <2>4. thread' \in [Call -> Thread] /\ queue' \in [Call -> Seq(Number)]
    BY <1>14, <2>3 DEF Crash, TypeOK, Thread
  <2> QED
    BY <1>14, <2>1, <2>2, <2>3, <2>4 DEF Crash, TypeOK
<1>15. CASE UNCHANGED vars
  BY <1>15 DEF vars, TypeOK
<1> QED
  BY <1>1, <1>2, <1>3, <1>4, <1>5, <1>6, <1>7, <1>8, <1>9, <1>10, <1>11, <1>12,
     <1>13, <1>14, <1>15 DEF Next

(* Every variable keeps its type: the numbers of the events stay within the
   bound, what is published or shown comes from the file and the queues. *)
THEOREM TypeCorrect == Spec => []TypeOK
<1>1. Init => TypeOK
  BY TypeInit
<1>2. TypeOK /\ [Next]_vars => TypeOK'
  BY TypeNext
<1> QED
  BY <1>1, <1>2, PTL DEF Spec

-----------------------------------------------------------------------------
(* Append-only                                                             *)

\* Whatever the step, the file is left alone or grows by one line at its end.
LEMMA FileOnlyGrows ==
    ASSUME TypeOK, [Next]_vars
    PROVE  \E e \in Line : Grows(e)
<1>1. CASE UNCHANGED file
  BY <1>1, TornIsLine DEF Grows
<1>2. ASSUME NEW c \in Call, NEW kind \in {"other", "paused"}, Emit(c, kind)
      PROVE  \E e \in Line : Grows(e)
  <2>1. kind \in Kind
    BY DEF Kind
  <2> QED
    BY <1>2, <2>1, Emitting
<1>3. ASSUME AddHalfLine PROVE \E e \in Line : Grows(e)
  BY <1>3, HalfLineGrows, TornIsLine
<1>4. ASSUME RecheckAppends PROVE \E e \in Line : Grows(e)
  <2>1. [seq |-> revising, kind |-> "revised"] \in Line
    BY DEF TypeOK, Line, Kind
  <2> QED
    BY <1>4, <2>1, AppendGrows DEF RecheckAppends
<1>5. ASSUME NEW c \in Call, Begin(c) \/ WorkerEnds(c) \/ Publish(c) \/ Return(c) \/ Abandon(c)
      PROVE  UNCHANGED file
  BY <1>5 DEF Begin, WorkerEnds, Publish, Return, Abandon
<1>6. ASSUME NEW c \in Call, WorkerAppends(c) \/ ReportEnd(c)
      PROVE  \E kind \in {"other", "paused"} : Emit(c, kind)
  BY <1>6 DEF WorkerAppends, ReportEnd
<1>7. ASSUME NEW c \in Call, WorkerTears(c) \/ ReportTears(c) PROVE AddHalfLine
  BY <1>7 DEF WorkerTears, ReportTears
<1>8. ASSUME RecheckNumbers \/ Inspect \/ UNCHANGED vars PROVE UNCHANGED file
  BY <1>8 DEF RecheckNumbers, Inspect, vars
<1>9. ASSUME RecheckTears \/ Crash PROVE AddHalfLine \/ UNCHANGED file
  BY <1>9 DEF RecheckTears, Crash
<1> QED
  BY <1>1, <1>2, <1>3, <1>4, <1>5, <1>6, <1>7, <1>8, <1>9 DEF Next

(* An event that can be read stays readable at its place: _append_event only
   ever appends, and half a line spoils itself and the line behind it. *)
THEOREM ReadableIsKept == Spec => DecodedKept
<1>1. TypeOK /\ [Next]_vars =>
        [\A i \in DOMAIN file : Decodable(i) => i \in DOMAIN file' /\ file'[i] = file[i]]_vars
  <2> SUFFICES ASSUME TypeOK, [Next]_vars
               PROVE  \A i \in DOMAIN file : i \in DOMAIN file' /\ file'[i] = file[i]
    OBVIOUS
  <2>1. PICK e \in Line : Grows(e)
    BY FileOnlyGrows
  <2> QED
    BY <2>1, GrowthKeeps
<1> QED
  BY <1>1, TypeCorrect, PTL DEF Spec, DecodedKept

-----------------------------------------------------------------------------
(* One writer at a time                                                    *)

\* The worker, or its call, has events to append.
Writer(c) == thread[c] \in {"running", "rolled_back", "failed"}

\* Only the awaited call has a writer, and none goes beside a recheck.
WriterIsCalled ==
    /\ \A c \in Call : Writer(c) => call = c
    /\ revising # 0 => call = NoCall

\* What a writer has counted to is not below any number of the file, and the
\* number a recheck has taken is above all of them.
NumbersAreNew ==
    /\ \A c \in Call : Writer(c) => \A i \in DOMAIN file : file[i].seq <= next[c]
    /\ revising # 0 => \A i \in DOMAIN file : file[i].seq < revising

\* A blocked run has no writer.
PauseIsLast == Blocked => \A c \in Call : ~Writer(c)

LogInv == TypeOK /\ WriterIsCalled /\ NumbersAreNew /\ Ordered /\ PauseIsLast

\* Steps that leave the file alone and add no writer.
LEMMA InvQuietStep ==
    ASSUME LogInv, TypeOK', UNCHANGED file, revising' \in {revising, 0},
           \A c \in Call : Writer(c)' => Writer(c) /\ next'[c] = next[c] /\ call' = call,
           call' \in {call, NoCall}
    PROVE  LogInv'
<1>1. WriterIsCalled'
  BY DEF LogInv, WriterIsCalled
<1>2. NumbersAreNew'
  BY DEF LogInv, NumbersAreNew
<1>3. Ordered'
  BY DEF LogInv, Ordered, Decodable
<1>4. PauseIsLast'
  BY DEF LogInv, PauseIsLast, Blocked, Decodable
<1> QED
  BY <1>1, <1>2, <1>3, <1>4 DEF LogInv

\* Steps by which the file grows by nothing that can be read.
LEMMA InvTornStep ==
    ASSUME LogInv, TypeOK', Grows(Torn), revising' \in {revising, 0},
           \A c \in Call : Writer(c)' => Writer(c) /\ next'[c] >= next[c] /\ call' = call,
           call' \in {call, NoCall}
    PROVE  LogInv'
<1> USE LogAssumption
<1>1. /\ \A i \in DOMAIN file : file'[i] = file[i]
      /\ \A i \in DOMAIN file' \ DOMAIN file : file'[i] \in {Torn}
  BY GrowthKeeps, TornIsLine DEF LogInv
<1>2. Torn.seq = 0
  BY DEF Torn
<1>3. \A c \in Call : next[c] \in Nat /\ next'[c] \in Nat
  BY DEF LogInv, TypeOK, Number
<1>4. \A i \in DOMAIN file : file[i].seq \in Nat
  <2>1. \A i \in DOMAIN file : file[i] \in Line
    BY LenProperties, ElementOfSeq DEF LogInv, TypeOK
  <2> QED
    BY <2>1 DEF Line, Number
<1>5. revising \in Nat
  BY DEF LogInv, TypeOK, Number
<1>6. WriterIsCalled'
  BY DEF LogInv, WriterIsCalled
<1>7. NumbersAreNew'
  <2>1. ASSUME NEW c \in Call, Writer(c)', NEW i \in DOMAIN file' PROVE file'[i].seq <= next'[c]
    BY <1>1, <1>2, <1>3, <1>4, <2>1 DEF LogInv, NumbersAreNew
  <2>2. ASSUME revising' # 0, NEW i \in DOMAIN file' PROVE file'[i].seq < revising'
    BY <1>1, <1>2, <1>4, <1>5, <2>2 DEF LogInv, NumbersAreNew
  <2> QED
    BY <2>1, <2>2 DEF NumbersAreNew
<1>8. Ordered'
  <2>1. LastSeq \in Nat /\ \A i \in DOMAIN file : file[i].seq <= LastSeq
    BY LastSeqIsLast DEF LogInv, TypeOK, Number
  <2> QED
    BY <2>1, TornIsLine, GrowthIsOrdered DEF LogInv
<1>9. PauseIsLast'
  <2>1. Blocked' => Blocked
    BY TornIsLine, GrowthBlocks DEF LogInv, Torn
  <2> QED
    BY <2>1 DEF LogInv, PauseIsLast
<1> QED
  BY <1>6, <1>7, <1>8, <1>9 DEF LogInv

\* An event of the awaited call: its number is above all others.
LEMMA InvEmit ==
    ASSUME LogInv, TypeOK', NEW c \in Call, NEW kind \in {"other", "paused"},
           Writer(c), Emit(c, kind), UNCHANGED <<call, revising>>,
           \A d \in Call : Writer(d)' => Writer(d),
           kind = "paused" => ~Writer(c)'
    PROVE  LogInv' /\ ~Blocked
<1> DEFINE e == [seq |-> next[c] + 1, kind |-> kind]
<1> USE LogAssumption
<1>1. kind \in Kind /\ TypeOK
  BY DEF Kind, LogInv
<1>2. e \in Line /\ Grows(e) /\ next' \in [Call -> Number] /\ next'[c] = next[c] + 1
  BY <1>1, Emitting
<1>3. next[c] \in Nat /\ e.seq = next[c] + 1 /\ e.kind = kind
  BY <1>1 DEF TypeOK, Number
<1>4. \A i \in DOMAIN file : file[i].seq <= next[c]
  BY DEF LogInv, NumbersAreNew
<1> HIDE DEF e
<1>5. Ordered' /\ \A i \in DOMAIN file' : file'[i].seq <= next[c] \/ file'[i].seq = e.seq
  <2>1. e.seq > next[c]
    BY <1>3
  <2> QED
    BY <1>1, <1>2, <1>3, <1>4, <2>1, GrowthIsOrdered DEF LogInv
<1>6. \A i \in DOMAIN file' : file'[i].seq <= next'[c]
  <2> SUFFICES ASSUME NEW i \in DOMAIN file' PROVE file'[i].seq <= next'[c]
    OBVIOUS
  <2>1. file'[i] \in Line
    BY LenProperties, ElementOfSeq DEF TypeOK
  <2>2. file'[i].seq \in Nat
    BY <2>1 DEF Line, Number
  <2> QED
    BY <1>2, <1>3, <1>5, <2>2
<1>7. call = c /\ revising = 0 /\ \A d \in Call : Writer(d)' => d = c
  BY NoCallAssumption DEF LogInv, WriterIsCalled
<1>8. WriterIsCalled' /\ NumbersAreNew'
  BY <1>6, <1>7 DEF WriterIsCalled, NumbersAreNew
<1>9. ~Blocked
  BY DEF LogInv, PauseIsLast
<1>10. PauseIsLast'
  <2>1. Blocked' => kind = "paused"
    BY <1>1, <1>2, <1>3, <1>9, GrowthBlocks
  <2> QED
    BY <1>7, <2>1 DEF PauseIsLast
<1> QED
  BY <1>5, <1>8, <1>9, <1>10 DEF LogInv

LEMMA InvInit == Init => LogInv
<1> SUFFICES ASSUME Init PROVE LogInv
  OBVIOUS
<1>1. TypeOK
  BY TypeInit
<1>2. DOMAIN file = {} /\ revising = 0 /\ \A c \in Call : ~Writer(c)
  BY DEF Init, Writer
<1> QED
  BY <1>1, <1>2 DEF LogInv, WriterIsCalled, NumbersAreNew, Ordered, PauseIsLast

\* The worker of the call that is awaited is not loose.
CalledIsAttended == \A c \in Call : call = c => thread[c] \notin {"loose", "lost"}

LEMMA CalledNext ==
    ASSUME TypeOK, CalledIsAttended, [Next]_vars
    PROVE  CalledIsAttended'
<1> USE DEF CalledIsAttended, TypeOK
<1>1. ASSUME UNCHANGED <<thread, call>> PROVE CalledIsAttended'
  BY <1>1
<1>2. ASSUME call' = NoCall PROVE CalledIsAttended'
  BY <1>2, NoCallAssumption
<1>3. ASSUME NEW c \in Call, Begin(c) \/ WorkerTears(c) \/ WorkerEnds(c) \/ ReportEnd(c)
      PROVE  CalledIsAttended'
  <2> SUFFICES ASSUME NEW d \in Call, call' = d PROVE thread'[d] \notin {"loose", "lost"}
    OBVIOUS
  <2>1. CASE Begin(c)
    BY <2>1 DEF Begin, Step
  <2>2. CASE WorkerTears(c)
    BY <2>2 DEF WorkerTears, Step
  <2>3. CASE WorkerEnds(c)
    BY <2>3 DEF WorkerEnds, Step
  <2>4. CASE ReportEnd(c)
    BY <2>4 DEF ReportEnd, Step
  <2> QED
    BY <1>3, <2>1, <2>2, <2>3, <2>4
<1> QED
  BY <1>1, <1>2, <1>3
     DEF Next, WorkerAppends, Publish, ReportTears, Return, Abandon, RecheckNumbers,
         RecheckAppends, RecheckTears, Inspect, Crash, workers, vars

\* A worker that outlived its call is remembered.
LEMMA LooseIsRemembered ==
    ASSUME TypeOK, CalledIsAttended, [Next]_vars, Attended'
    PROVE  Attended
<1> SUFFICES ASSUME NEW d \in Call PROVE thread[d] \notin {"loose", "lost"}
  BY DEF Attended
<1> USE DEF Attended, TypeOK
<1>1. ASSUME UNCHANGED thread PROVE thread[d] \notin {"loose", "lost"}
  BY <1>1
<1>2. ASSUME NEW c \in Call, Begin(c) \/ ReportEnd(c) \/ ReportTears(c) \/ Return(c)
      PROVE  thread[d] \notin {"loose", "lost"}
  BY <1>2 DEF Begin, ReportEnd, ReportTears, Return, Step
<1>3. ASSUME NEW c \in Call, WorkerTears(c) \/ WorkerEnds(c) PROVE thread[d] \notin {"loose", "lost"}
  BY <1>3 DEF WorkerTears, WorkerEnds, Step
<1>4. ASSUME NEW c \in Call, Abandon(c) PROVE thread[d] \notin {"loose", "lost"}
  <2>1. call = c /\ call' = NoCall /\ thread' = [thread EXCEPT ![c] = IF @ = "running" THEN "loose" ELSE "gone"]
    BY <1>4 DEF Abandon
  <2>2. thread[c] # "running"
    BY <2>1
  <2> QED
    BY <2>1, <2>2 DEF CalledIsAttended
<1>5. ASSUME Crash PROVE thread[d] \notin {"loose", "lost"}
  <2>1. thread'[d] = CASE thread[d] \in {"idle", "closed", "lost"} -> thread[d]
                       [] thread[d] = "loose" -> "lost"
                       [] OTHER -> "gone"
    BY <1>5 DEF Crash
  <2> QED
    BY <2>1
<1> QED
  BY <1>1, <1>2, <1>3, <1>4, <1>5
     DEF Next, WorkerAppends, Publish, RecheckNumbers, RecheckAppends, RecheckTears,
         Inspect, workers, vars

\* As long as no worker outlives its call.
LEMMA InvNext ==
    ASSUME LogInv, [Next]_vars, Attended, Attended'
    PROVE  LogInv' /\ (Blocked /\ ~Blocked' => RecheckAppends)
<1> USE DEF Attended
<1>0. Attended
  OBVIOUS
<1>1. TypeOK /\ TypeOK'
  BY TypeNext DEF LogInv
<1>2. ASSUME UNCHANGED file PROVE Blocked <=> Blocked'
  BY <1>2 DEF Blocked, Decodable
<1>3. ASSUME Grows(Torn) PROVE Blocked => Blocked'
  BY <1>1, <1>3, TornIsLine, GrowthBlocks
<1>4. ASSUME NEW c \in Call, Begin(c) PROVE LogInv' /\ UNCHANGED file
  <2>1. UNCHANGED file /\ revising' = 0 /\ call' = c
    BY <1>4 DEF Begin, Quiet
  <2>2. \A d \in Call : Writer(d)' => d = c
    <3>1. \A d \in Call : ~Writer(d)
      BY <1>4, NoCallAssumption DEF Begin, Quiet, LogInv, WriterIsCalled
    <3> QED
      BY <1>1, <1>4, <3>1 DEF Begin, Step, Writer, TypeOK
  <2>3. next'[c] = LastSeq
    BY <1>1, <1>4 DEF Begin, TypeOK
  <2>4. \A i \in DOMAIN file : file[i].seq <= LastSeq
    BY <1>1, LastSeqIsLast DEF TypeOK
  <2>5. WriterIsCalled' /\ NumbersAreNew'
    BY <2>1, <2>2, <2>3, <2>4 DEF WriterIsCalled, NumbersAreNew
  <2>6. Ordered'
    BY <2>1 DEF LogInv, Ordered, Decodable
  <2>7. PauseIsLast'
    BY <1>2, <1>4, <2>1 DEF Begin, PauseIsLast
  <2> QED
    BY <1>1, <2>1, <2>5, <2>6, <2>7 DEF LogInv
<1>5. ASSUME NEW c \in Call, WorkerAppends(c) PROVE LogInv' /\ ~Blocked
  <2>1. Writer(c) /\ Emit(c, "other") /\ UNCHANGED <<thread, call, revising>>
    BY <1>0, <1>5 DEF WorkerAppends, Writer
  <2>2. \A d \in Call : Writer(d)' => Writer(d)
    BY <2>1 DEF Writer
  <2> QED
    BY <1>1, <2>1, <2>2, InvEmit
<1>6. ASSUME NEW c \in Call, WorkerTears(c) PROVE LogInv' /\ Grows(Torn)
  <2>1. Grows(Torn) /\ UNCHANGED <<call, revising>>
    BY <1>1, <1>6, HalfLineGrows DEF WorkerTears
  <2>2. \A d \in Call : Writer(d)' => Writer(d) /\ next'[d] >= next[d]
    <3>1. next \in [Call -> Nat] /\ thread \in [Call -> Thread]
      <4>1. next \in [Call -> Number] /\ thread \in [Call -> Thread]
        BY <1>1 DEF TypeOK
      <4>2. Number \subseteq Nat
        BY LogAssumption DEF Number
      <4> QED
        BY <4>1, <4>2
    <3>2. next' = [next EXCEPT ![c] = @ + 1]
      BY <1>6 DEF WorkerTears
    <3>3. \A d \in Call : next'[d] >= next[d]
      BY <3>1, <3>2
    <3>4. \A d \in Call : Writer(d)' => Writer(d)
      BY <1>0, <1>6, <3>1 DEF WorkerTears, Step, Writer
    <3> QED
      BY <3>3, <3>4
  <2> QED
    BY <1>1, <2>1, <2>2, InvTornStep
<1>7. ASSUME NEW c \in Call, WorkerEnds(c) \/ Publish(c) \/ Return(c)
      PROVE  LogInv' /\ UNCHANGED file
  <2>1. UNCHANGED <<file, next, revising>> /\ call' \in {call, NoCall}
    BY <1>7 DEF WorkerEnds, Publish, Return
  <2>2. \A d \in Call : Writer(d)' => Writer(d) /\ call' = call
    <3>1. CASE WorkerEnds(c) \/ Publish(c)
      BY <1>0, <1>1, <3>1 DEF WorkerEnds, Publish, Step, Writer, TypeOK
    <3>2. CASE Return(c)
      BY <1>1, <3>2 DEF Return, Step, Writer, TypeOK, LogInv, WriterIsCalled
    <3> QED
      BY <1>7, <3>1, <3>2
  <2> QED
    BY <1>1, <2>1, <2>2, InvQuietStep
<1>8. ASSUME NEW c \in Call, ReportEnd(c) PROVE LogInv' /\ ~Blocked
  <2>1. PICK kind \in {"other", "paused"} : Emit(c, kind)
    BY <1>8 DEF ReportEnd
  <2>2. Writer(c) /\ ~Writer(c)' /\ UNCHANGED <<call, revising>>
    BY <1>1, <1>8 DEF ReportEnd, Step, Writer, TypeOK
  <2>3. \A d \in Call : Writer(d)' => Writer(d)
    BY <1>1, <1>8 DEF ReportEnd, Step, Writer, TypeOK
  <2> QED
    BY <1>1, <2>1, <2>2, <2>3, InvEmit
<1>9. ASSUME NEW c \in Call, ReportTears(c) PROVE LogInv' /\ Grows(Torn)
  <2>1. Grows(Torn) /\ UNCHANGED <<next, revising>> /\ call' = NoCall
    BY <1>1, <1>9, HalfLineGrows DEF ReportTears
  <2>2. \A d \in Call : ~Writer(d)'
    BY <1>1, <1>9 DEF ReportTears, Step, Writer, TypeOK, LogInv, WriterIsCalled
  <2> QED
    BY <1>1, <2>1, <2>2, InvTornStep
<1>10. ASSUME NEW c \in Call, Abandon(c) PROVE LogInv' /\ UNCHANGED file
  <2>1. UNCHANGED <<file, next, revising>> /\ call = c /\ call' = NoCall
    BY <1>10 DEF Abandon
  <2>2. thread' = [thread EXCEPT ![c] = "gone"]
    BY <1>1, <1>10 DEF Abandon, TypeOK
  <2>3. \A d \in Call : ~Writer(d)'
    BY <1>1, <2>1, <2>2 DEF Writer, TypeOK, LogInv, WriterIsCalled
  <2> QED
    BY <1>1, <2>1, <2>3, InvQuietStep
<1>11. ASSUME RecheckNumbers PROVE LogInv' /\ UNCHANGED file
  <2>1. UNCHANGED <<file, thread, next, call>> /\ call = NoCall /\ revising' = LastSeq + 1
    BY <1>11 DEF RecheckNumbers, Quiet, workers
  <2>2. \A d \in Call : ~Writer(d)'
    BY <2>1, NoCallAssumption DEF Writer, LogInv, WriterIsCalled
  <2>3. \A i \in DOMAIN file' : file'[i].seq < revising'
    <3>1. LastSeq \in Nat /\ \A i \in DOMAIN file : file[i].seq <= LastSeq
      BY <1>1, LastSeqIsLast, LogAssumption DEF TypeOK, Number
    <3>2. \A i \in DOMAIN file : file[i] \in Line
      BY <1>1, LenProperties, ElementOfSeq DEF TypeOK
    <3>3. \A i \in DOMAIN file : file[i].seq \in Nat
      BY <3>2, LogAssumption DEF Line, Number
    <3> QED
      BY <2>1, <3>1, <3>3
  <2>4. WriterIsCalled' /\ NumbersAreNew' /\ PauseIsLast'
    BY <2>1, <2>2, <2>3 DEF WriterIsCalled, NumbersAreNew, PauseIsLast
  <2>5. Ordered'
    BY <2>1 DEF LogInv, Ordered, Decodable
  <2> QED
    BY <1>1, <2>1, <2>4, <2>5 DEF LogInv
<1>12. ASSUME RecheckAppends PROVE LogInv'
  <2> DEFINE e == [seq |-> revising, kind |-> "revised"]
  <2>1. e \in Line /\ Grows(e) /\ revising' = 0 /\ UNCHANGED <<thread, next, call>>
    BY <1>1, <1>12, AppendGrows DEF RecheckAppends, workers, TypeOK, Line, Kind
  <2>2. call = NoCall /\ \A d \in Call : ~Writer(d)'
    BY <1>12, <2>1, NoCallAssumption DEF RecheckAppends, Writer, LogInv, WriterIsCalled
  <2>3. revising \in Nat /\ revising # 0 /\ \A i \in DOMAIN file : file[i].seq < revising
    BY <1>1, <1>12, LogAssumption DEF RecheckAppends, LogInv, NumbersAreNew, TypeOK, Number
  <2>4. Ordered'
    <3>1. \A i \in DOMAIN file : file[i] \in Line
      BY <1>1, LenProperties, ElementOfSeq DEF TypeOK
    <3>2. \A i \in DOMAIN file : file[i].seq \in Nat
      BY <3>1, LogAssumption DEF Line, Number
    <3>3. /\ revising - 1 \in Nat /\ e.seq > revising - 1
          /\ \A i \in DOMAIN file : file[i].seq <= revising - 1
      BY <2>3, <3>2
    <3> HIDE DEF e
    <3> QED
      BY <1>1, <2>1, <3>3, GrowthIsOrdered DEF LogInv
  <2>5. WriterIsCalled' /\ NumbersAreNew' /\ PauseIsLast'
    BY <2>1, <2>2 DEF WriterIsCalled, NumbersAreNew, PauseIsLast
  <2> QED
    BY <1>1, <2>4, <2>5 DEF LogInv
<1>13. ASSUME RecheckTears PROVE LogInv' /\ Grows(Torn)
  <2>1. Grows(Torn) /\ revising' = 0 /\ UNCHANGED <<thread, next, call>>
    BY <1>1, <1>13, HalfLineGrows DEF RecheckTears, workers
  <2>2. \A d \in Call : Writer(d)' => Writer(d) /\ next'[d] >= next[d]
    BY <1>1, <2>1, LogAssumption DEF Writer, TypeOK, Number
  <2> QED
    BY <1>1, <2>1, <2>2, InvTornStep
<1>14. ASSUME Inspect PROVE LogInv' /\ UNCHANGED file
  <2>1. UNCHANGED <<file, thread, next, call, revising>>
    BY <1>14 DEF Inspect, workers
  <2>2. \A d \in Call : Writer(d)' => Writer(d)
    BY <2>1 DEF Writer
  <2> QED
    BY <1>1, <2>1, <2>2, InvQuietStep
<1>15. ASSUME Crash PROVE LogInv' /\ Grows(Torn)
  <2>1. Grows(Torn) /\ revising' = 0 /\ call' = NoCall
    <3>1. CASE UNCHANGED <<file, tail>>
      BY <1>15, <3>1 DEF Crash, Grows
    <3>2. CASE AddHalfLine
      BY <1>1, <1>15, <3>2, HalfLineGrows DEF Crash
    <3> QED
      BY <1>15, <3>1, <3>2 DEF Crash
  <2>2. \A d \in Call : ~Writer(d)'
    BY <1>15 DEF Crash, Writer
  <2> QED
    BY <1>1, <2>1, <2>2, InvTornStep
<1>16. ASSUME UNCHANGED vars PROVE LogInv' /\ UNCHANGED file
  <2>1. UNCHANGED <<file, thread, next, call, revising>>
    BY <1>16 DEF vars, workers
  <2>2. \A d \in Call : Writer(d)' => Writer(d)
    BY <2>1 DEF Writer
  <2> QED
    BY <1>1, <2>1, <2>2, InvQuietStep
<1> QED
  BY <1>2, <1>3, <1>4, <1>5, <1>6, <1>7, <1>8, <1>9, <1>10, <1>11, <1>12, <1>13,
     <1>14, <1>15, <1>16 DEF Next

LogInvAttended == TypeOK /\ CalledIsAttended /\ (Attended => LogInv)

LEMMA InvAlways == Spec => []LogInvAttended
<1>1. Init => LogInvAttended
  BY InvInit, NoCallAssumption DEF LogInvAttended, LogInv, CalledIsAttended, Init
<1>2. LogInvAttended /\ [Next]_vars => LogInvAttended'
  BY TypeNext, CalledNext, LooseIsRemembered, InvNext DEF LogInvAttended
<1> QED
  BY <1>1, <1>2, PTL DEF Spec

(* As long as no worker has outlived its call, the readable numbers of
   events.jsonl increase with the lines, whatever crashes or is torn: each
   writer starts from the largest number and works alone. *)
THEOREM NumbersIncrease == Spec => []FileOrdered
<1>1. LogInvAttended => FileOrdered
  BY DEF LogInvAttended, LogInv, FileOrdered
<1> QED
  BY <1>1, InvAlways, PTL

(* Up to then a run blocked by the pause of a rolled-back CHECK is unblocked
   by the event of recheck_evidence_review and by nothing else. *)
THEOREM PauseHoldsUntilRevised == Spec => OnlyRevisionUnblocks
<1>1. LogInvAttended /\ [Next]_vars =>
        [Attended' /\ Blocked /\ ~Blocked' => file'[Len(file')].kind = "revised"]_vars
  <2> SUFFICES ASSUME LogInvAttended, [Next]_vars, Attended', Blocked, ~Blocked'
               PROVE  file'[Len(file')].kind = "revised"
    OBVIOUS
  <2> DEFINE e == [seq |-> revising, kind |-> "revised"]
  <2>0. LogInv /\ TypeOK /\ Attended
    BY LooseIsRemembered DEF LogInvAttended
  <2>1. RecheckAppends
    BY <2>0, InvNext
  <2>2. e \in Line /\ Grows(e)
    BY <2>0, <2>1, AppendGrows DEF RecheckAppends, TypeOK, Line, Kind
  <2>3. file'[Len(file')] = e
    BY <2>0, <2>2, GrowthBlocks
  <2>4. e.kind = "revised"
    OBVIOUS
  <2> HIDE DEF e
  <2> QED
    BY <2>3, <2>4
<1> QED
  BY <1>1, InvAlways, PTL DEF Spec, OnlyRevisionUnblocks
-----------------------------------------------------------------------------
(* What the answer of a recheck is worth                                   *)

\* Half a line at the end cannot be read, and an answer stands only while no
\* call has begun.
ReadyInv ==
    /\ tail = "torn" => \E i \in DOMAIN file : ~Decodable(i)
    /\ Attended /\ ready => call = NoCall
    /\ RevisionReady

\* Half a line at the end is there to be seen.
LEMMA TornIsSeen ==
    ASSUME TypeOK, [Next]_vars, tail = "torn" => \E i \in DOMAIN file : ~Decodable(i)
    PROVE  tail' = "torn" => \E i \in DOMAIN file' : ~Decodable(i)'
<1> SUFFICES ASSUME tail' = "torn" PROVE \E i \in DOMAIN file' : ~Decodable(i)'
  OBVIOUS
<1>1. CASE UNCHANGED <<file, tail>>
  BY <1>1 DEF Decodable
<1>2. CASE AddHalfLine
  <2>1. CASE tail = "torn" /\ file' = file
    BY <2>1 DEF Decodable
  <2>2. CASE file' = Append(file, Torn)
    <3>1. Len(file) + 1 \in DOMAIN file' /\ file'[Len(file) + 1] = Torn
      BY <2>2 DEF TypeOK
    <3> QED
      BY <3>1 DEF Decodable, Torn
  <2> QED
    BY <1>1, <1>2, <2>1, <2>2 DEF AddHalfLine
<1>3. ASSUME NEW c \in Call, NEW kind \in {"other", "paused"}, Emit(c, kind) PROVE FALSE
  <2>1. kind \in Kind
    BY DEF Kind
  <2> QED
    BY <1>3, <2>1, Emitting
<1>4. ~RecheckAppends
  BY AppendGrows DEF RecheckAppends
<1>5. UNCHANGED <<file, tail>> \/ AddHalfLine
  <2>1. ASSUME NEW c \in Call,
               Begin(c) \/ WorkerEnds(c) \/ Publish(c) \/ Return(c) \/ Abandon(c)
        PROVE  UNCHANGED <<file, tail>>
    BY <2>1 DEF Begin, WorkerEnds, Publish, Return, Abandon
  <2>2. ASSUME NEW c \in Call, WorkerAppends(c) \/ ReportEnd(c) PROVE FALSE
    BY <1>3, <2>2 DEF WorkerAppends, ReportEnd
  <2>3. ASSUME NEW c \in Call, WorkerTears(c) \/ ReportTears(c) PROVE AddHalfLine
    BY <2>3 DEF WorkerTears, ReportTears
  <2>4. ASSUME RecheckNumbers \/ Inspect \/ UNCHANGED vars PROVE UNCHANGED <<file, tail>>
    BY <2>4 DEF RecheckNumbers, Inspect, vars
  <2>5. ASSUME RecheckTears \/ Crash PROVE UNCHANGED <<file, tail>> \/ AddHalfLine
    BY <2>5 DEF RecheckTears, Crash
  <2> QED
    BY <1>4, <2>1, <2>2, <2>3, <2>4, <2>5 DEF Next
<1> QED
  BY <1>1, <1>2, <1>5

\* With no call awaited and no worker loose, a step begins a call, is the
\* append of a recheck, or adds nothing to the file that can be read.
LEMMA NobodyWrites ==
    ASSUME LogInv, Attended, call = NoCall, [Next]_vars
    PROVE  \/ RecheckAppends
           \/ call' # NoCall /\ ~ready'
           \/ call' = NoCall /\ ready' = ready /\ (UNCHANGED file \/ Grows(Torn))
<1>1. TypeOK /\ \A c \in Call : call # c /\ ~Writer(c)
  BY NoCallAssumption DEF LogInv, WriterIsCalled
<1>2. ASSUME NEW c \in Call, Begin(c) PROVE call' # NoCall /\ ~ready'
  BY <1>2, NoCallAssumption DEF Begin
<1>3. ASSUME NEW c \in Call
      PROVE  /\ ~WorkerAppends(c) /\ ~WorkerTears(c) /\ ~WorkerEnds(c) /\ ~Publish(c)
             /\ ~ReportEnd(c) /\ ~ReportTears(c) /\ ~Return(c) /\ ~Abandon(c)
  BY <1>1 DEF WorkerAppends, WorkerTears, WorkerEnds, Publish, ReportEnd, ReportTears,
              Return, Abandon, Step, Writer, Attended
<1>4. ASSUME RecheckTears \/ Crash
      PROVE  call' = NoCall /\ ready' = ready /\ (UNCHANGED file \/ Grows(Torn))
  BY <1>1, <1>4, HalfLineGrows DEF RecheckTears, Crash
<1>5. ASSUME RecheckNumbers \/ Inspect \/ UNCHANGED vars
      PROVE  call' = NoCall /\ ready' = ready /\ UNCHANGED file
  BY <1>5 DEF RecheckNumbers, Inspect, vars
<1> QED
  BY <1>2, <1>3, <1>4, <1>5 DEF Next

LEMMA ReadyNext ==
    ASSUME LogInvAttended, ReadyInv, [Next]_vars
    PROVE  ReadyInv'
<1>1. TypeOK /\ TypeOK'
  BY TypeNext DEF LogInvAttended
<1>2. tail' = "torn" => \E i \in DOMAIN file' : ~Decodable(i)'
  BY <1>1, TornIsSeen DEF ReadyInv
<1>3. ASSUME Attended', ready' PROVE call' = NoCall /\ (Whole' => ~Blocked')
  <2>1. Attended /\ LogInv
    BY <1>1, <1>3, LooseIsRemembered DEF LogInvAttended
  <2>2. CASE RecheckAppends
    <3> DEFINE e == [seq |-> revising, kind |-> "revised"]
    <3>1. call' = NoCall
      BY <2>1, <2>2 DEF RecheckAppends, LogInv, WriterIsCalled
    <3>2. CASE tail = "torn"
      <4>1. file' = file
        BY <2>2, <3>2 DEF RecheckAppends, AddLine
      <4>2. ~Whole'
        BY <3>2, <4>1 DEF ReadyInv, Whole, Decodable
      <4> QED
        BY <3>1, <4>2
    <3>3. CASE tail = "ended"
      <4>1. file' = Append(file, e) /\ e.kind = "revised"
        BY <2>2, <3>3 DEF RecheckAppends, AddLine
      <4> HIDE DEF e
      <4>2. /\ Len(file) \in Nat /\ Len(file) + 1 \in DOMAIN file'
            /\ file'[Len(file) + 1].kind = "revised"
            /\ \A i \in DOMAIN file' : i # Len(file) + 1 => Len(file) + 1 > i
        BY <1>1, <4>1 DEF TypeOK
      <4>3. ~Blocked'
        BY <4>2 DEF Blocked, Decodable
      <4> QED
        BY <3>1, <4>3
    <3> QED
      BY <1>1, <3>2, <3>3 DEF TypeOK
  <2>3. CASE ~RecheckAppends
    <3>1. \A c \in Call : Begin(c) => ~ready'
      BY DEF Begin
    <3>2. ready
      BY <1>3, <2>3, <3>1
         DEF Next, WorkerAppends, WorkerTears, WorkerEnds, Publish, ReportEnd, ReportTears,
             Return, Abandon, RecheckNumbers, RecheckTears, Inspect, Crash, vars
    <3>3. call = NoCall
      BY <2>1, <3>2 DEF ReadyInv
    <3>4. call' = NoCall /\ (UNCHANGED file \/ Grows(Torn))
      BY <1>3, <2>1, <2>3, <3>3, NobodyWrites
    <3>5. Grows(Torn)
      BY <3>4 DEF Grows
    <3>6. Whole' => Whole
      <4>1. DOMAIN file \subseteq DOMAIN file' /\ \A i \in DOMAIN file : file'[i] = file[i]
        BY <1>1, <3>5, TornIsLine, GrowthKeeps
      <4> QED
        BY <1>1, <4>1 DEF Whole, ReadyInv, Decodable, TypeOK
    <3>7. Blocked' => Blocked
      BY <1>1, <3>5, TornIsLine, GrowthBlocks DEF Torn
    <3> QED
      BY <2>1, <3>2, <3>4, <3>6, <3>7 DEF ReadyInv, RevisionReady
  <2> QED
    BY <2>2, <2>3
<1> QED
  BY <1>2, <1>3 DEF ReadyInv, RevisionReady

(* An answer "revision_ready" is true when no line is lost: the event of the
   revision is then the last one that can be read, nobody but a call that
   begins withdraws the answer, and only a call could pause the run again. *)
THEOREM AnsweredIsResumable == Spec => []RevisionReady
<1>1. Init => ReadyInv
  BY DEF Init, ReadyInv, RevisionReady
<1>2. LogInvAttended /\ ReadyInv /\ [Next]_vars => ReadyInv'
  BY ReadyNext
<1>3. ReadyInv => RevisionReady
  BY DEF ReadyInv
<1> QED
  BY <1>1, <1>2, <1>3, InvAlways, PTL DEF Spec
-----------------------------------------------------------------------------
(* What the parent has been told                                           *)

\* The cursor is the number of a line, and what cannot be read has no number.
CursorIsNumber == cursor = 0 \/ \E i \in DOMAIN file : file[i].seq = cursor
TornIsUnnumbered == \A i \in DOMAIN file : ~Decodable(i) => file[i].seq = 0

CursorInv == (Attended => CursorIsNumber /\ TornIsUnnumbered) /\ InspectSeesNewest

LEMMA CountsGrow ==
    ASSUME NEW S, NEW T, S \subseteq T, IsFiniteSet(T), NEW n \in Nat, Cardinality(S) >= n
    PROVE  Cardinality(T) >= n
  BY FS_Subset, FS_CardinalityType

\* What a step adds to the file is a line with a new number, if any.
LEMMA NewLinesAreBeyond ==
    ASSUME LogInv, CursorInv, [Next]_vars, Attended
    PROVE  \E e \in Line : Grows(e) /\ (e = Torn \/ (e.seq > cursor /\ e.kind # "torn"))
<1> USE LogAssumption
<1>1. TypeOK /\ cursor \in Nat /\ revising \in Nat /\ \A c \in Call : next[c] \in Nat
  BY DEF LogInv, TypeOK, Number
<1>2. ASSUME Grows(Torn) PROVE \E e \in Line : Grows(e) /\ (e = Torn \/ (e.seq > cursor /\ e.kind # "torn"))
  BY <1>2, TornIsLine
<1>3. ASSUME NEW c \in Call, Writer(c), NEW kind \in {"other", "paused"}, Emit(c, kind)
      PROVE  \E e \in Line : Grows(e) /\ (e = Torn \/ (e.seq > cursor /\ e.kind # "torn"))
  <2> DEFINE e == [seq |-> next[c] + 1, kind |-> kind]
  <2>1. kind \in Kind
    BY DEF Kind
  <2>2. e \in Line /\ Grows(e)
    BY <1>1, <1>3, <2>1, Emitting
  <2>3. cursor <= next[c]
    BY <1>1, <1>3 DEF CursorInv, CursorIsNumber, LogInv, NumbersAreNew
  <2>4. e.seq > cursor /\ e.kind # "torn"
    BY <1>1, <2>3
  <2> HIDE DEF e
  <2> QED
    BY <2>2, <2>4
<1>4. ASSUME RecheckAppends
      PROVE  \E e \in Line : Grows(e) /\ (e = Torn \/ (e.seq > cursor /\ e.kind # "torn"))
  <2> DEFINE e == [seq |-> revising, kind |-> "revised"]
  <2>1. e \in Line /\ Grows(e)
    BY <1>1, <1>4, AppendGrows DEF RecheckAppends, TypeOK, Line, Kind
  <2>2. revising > cursor
    BY <1>1, <1>4 DEF RecheckAppends, CursorInv, CursorIsNumber, LogInv, NumbersAreNew
  <2>3. e.seq > cursor /\ e.kind # "torn"
    BY <2>2
  <2> HIDE DEF e
  <2> QED
    BY <2>1, <2>3
<1>5. ASSUME UNCHANGED file PROVE Grows(Torn)
  BY <1>5 DEF Grows
<1>6. ASSUME NEW c \in Call, Begin(c) \/ WorkerEnds(c) \/ Publish(c) \/ Return(c) \/ Abandon(c)
      PROVE  UNCHANGED file
  BY <1>6 DEF Begin, WorkerEnds, Publish, Return, Abandon
<1>7. ASSUME NEW c \in Call, WorkerAppends(c) \/ ReportEnd(c)
      PROVE  Writer(c) /\ \E kind \in {"other", "paused"} : Emit(c, kind)
  BY <1>7 DEF WorkerAppends, ReportEnd, Step, Writer, Attended
<1>8. ASSUME NEW c \in Call, WorkerTears(c) \/ ReportTears(c) PROVE Grows(Torn)
  BY <1>1, <1>8, HalfLineGrows DEF WorkerTears, ReportTears
<1>9. ASSUME RecheckNumbers \/ Inspect \/ UNCHANGED vars PROVE UNCHANGED file
  BY <1>9 DEF RecheckNumbers, Inspect, vars
<1>10. ASSUME RecheckTears \/ Crash PROVE Grows(Torn)
  BY <1>1, <1>5, <1>10, HalfLineGrows DEF RecheckTears, Crash
<1> QED
  BY <1>2, <1>3, <1>4, <1>5, <1>6, <1>7, <1>8, <1>9, <1>10 DEF Next
LEMMA CursorNext ==
    ASSUME LogInvAttended, CursorInv, [Next]_vars
    PROVE  CursorInv'
<1> SUFFICES ASSUME Attended'
             PROVE  CursorIsNumber' /\ TornIsUnnumbered' /\ InspectSeesNewest'
  BY DEF CursorInv, InspectSeesNewest
<1> USE LogAssumption
<1>1. TypeOK /\ TypeOK' /\ Attended /\ LogInv
  BY TypeNext, LooseIsRemembered DEF LogInvAttended
<1>2. PICK e \in Line : Grows(e) /\ (e = Torn \/ (e.seq > cursor /\ e.kind # "torn"))
  BY <1>1, NewLinesAreBeyond
<1>3. /\ DOMAIN file \subseteq DOMAIN file'
      /\ \A i \in DOMAIN file : file'[i] = file[i]
      /\ \A i \in DOMAIN file' \ DOMAIN file : file'[i] \in {e, Torn}
  BY <1>1, <1>2, GrowthKeeps
<1>4. cursor \in Nat /\ \A i \in DOMAIN file : file[i].seq \in Nat
  <2>1. \A i \in DOMAIN file : file[i] \in Line
    BY <1>1, LenProperties, ElementOfSeq DEF TypeOK
  <2> QED
    BY <1>1, <2>1 DEF TypeOK, Line, Number
<1>5. CursorIsNumber /\ TornIsUnnumbered /\ InspectSeesNewest
  BY <1>1 DEF CursorInv
<1>6. Torn.seq = 0 /\ Torn.kind = "torn"
  BY DEF Torn
<1>7. TornIsUnnumbered'
  BY <1>2, <1>3, <1>5, <1>6 DEF TornIsUnnumbered, Decodable
<1>8. CASE ~Inspect
  <2>1. cursor' = cursor /\ seen' = seen
    BY <1>8
       DEF Next, Begin, WorkerAppends, WorkerTears, WorkerEnds, Publish, ReportEnd, ReportTears,
           Return, Abandon, RecheckNumbers, RecheckAppends, RecheckTears, Crash, parent, vars
  <2>2. CursorIsNumber'
    BY <1>3, <1>5, <2>1 DEF CursorIsNumber
  <2>3. Told' = Told
    <3>1. \A i \in DOMAIN file : i \in Told' <=> i \in Told
      BY <1>3, <2>1 DEF Told, Decodable
    <3>2. \A i \in DOMAIN file' \ DOMAIN file : i \notin Told'
      BY <1>2, <1>3, <1>4, <1>6, <2>1 DEF Told, Decodable, Line, Number
    <3>3. Told \subseteq DOMAIN file /\ Told' \subseteq DOMAIN file'
      BY DEF Told
    <3> QED
      BY <1>3, <3>1, <3>2, <3>3
  <2>4. InspectSeesNewest'
    BY <1>1, <1>5, <2>1, <2>3 DEF InspectSeesNewest
  <2> QED
    BY <1>7, <2>2, <2>4
<1>9. CASE Inspect
  <2> DEFINE S == {cursor} \cup {file[i].seq : i \in Fresh}
  <2>1. file' = file /\ cursor' = Max(S)
        /\ seen' = seen \cup {i \in Fresh : Cardinality({j \in Fresh : j > i}) < Window}
    BY <1>9 DEF Inspect, NextCursor
  <2>2. Max(S) \in S /\ \A s \in S : Max(S) >= s
    <3>1. \A i \in Fresh : file[i].seq \in Nat /\ file[i].seq <= MaxLines
      <4>1. \A i \in DOMAIN file : file[i] \in Line
        BY <1>1, LenProperties, ElementOfSeq DEF TypeOK
      <4> QED
        BY <4>1 DEF Fresh, Line, Number
    <3>2. cursor <= MaxLines
      BY <1>1 DEF TypeOK, Number
    <3>3. S \in SUBSET Nat /\ S # {} /\ MaxLines \in Nat /\ \A s \in S : s <= MaxLines
      BY <1>4, <3>1, <3>2
    <3> QED
      BY <3>3, MaxOfBounded
  <2>3. cursor' >= cursor /\ cursor' \in Nat /\ \A i \in Fresh : cursor' >= file[i].seq
    BY <1>4, <2>1, <2>2 DEF Fresh
  <2>4. CursorIsNumber'
    <3>1. cursor' = cursor \/ \E i \in Fresh : cursor' = file[i].seq
      BY <2>1, <2>2
    <3> QED
      BY <1>5, <2>1, <3>1 DEF CursorIsNumber, Fresh
  <2>5. Told \subseteq Told' /\ Fresh \subseteq Told'
    <3>1. Told' = {i \in DOMAIN file : Decodable(i) /\ file[i].seq <= cursor'}
      BY <2>1 DEF Told, Decodable
    <3>2. \A i \in DOMAIN file : file[i].seq > cursor => Decodable(i)
      BY <1>4, <1>5 DEF TornIsUnnumbered
    <3> HIDE DEF S
    <3>3. Told \subseteq Told'
      BY <1>4, <2>3, <3>1 DEF Told
    <3>4. Fresh \subseteq Told'
      BY <2>3, <3>1, <3>2 DEF Fresh
    <3> QED
      BY <3>3, <3>4
  <2>6. IsFiniteSet(DOMAIN file) /\ Told' \subseteq DOMAIN file /\ Fresh \subseteq DOMAIN file
    <3>1. Len(file) \in Nat /\ DOMAIN file = 1 .. Len(file)
      BY <1>1, LenProperties DEF TypeOK
    <3>2. IsFiniteSet(1 .. Len(file))
      BY <3>1, FS_Interval
    <3>3. Told' \subseteq DOMAIN file' /\ Fresh \subseteq DOMAIN file
      BY DEF Told, Fresh
    <3> QED
      BY <2>1, <3>1, <3>2, <3>3
  <2>7. ASSUME NEW i \in Told' \ seen' PROVE Cardinality({j \in Told' : j > i}) >= Window
    <3>1. IsFiniteSet({j \in Told' : j > i}) /\ IsFiniteSet({j \in Fresh : j > i})
      BY <2>6, FS_Subset
    <3>2. CASE file[i].seq <= cursor
      <4>1. i \in Told \ seen
        BY <2>1, <2>7, <3>2 DEF Told, Decodable
      <4>2. Cardinality({j \in Told : j > i}) >= Window
        BY <1>1, <1>5, <4>1 DEF InspectSeesNewest
      <4>3. {j \in Told : j > i} \subseteq {j \in Told' : j > i}
        BY <2>5
      <4> QED
        BY <3>1, <4>2, <4>3, CountsGrow
    <3>3. CASE ~(file[i].seq <= cursor)
      <4>1. i \in Fresh
        BY <1>4, <2>6, <3>3 DEF Fresh
      <4>2. Cardinality({j \in Fresh : j > i}) \in Nat
        BY <3>1, FS_CardinalityType
      <4>3. Cardinality({j \in Fresh : j > i}) >= Window
        BY <2>1, <2>7, <4>1, <4>2
      <4>4. {j \in Fresh : j > i} \subseteq {j \in Told' : j > i}
        BY <2>5
      <4> QED
        BY <3>1, <4>3, <4>4, CountsGrow
    <3> QED
      BY <3>2, <3>3
  <2>8. InspectSeesNewest'
    BY <2>7 DEF InspectSeesNewest
  <2> QED
    BY <1>7, <2>4, <2>8
<1> QED
  BY <1>8, <1>9

(* The parent that asks with next_event_seq has seen the newest Window of the
   readable events up to its cursor, whatever the window: a new line is
   numbered beyond the cursor, because the cursor is the number of a line. *)
THEOREM NewestAreShown == Spec => []InspectSeesNewest
<1>1. Init => CursorInv
  BY DEF Init, CursorInv, CursorIsNumber, TornIsUnnumbered, InspectSeesNewest, Told
<1>2. LogInvAttended /\ CursorInv /\ [Next]_vars => CursorInv'
  BY CursorNext
<1>3. CursorInv => InspectSeesNewest
  BY DEF CursorInv
<1> QED
  BY <1>1, <1>2, <1>3, InvAlways, PTL DEF Spec

-----------------------------------------------------------------------------
(* What the parent's session holds                                         *)

\* What was published and what is still queued is what was appended, unless
\* the queue was lost with its process or its call.
QueueInv ==
    \A c \in Call :
        /\ thread[c] \notin {"gone", "lost"} => session[c] \o queue[c] = wrote[c]
        /\ thread[c] \in {"idle", "closed"} => queue[c] = <<>>

LEMMA QueueNext ==
    ASSUME TypeOK, QueueInv, [Next]_vars
    PROVE  QueueInv'
<1> SUFFICES ASSUME NEW c \in Call
             PROVE  /\ thread'[c] \notin {"gone", "lost"} => session'[c] \o queue'[c] = wrote'[c]
                    /\ thread'[c] \in {"idle", "closed"} => queue'[c] = <<>>
  BY DEF QueueInv
<1>1. /\ session[c] \in Seq(Number) /\ queue[c] \in Seq(Number) /\ wrote[c] \in Seq(Number)
      /\ thread \in [Call -> Thread] /\ session \in [Call \cup {"parent"} -> Seq(Number)]
      /\ queue \in [Call -> Seq(Number)] /\ wrote \in [Call -> Seq(Number)]
      /\ c # "parent"
  BY NoCallAssumption DEF TypeOK
<1>2. /\ thread[c] \notin {"gone", "lost"} => session[c] \o queue[c] = wrote[c]
      /\ thread[c] \in {"idle", "closed"} => queue[c] = <<>>
  BY DEF QueueInv
<1>3. ASSUME UNCHANGED <<session, queue, wrote>>,
             thread'[c] \notin {"gone", "lost"} => thread[c] \notin {"gone", "lost"},
             thread'[c] \in {"idle", "closed"} => thread[c] \in {"idle", "closed"} \/ queue[c] = <<>>
      PROVE  /\ thread'[c] \notin {"gone", "lost"} => session'[c] \o queue'[c] = wrote'[c]
             /\ thread'[c] \in {"idle", "closed"} => queue'[c] = <<>>
  BY <1>2, <1>3
<1> DEFINE Goal == /\ thread'[c] \notin {"gone", "lost"} => session'[c] \o queue'[c] = wrote'[c]
                   /\ thread'[c] \in {"idle", "closed"} => queue'[c] = <<>>
<1>4. ASSUME NEW d \in Call, NEW kind \in {"other", "paused"}, Emit(d, kind), session' = session,
             thread[d] \notin {"idle", "closed", "gone", "lost"}, thread'[d] \notin {"idle", "closed"},
             \A b \in Call \ {d} : thread'[b] = thread[b]
      PROVE  Goal
  <2>1. /\ queue' = [queue EXCEPT ![d] = Append(@, next'[d])]
        /\ wrote' = [wrote EXCEPT ![d] = Append(@, next'[d])]
    BY <1>4 DEF Emit
  <2>2. next'[d] \in Number
    <3>1. kind \in Kind
      BY DEF Kind
    <3> QED
      BY <1>4, <3>1, Emitting
  <2>3. CASE c # d
    BY <1>1, <1>2, <1>4, <2>1, <2>3
  <2>4. CASE c = d
    <3>1. queue'[c] = Append(queue[c], next'[d]) /\ wrote'[c] = Append(wrote[c], next'[d])
      BY <1>1, <2>1, <2>4
    <3>2. session[c] \o Append(queue[c], next'[d]) = Append(session[c] \o queue[c], next'[d])
      BY <1>1, <2>2
    <3> QED
      BY <1>2, <1>4, <2>4, <3>1, <3>2
  <2> QED
    BY <2>3, <2>4
<1>5. ASSUME NEW d \in Call, Publish(d) PROVE Goal
  <2>1. /\ queue[d] # <<>> /\ UNCHANGED <<thread, wrote>>
        /\ session' = [session EXCEPT ![d] = Append(@, Head(queue[d]))]
        /\ queue' = [queue EXCEPT ![d] = Tail(@)]
    BY <1>5 DEF Publish
  <2>2. CASE c # d
    BY <1>1, <1>2, <2>1, <2>2
  <2>3. CASE c = d
    <3>1. session'[c] = Append(session[c], Head(queue[c])) /\ queue'[c] = Tail(queue[c])
      BY <1>1, <2>1, <2>3
    <3>2. Append(session[c], Head(queue[c])) \o Tail(queue[c]) = session[c] \o queue[c]
      BY <1>1, <2>1, <2>3
    <3> QED
      BY <1>2, <2>1, <2>3, <3>1, <3>2
  <2> QED
    BY <2>2, <2>3
<1>6. ASSUME NEW d \in Call, Begin(d) \/ WorkerTears(d) \/ WorkerEnds(d) \/ ReportTears(d)
      PROVE  Goal
  BY <1>1, <1>3, <1>6 DEF Begin, WorkerTears, WorkerEnds, ReportTears, Step, Thread
<1>7. ASSUME NEW d \in Call, Return(d) PROVE Goal
  BY <1>1, <1>3, <1>7 DEF Return, Step
<1>8. ASSUME NEW d \in Call, Abandon(d) PROVE Goal
  BY <1>1, <1>2, <1>8 DEF Abandon, Thread
<1>9. ASSUME NEW d \in Call, WorkerAppends(d) PROVE Goal
  BY <1>4, <1>9 DEF WorkerAppends
<1>10. ASSUME NEW d \in Call, ReportEnd(d) PROVE Goal
  <2>1. PICK kind \in {"other", "paused"} : Emit(d, kind)
    BY <1>10 DEF ReportEnd
  <2>2. /\ thread[d] \in {"rolled_back", "failed"} /\ session' = session
        /\ thread' = [thread EXCEPT ![d] = "reported"]
    BY <1>10 DEF ReportEnd, Step
  <2> QED
    BY <1>1, <1>4, <2>1, <2>2
<1>11. ASSUME RecheckAppends PROVE Goal
  <2>1. UNCHANGED <<thread, queue, wrote>> /\ session' = [session EXCEPT !["parent"] = Append(@, revising)]
    BY <1>11 DEF RecheckAppends, workers
  <2> QED
    BY <1>1, <1>2, <2>1
<1>12. ASSUME RecheckNumbers \/ RecheckTears \/ Inspect \/ UNCHANGED vars PROVE Goal
  <2>1. UNCHANGED <<thread, queue, wrote, session>>
    BY <1>12 DEF RecheckNumbers, RecheckTears, Inspect, workers, vars
  <2> QED
    BY <1>2, <2>1
<1>13. ASSUME Crash PROVE Goal
  <2>1. /\ queue' = [b \in Call |-> <<>>] /\ UNCHANGED <<wrote, session>>
        /\ thread'[c] = CASE thread[c] \in {"idle", "closed", "lost"} -> thread[c]
                          [] thread[c] = "loose" -> "lost"
                          [] OTHER -> "gone"
    BY <1>13 DEF Crash
  <2>2. thread'[c] \notin {"gone", "lost"} => thread[c] \in {"idle", "closed"}
    BY <2>1
  <2>3. queue'[c] = <<>>
    BY <2>1
  <2> QED
    BY <1>2, <2>1, <2>2, <2>3
<1> HIDE DEF Goal
<1>14. Goal
  BY <1>5, <1>6, <1>7, <1>8, <1>9, <1>10, <1>11, <1>12, <1>13 DEF Next
<1> QED
  BY <1>14 DEF Goal

(* A call that returned has published all it appended, once and in order:
   events leave the queue only for the session, and the call returns with its
   queue empty; a worker that outlives a call has a queue of its own. *)
THEOREM NothingIsLeftBehind == Spec => []PublishedAll
<1>1. Init => QueueInv
  BY NoCallAssumption DEF Init, QueueInv
<1>2. TypeOK /\ QueueInv /\ [Next]_vars => QueueInv'
  BY QueueNext
<1>3. TypeOK /\ QueueInv => PublishedAll
  <2> SUFFICES ASSUME TypeOK, QueueInv, NEW c \in Call, thread[c] = "closed"
               PROVE  session[c] = wrote[c]
    BY DEF PublishedAll
  <2>1. session[c] \in Seq(Number) /\ queue[c] = <<>> /\ session[c] \o queue[c] = wrote[c]
    BY DEF TypeOK, QueueInv
  <2>2. session[c] \o <<>> = session[c]
    BY <2>1
  <2> QED
    BY <2>1, <2>2
<1> QED
  BY <1>1, <1>2, <1>3, TypeCorrect, PTL DEF Spec
=============================================================================
