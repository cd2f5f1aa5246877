---------------------------- MODULE OutcomeProofs ----------------------------
(***************************************************************************)
(* What a finished proof is used for: the write it authorises and the      *)
(* report it is told in.  The two share nothing but this module.           *)
(*                                                                         *)
(* The write, for every number of callers and actions and every choice of  *)
(* faults: an action is called at most once, in order, and a receipt is    *)
(* earned; SafeWrite implements ActionLedger.                              *)
(*                                                                         *)
(* The report, for any accepted plan and any requirements: what the Kernel *)
(* aggregates is what no open CHECK can change (VerdictIsForced) and       *)
(* covers every facet (FacetNotBypassed); a report says only that          *)
(* (ReportIsEarned), is accepted when it is rendered from the packet of    *)
(* the moment (RenderedIsAccepted) and refused when what it states has     *)
(* changed (StaleDraftRefused).  A plan is a finite acyclic graph, so a    *)
(* statement that climbs from the CHECKs to a node holds of every node     *)
(* (Grounded).                                                             *)
(***************************************************************************)
EXTENDS SafeWrite, ConsumerReport, ClosureLemmas

\* Between its INSERT and the end of its finally clause, a caller owns a row.
Busy(c) == pc[c] \in {"dispatch", "await", "readback", "settle"}

Done(i) == row[i].status = "SUCCEEDED"

-----------------------------------------------------------------------------
(* The inductive invariant                                                 *)

\* A row that is owned is still the bare attempt, and has one owner: the
\* primary key lets only one INSERT through.
Ownership ==
    /\ \A c \in Caller : Busy(c) => row[idx[c]] = Attempt
    /\ \A c, d \in Caller : Busy(c) /\ Busy(d) /\ idx[c] = idx[d] => c = d

\* What the calls made say about the rows, and what the rows say about them.
CallCount ==
    /\ \A i \in Action : calls[i] \in {0, 1}
    /\ \A i \in Action : row[i].status = "none" => calls[i] = 0
    /\ \A i \in Action : row[i].result # "none" => calls[i] = 1
    /\ \A c \in Caller : pc[c] = "dispatch" => calls[idx[c]] = 0
    /\ \A c \in Caller : pc[c] \in {"await", "readback", "settle"} => calls[idx[c]] = 1

\* An established row rests on an answer and on a change seen in the ERP.
Grounds ==
    /\ \A i \in Action :
         Done(i) => row[i].result = "success" /\ calls[i] = 1 /\ changed[i]
    /\ \A c \in Caller : pc[c] = "decide" /\ seen[c].changed => changed[idx[c]]
    /\ \A c \in Caller : pc[c] = "readback" => reply[c] \in {"failure", "success"}
    /\ \A c \in Caller :
         pc[c] = "settle" => /\ verdict[c] # "none"
                             /\ verdict[c] = "SUCCEEDED"
                                  => reply[c] = "success" /\ changed[idx[c]]

\* Rows are recorded in the order of the actions, each on established ones.
Order ==
    /\ \A i \in Action : row[i].status # "none" => \A j \in 1 .. i - 1 : Done(j)
    /\ \A c \in Caller : \A j \in 1 .. idx[c] - 1 : Done(j)
    /\ \A c \in Caller : pc[c] = "receipt" => \A j \in Action : Done(j)
    /\ issued => \A j \in Action : Done(j)

\* A caller's copy may be old, but only in ways the rows cannot take back.
Copies ==
    \A c \in Caller, i \in Action :
        existing[c][i].status # "none" =>
            /\ row[i].status # "none"
            /\ existing[c][i].status = "SUCCEEDED" => Done(i)
            /\ existing[c][i].status = "UNCERTAIN" /\ existing[c][i].result = "success"
                 => row[i].result = "success" /\ row[i].status \in {"UNCERTAIN", "SUCCEEDED"}

IInv == TypeOK /\ Ownership /\ CallCount /\ Grounds /\ Order /\ Copies

LEMMA IInvInit == Init => IInv
<1> SUFFICES ASSUME Init PROVE IInv
  OBVIOUS
<1>1. 1 \in Action
  BY ActionAssumption DEF Action
<1>2. NoRow \in Row /\ NoRow.status = "none" /\ NoRow.result = "none"
  BY DEF NoRow, Row, RowStatus, Result
<1>3. TypeOK
  BY <1>1, <1>2 DEF Init, TypeOK, NoRows, Target, Untouched, PC, Result, RowStatus
<1>4. Ownership /\ CallCount /\ Grounds /\ Copies
  BY <1>2 DEF Init, NoRows, Ownership, CallCount, Grounds, Copies, Busy, Done
<1>5. Order
  BY <1>2 DEF Init, NoRows, Order, Done
<1> QED
  BY <1>3, <1>4, <1>5 DEF IInv

-----------------------------------------------------------------------------
(* Steps that several actions share                                        *)

\* Leaving resets the locals of a caller and of no other.
LEMMA LeaveTypes ==
    ASSUME TypeOK, NEW c \in Caller, Leave(c)
    PROVE  /\ pc' \in [Caller -> PC] /\ idx' \in [Caller -> Action]
           /\ existing' \in [Caller -> [Action -> Row]] /\ seen' \in [Caller -> Target]
           /\ reply' \in [Caller -> Result] /\ verdict' \in [Caller -> RowStatus]
           /\ pc'[c] = "idle" /\ idx'[c] = 1 /\ existing'[c] = NoRows
           /\ \A d \in Caller \ {c} :
                /\ pc'[d] = pc[d] /\ idx'[d] = idx[d]
                /\ existing'[d] = existing[d] /\ seen'[d] = seen[d]
                /\ reply'[d] = reply[d] /\ verdict'[d] = verdict[d]
<1>1. 1 \in Action
  BY ActionAssumption DEF Action
<1>2. NoRows \in [Action -> Row]
  BY DEF NoRows, NoRow, Row, Result, RowStatus
<1>3. Untouched \in Target /\ "none" \in Result /\ "none" \in RowStatus /\ "idle" \in PC
  BY DEF Untouched, Target, Result, RowStatus, PC
<1> QED
  BY <1>1, <1>2, <1>3 DEF Leave, Goto, TypeOK

\* A caller that leaves without touching anything keeps the invariant.
LEMMA Leaving ==
    ASSUME IInv, NEW c \in Caller, Leave(c), UNCHANGED <<row, erp, calls, issued>>
    PROVE  IInv'
<1>1. TypeOK'
  BY LeaveTypes DEF erp, IInv, TypeOK
<1>2. /\ \A d \in Caller \ {c} : /\ pc'[d] = pc[d] /\ idx'[d] = idx[d]
                                 /\ existing'[d] = existing[d] /\ seen'[d] = seen[d]
                                 /\ reply'[d] = reply[d] /\ verdict'[d] = verdict[d]
      /\ pc'[c] = "idle" /\ idx'[c] = 1 /\ existing'[c] = NoRows
  BY LeaveTypes DEF IInv
<1>3. Ownership' /\ CallCount' /\ Grounds'
  BY <1>2 DEF erp, IInv, Ownership, CallCount, Grounds, Busy, Done
<1>4. Order'
  BY <1>2 DEF IInv, Order, Done
<1>5. Copies'
  BY <1>2 DEF IInv, Copies, Done, NoRows, NoRow
<1> QED
  BY <1>1, <1>3, <1>4, <1>5 DEF IInv

\* A caller that goes on after its action is established keeps it too.
LEMMA Advancing ==
    ASSUME IInv, NEW c \in Caller, Advance(c), UNCHANGED <<erp, calls, issued>>,
           row' \in [Action -> Row],
           \A i \in Action \ {idx[c]} : row'[i] = row[i],
           row'[idx[c]] = [status |-> "SUCCEEDED", result |-> "success"],
           row[idx[c]].status # "none",
           calls[idx[c]] = 1, changed[idx[c]],
           \A d \in Caller \ {c} : Busy(d) => idx[d] # idx[c]
    PROVE  IInv'
<1>1. TypeOK'
  BY ActionAssumption
  DEF Action, Advance, Goto, erp, IInv, TypeOK, Result, RowStatus, Target, Untouched, PC
<1>a. N \in Nat \ {0} /\ Action = 1 .. N
  BY ActionAssumption DEF Action
<1>2. /\ \A d \in Caller \ {c} : /\ pc'[d] = pc[d] /\ idx'[d] = idx[d]
                                 /\ seen'[d] = seen[d]
                                 /\ reply'[d] = reply[d] /\ verdict'[d] = verdict[d]
      /\ pc'[c] \in {"receipt", "read"} /\ (pc'[c] = "receipt" => idx[c] = N)
      /\ idx'[c] = (IF idx[c] = N THEN idx[c] ELSE idx[c] + 1)
      /\ existing' = existing
      /\ idx[c] \in 1 .. N
  BY <1>a DEF Advance, Goto, IInv, TypeOK
<1>3. \A i \in Action : Done(i) => Done(i)'
  BY DEF Done
<1>4. row'[idx[c]].status = "SUCCEEDED" /\ row'[idx[c]].result = "success"
  OBVIOUS
<1>5. Ownership'
  <2>1. \A d \in Caller : Busy(d)' => d # c /\ Busy(d)
    BY <1>2 DEF Busy
  <2>2. \A d \in Caller : Busy(d)' => row'[idx'[d]] = row[idx[d]] /\ idx'[d] = idx[d]
    BY <1>2, <2>1 DEF IInv, TypeOK
  <2> QED
    BY <2>1, <2>2 DEF IInv, Ownership
<1>6. CallCount' /\ Grounds'
  <2>1. CallCount'
    <3>1. \A i \in Action : /\ row'[i].status = "none" => row[i].status = "none"
                            /\ row'[i].result # "none"
                                 => row[i].result # "none" \/ i = idx[c]
      BY <1>4
    <3>2. \A d \in Caller : pc'[d] \in {"dispatch", "await", "readback", "settle"}
                              => d # c
      BY <1>2
    <3> QED
      BY <1>2, <3>1, <3>2 DEF IInv, CallCount
  <2>2. \A i \in Action :
          Done(i)' => row'[i].result = "success" /\ calls'[i] = 1 /\ changed'[i]
    BY <1>4 DEF erp, IInv, Grounds, Done
  <2>3. \A d \in Caller : pc'[d] \in {"decide", "readback", "settle"} => d # c
    BY <1>2
  <2>4. UNCHANGED changed
    BY DEF erp
  <2>5. Grounds'
    BY <1>2, <2>2, <2>3, <2>4 DEF IInv, Grounds, Done
  <2> QED
    BY <2>1, <2>5
<1>7. Order'
  <2>1. \A i \in Action : row'[i].status # "none" => \A j \in 1 .. i - 1 : Done(j)'
    BY <1>2, <1>3, <1>a DEF IInv, Order
  <2>2. \A d \in Caller : \A j \in 1 .. idx'[d] - 1 : Done(j)'
    <3>1. \A j \in 1 .. idx'[c] - 1 : Done(j)'
      <4> TAKE j \in 1 .. idx'[c] - 1
      <4>1. j \in 1 .. idx[c] - 1 \/ j = idx[c]
        BY <1>2
      <4>2. j \in Action /\ \A k \in 1 .. idx[c] - 1 : Done(k)
        BY <1>2, <1>a, <4>1 DEF IInv, Order
      <4> QED
        BY <1>3, <1>4, <4>1, <4>2 DEF Done
    <3>2. ASSUME NEW d \in Caller \ {c} PROVE \A j \in 1 .. idx'[d] - 1 : Done(j)'
      <4>1. idx'[d] = idx[d] /\ idx[d] \in 1 .. N
        BY <1>2, <1>a DEF IInv, TypeOK
      <4>2. \A j \in 1 .. idx[d] - 1 : j \in Action /\ Done(j)
        BY <1>a, <4>1 DEF IInv, Order
      <4> QED
        BY <1>3, <4>1, <4>2
    <3> QED
      BY <3>1, <3>2
  <2>3. \A d \in Caller : pc'[d] = "receipt" => \A j \in Action : Done(j)'
    <3>1. ASSUME idx[c] = N, NEW j \in Action PROVE Done(j)'
      <4>1. j \in 1 .. idx[c] - 1 \/ j = idx[c]
        BY <1>a, <3>1
      <4> QED
        BY <1>3, <1>4, <4>1 DEF IInv, Order, Done
    <3> QED
      BY <1>2, <1>3, <3>1 DEF IInv, Order
  <2>4. issued' => \A j \in Action : Done(j)'
    BY <1>3 DEF IInv, Order
  <2> QED
    BY <2>1, <2>2, <2>3, <2>4 DEF Order, Done
<1>8. Copies'
  BY <1>2, <1>3, <1>4 DEF IInv, Copies, Done
<1> QED
  BY <1>1, <1>5, <1>6, <1>7, <1>8 DEF IInv

-----------------------------------------------------------------------------
(* Every step keeps the invariant                                          *)

LEMMA IInvStep ==
    ASSUME IInv, [Next]_vars
    PROVE  IInv'
<1>t. TypeOK
  BY DEF IInv
<1>1. ASSUME NEW c \in Caller, Begin(c) PROVE IInv'
  <2>1. TypeOK'
    BY <1>1 DEF Begin, Goto, erp, IInv, TypeOK, Row, RowStatus, Result, Target, PC
  <2>2. Ownership' /\ CallCount' /\ Grounds'
    BY <1>1
    DEF Begin, Goto, erp, IInv, TypeOK, Ownership, CallCount, Grounds, Busy, Done
  <2>3. Order' /\ Copies'
    BY <1>1 DEF Begin, Goto, erp, IInv, TypeOK, Order, Copies, Done
  <2> QED
    BY <2>1, <2>2, <2>3 DEF IInv
<1>2. ASSUME NEW c \in Caller, ReadSnapshot(c) PROVE IInv'
  <2>1. CASE Leave(c)
    BY <1>2, <2>1, Leaving DEF ReadSnapshot
  <2>2. CASE Goto(c, "read") /\ UNCHANGED <<idx, existing, seen, reply, verdict>>
    <3>1. TypeOK'
      BY <1>2, <2>2 DEF ReadSnapshot, Goto, erp, IInv, TypeOK, PC
    <3>2. Ownership' /\ CallCount' /\ Grounds'
      BY <1>2, <2>2
      DEF ReadSnapshot, Goto, erp, IInv, TypeOK, Ownership, CallCount, Grounds, Busy,
          Done
    <3>3. Order' /\ Copies'
      BY <1>2, <2>2 DEF ReadSnapshot, Goto, IInv, TypeOK, Order, Copies, Done
    <3> QED
      BY <3>1, <3>2, <3>3 DEF IInv
  <2> QED
    BY <1>2, <2>1, <2>2 DEF ReadSnapshot
<1>3. ASSUME NEW c \in Caller, ReadState(c) PROVE IInv'
  <2>1. TypeOK'
    BY <1>3 DEF ReadState, Goto, erp, IInv, TypeOK, Row, RowStatus, Result, Target, PC
  <2>2. Ownership' /\ CallCount' /\ Grounds'
    BY <1>3
    DEF ReadState, Goto, erp, IInv, TypeOK, Ownership, CallCount, Grounds, Busy, Done
  <2>3. Order' /\ Copies'
    BY <1>3 DEF ReadState, Goto, erp, IInv, TypeOK, Order, Copies, Done
  <2> QED
    BY <2>1, <2>2, <2>3 DEF IInv
<1>4. ASSUME NEW c \in Caller, Recover(c) PROVE IInv'
  <2>1. /\ idx[c] \in Action /\ Prior(c).status \in {"UNCERTAIN", "SUCCEEDED"}
        /\ Prior(c).result = "success" /\ changed[idx[c]]
    BY <1>4, <1>t DEF Recover, Recoverable, IInv, Grounds, TypeOK
  <2>2. /\ row[idx[c]].result = "success" /\ row[idx[c]].status # "none"
        /\ Prior(c).status = "SUCCEEDED" => Done(idx[c])
        /\ calls[idx[c]] = 1
    BY <2>1 DEF Prior, IInv, Copies, CallCount, Grounds, Done
  <2>3. \A d \in Caller \ {c} : Busy(d) => idx[d] # idx[c]
    BY <2>2 DEF IInv, Ownership, Attempt
  <2>4. row[idx[c]] = [status |-> row[idx[c]].status, result |-> "success"]
    BY <1>t, <2>1, <2>2 DEF TypeOK, Row
  <2>5. /\ row' \in [Action -> Row]
        /\ \A i \in Action \ {idx[c]} : row'[i] = row[i]
        /\ row'[idx[c]] = [status |-> "SUCCEEDED", result |-> "success"]
    <3>1. CASE row' = row /\ Done(idx[c])
      BY <1>t, <2>4, <3>1 DEF TypeOK, Done
    <3>2. CASE row' = [row EXCEPT ![idx[c]].status = "SUCCEEDED"]
      <4>1. row' = [row EXCEPT ![idx[c]] = [@ EXCEPT !.status = "SUCCEEDED"]]
        BY <3>2
      <4>2. [row[idx[c]] EXCEPT !.status = "SUCCEEDED"]
              = [status |-> "SUCCEEDED", result |-> "success"]
        BY <2>4
      <4>3. [status |-> "SUCCEEDED", result |-> "success"] \in Row
        BY DEF Row, RowStatus, Result
      <4> QED
        BY <1>t, <2>1, <4>1, <4>2, <4>3 DEF TypeOK
    <3> QED
      BY <1>4, <2>2, <3>1, <3>2 DEF Recover
  <2> QED
    BY <1>4, <2>1, <2>2, <2>3, <2>5, Advancing DEF Recover
<1>5. ASSUME NEW c \in Caller, Block(c) PROVE IInv'
  BY <1>5, Leaving DEF Block
<1>6. ASSUME NEW c \in Caller, Stale(c) PROVE IInv'
  BY <1>6, Leaving DEF Stale
<1>7. ASSUME NEW c \in Caller, ReadRaises(c) PROVE IInv'
  BY <1>7, Leaving DEF ReadRaises
<1>8. ASSUME NEW c \in Caller, StoreFails(c) PROVE IInv'
  BY <1>8, Leaving DEF StoreFails
<1>9. ASSUME NEW c \in Caller, Crash(c) PROVE IInv'
  BY <1>9, Leaving DEF Crash
<1>10. ASSUME NEW c \in Caller, RecordAttempt(c) PROVE IInv'
  <2>1. CASE row[idx[c]].status # "none"
    BY <1>10, <2>1, Leaving DEF RecordAttempt
  <2>2. CASE row[idx[c]].status = "none"
    <3>1. /\ row' = [row EXCEPT ![idx[c]] = Attempt]
          /\ pc' = [pc EXCEPT ![c] = "dispatch"]
          /\ UNCHANGED <<idx, existing, seen, reply, verdict, erp, calls, issued>>
      BY <1>10, <2>2 DEF RecordAttempt, Goto
    <3>2. Attempt \in Row /\ Attempt.status = "UNCERTAIN" /\ Attempt.result = "none"
      BY DEF Attempt, Row, RowStatus, Result
    <3>3. TypeOK'
      BY <1>t, <3>1, <3>2 DEF erp, TypeOK, PC
    <3>4. \A d \in Caller : Busy(d) => idx[d] # idx[c]
      BY <2>2 DEF IInv, Ownership, Attempt
    <3>5. Ownership'
      BY <1>t, <3>1, <3>4 DEF IInv, TypeOK, Ownership, Busy
    <3>6. CallCount' /\ Grounds'
      BY <1>t, <2>2, <3>1, <3>2, <3>4 DEF erp, IInv, TypeOK, CallCount, Grounds, Done
    <3>7. Order'
      BY <1>t, <2>2, <3>1, <3>2 DEF IInv, TypeOK, Order, Done
    <3>8. Copies'
      BY <1>t, <2>2, <3>1, <3>2 DEF IInv, TypeOK, Copies, Done
    <3> QED
      BY <3>3, <3>5, <3>6, <3>7, <3>8 DEF IInv
  <2> QED
    BY <2>1, <2>2
<1>11. ASSUME NEW c \in Caller, Dispatch(c) PROVE IInv'
  <2>1. TypeOK'
    BY <1>11
    DEF Dispatch, Goto, Ownership, Attempt, IInv, TypeOK, Row, RowStatus, Result,
        Target, PC
  <2>2. Ownership' /\ CallCount' /\ Grounds'
    BY <1>11
    DEF Dispatch, Goto, Ownership, Attempt, IInv, TypeOK, Ownership, CallCount, Grounds,
        Busy, Done
  <2>3. Order' /\ Copies'
    BY <1>11 DEF Dispatch, Goto, Ownership, Attempt, IInv, TypeOK, Order, Copies, Done
  <2> QED
    BY <2>1, <2>2, <2>3 DEF IInv
<1>12. ASSUME NEW c \in Caller, Answer(c) PROVE IInv'
  <2>1. TypeOK'
    BY <1>12 DEF Answer, Goto, erp, IInv, TypeOK, Row, RowStatus, Result, Target, PC
  <2>2. Ownership' /\ CallCount' /\ Grounds'
    BY <1>12
    DEF Answer, Goto, erp, IInv, TypeOK, Ownership, CallCount, Grounds, Busy, Done
  <2>3. Order' /\ Copies'
    BY <1>12 DEF Answer, Goto, erp, IInv, TypeOK, Order, Copies, Done
  <2> QED
    BY <2>1, <2>2, <2>3 DEF IInv
<1>13. ASSUME NEW c \in Caller, ReadBack(c) PROVE IInv'
  <2>1. PICK v \in {"UNCERTAIN", "FAILED", "SUCCEEDED"} :
          /\ verdict' = [verdict EXCEPT ![c] = v]
          /\ v = "SUCCEEDED" => reply[c] = "success" /\ changed[idx[c]]
    BY <1>13 DEF ReadBack, Verdict
  <2>2. TypeOK'
    BY <1>13, <2>1 DEF ReadBack, Goto, erp, IInv, TypeOK, RowStatus, PC
  <2>3. Ownership' /\ CallCount' /\ Grounds'
    BY <1>13, <2>1
    DEF ReadBack, Goto, erp, IInv, TypeOK, Ownership, CallCount, Grounds, Busy, Done
  <2>4. Order' /\ Copies'
    BY <1>13 DEF ReadBack, Goto, IInv, TypeOK, Order, Copies, Done
  <2> QED
    BY <2>2, <2>3, <2>4 DEF IInv
<1>14. ASSUME NEW c \in Caller, Settle(c) PROVE IInv'
  <2> DEFINE settled == [status |-> verdict[c], result |-> reply[c]]
  <2>1. /\ idx[c] \in Action /\ row[idx[c]] = Attempt /\ calls[idx[c]] = 1
        /\ verdict[c] # "none"
        /\ verdict[c] = "SUCCEEDED" => reply[c] = "success" /\ changed[idx[c]]
        /\ \A d \in Caller \ {c} : Busy(d) => idx[d] # idx[c]
    BY <1>14, <1>t DEF Settle, IInv, Ownership, CallCount, Grounds, Busy, TypeOK
  <2>2. settled \in Row /\ settled.status = verdict[c] /\ settled.result = reply[c]
    BY <1>t DEF TypeOK, Row
  <2>3. row' = [row EXCEPT ![idx[c]] = settled]
    BY <1>14 DEF Settle
  <2>4. Attempt.status = "UNCERTAIN" /\ Attempt.result = "none"
    BY DEF Attempt
  <2> HIDE DEF settled
  <2>5. CASE verdict[c] = "SUCCEEDED"
    <3>1. settled = [status |-> "SUCCEEDED", result |-> "success"]
      BY <2>1, <2>5 DEF settled
    <3> QED
      BY <1>14, <1>t, <2>1, <2>2, <2>3, <2>4, <2>5, <3>1, Advancing
      DEF Settle, TypeOK, Done
  <2>6. CASE verdict[c] # "SUCCEEDED"
    <3>1. Leave(c) /\ UNCHANGED <<erp, calls, issued>>
      BY <1>14, <2>6 DEF Settle
    <3>2. TypeOK'
      BY <1>t, <2>2, <2>3, <3>1, LeaveTypes DEF erp, TypeOK
    <3>3. /\ \A d \in Caller \ {c} :
               /\ pc'[d] = pc[d] /\ idx'[d] = idx[d]
               /\ existing'[d] = existing[d] /\ seen'[d] = seen[d]
               /\ reply'[d] = reply[d] /\ verdict'[d] = verdict[d]
          /\ pc'[c] = "idle" /\ idx'[c] = 1 /\ existing'[c] = NoRows
      BY <1>t, <3>1, LeaveTypes
    <3>4. /\ \A i \in Action \ {idx[c]} : row'[i] = row[i]
          /\ row'[idx[c]] = settled
          /\ row'[idx[c]].status \notin {"none", "SUCCEEDED"}
          /\ row[idx[c]].status \notin {"none", "SUCCEEDED"}
      BY <1>t, <2>1, <2>2, <2>3, <2>4, <2>6 DEF TypeOK
    <3>5. \A i \in Action : /\ Done(i)' = Done(i)
                            /\ row'[i].status = "none" <=> row[i].status = "none"
      BY <3>4 DEF Done
    <3>6. Ownership'
      <4>1. \A d \in Caller : Busy(d)' => d # c /\ Busy(d) /\ idx'[d] = idx[d]
        BY <3>3 DEF Busy
      <4>2. \A d \in Caller : Busy(d)' => row'[idx'[d]] = row[idx[d]]
        BY <1>t, <2>1, <3>4, <4>1 DEF TypeOK
      <4> QED
        BY <4>1, <4>2 DEF IInv, Ownership
    <3>7. CallCount' /\ Grounds'
      <4>1. \A i \in Action : row'[i].result # "none" => row[i].result # "none" \/ i = idx[c]
        BY <3>4
      <4>2. CallCount'
        BY <2>1, <3>1, <3>3, <3>5, <4>1 DEF IInv, CallCount
      <4>3. Grounds'
        BY <3>1, <3>3, <3>4, <3>5 DEF erp, IInv, Grounds, Done
      <4> QED
        BY <4>2, <4>3
    <3>9. Order'
      <4>1. \A i \in Action : row'[i].status # "none" => \A j \in 1 .. i - 1 : Done(j)'
        <5>1. \A i \in Action : \A j \in 1 .. i - 1 : j \in Action
          BY ActionAssumption DEF Action
        <5> QED
          BY <3>5, <5>1 DEF IInv, Order
      <4>2. \A d \in Caller : \A j \in 1 .. idx'[d] - 1 : Done(j)'
        <5>1. \A d \in Caller : \A j \in 1 .. idx[d] - 1 : j \in Action
          BY <1>t, ActionAssumption DEF Action, TypeOK
        <5>2. \A j \in 1 .. idx'[c] - 1 : FALSE
          BY <3>3
        <5> QED
          BY <3>3, <3>5, <5>1, <5>2 DEF IInv, Order
      <4>3. \A d \in Caller : pc'[d] = "receipt" => \A j \in Action : Done(j)'
        BY <3>3, <3>5 DEF IInv, Order
      <4>4. issued' => \A j \in Action : Done(j)'
        BY <3>1, <3>5 DEF IInv, Order
      <4> QED
        BY <4>1, <4>2, <4>3, <4>4 DEF Order, Done
    <3>8. Copies'
      <4>1. \A i \in Action : existing'[c][i].status = "none"
        BY <3>3 DEF NoRows, NoRow
      <4>2. ASSUME NEW d \in Caller \ {c}, NEW i \in Action, existing[d][i].status # "none"
            PROVE  /\ row'[i].status # "none"
                   /\ existing[d][i].status = "SUCCEEDED" => Done(i)'
                   /\ existing[d][i].status = "UNCERTAIN"
                         /\ existing[d][i].result = "success"
                        => /\ row'[i].result = "success"
                           /\ row'[i].status \in {"UNCERTAIN", "SUCCEEDED"}
        <5>1. CASE i # idx[c]
          BY <3>4, <3>5, <4>2, <5>1 DEF IInv, Copies
        <5>2. CASE i = idx[c]
          BY <2>1, <2>4, <3>4, <4>2, <5>2 DEF IInv, Copies, Done
        <5> QED
          BY <5>1, <5>2
      <4> QED
        BY <3>3, <4>1, <4>2 DEF Copies, Done
    <3> QED
      BY <3>2, <3>6, <3>7, <3>8, <3>9 DEF IInv
  <2> QED
    BY <2>5, <2>6
<1>15. ASSUME NEW c \in Caller, Issue(c) PROVE IInv'
  <2>1. TypeOK'
    BY <1>15, <1>t, LeaveTypes DEF Issue, erp, TypeOK
  <2>2. /\ Leave(c) /\ UNCHANGED <<row, erp, calls>>
        /\ \A j \in Action : Done(j)
    BY <1>15 DEF Issue, IInv, Order
  <2>3. Ownership' /\ CallCount' /\ Grounds'
    BY <2>2
    DEF Leave, Goto, erp, IInv, TypeOK, Ownership, CallCount, Grounds, Busy, Done
  <2>4. Order' /\ Copies'
    BY <2>2 DEF Leave, Goto, IInv, TypeOK, Order, Copies, Done, NoRows, NoRow
  <2> QED
    BY <2>1, <2>3, <2>4 DEF IInv
<1>16. ASSUME NEW i \in Action, TakeEffect(i) PROVE IInv'
  BY <1>16
  DEF TakeEffect, local, IInv, TypeOK, Ownership, CallCount, Grounds, Order, Copies,
      Busy, Done
<1>17. ASSUME NEW i \in Action, Reject(i) PROVE IInv'
  BY <1>17
  DEF Reject, local, IInv, TypeOK, Ownership, CallCount, Grounds, Order, Copies, Busy,
      Done
<1>18. ASSUME NEW i \in Action, Edit(i) PROVE IInv'
  BY <1>18
  DEF Edit, local, IInv, TypeOK, Ownership, CallCount, Grounds, Order, Copies, Busy,
      Done
<1>19. ASSUME UNCHANGED vars PROVE IInv'
  BY <1>19
  DEF vars, erp, local, IInv, TypeOK, Ownership, CallCount, Grounds, Order, Copies,
      Busy, Done
<1> QED
  BY <1>1, <1>2, <1>3, <1>4, <1>5, <1>6, <1>7, <1>8, <1>9,
     <1>10, <1>11, <1>12, <1>13, <1>14, <1>15, <1>16, <1>17, <1>18, <1>19
  DEF Next, Step

-----------------------------------------------------------------------------
(* What follows from it                                                    *)

LEMMA Inductive == Spec => []IInv
<1>1. Init => IInv
  BY IInvInit
<1>2. IInv /\ [Next]_vars => IInv'
  BY IInvStep
<1> QED
  BY <1>1, <1>2, PTL DEF Spec

(* Type correctness of the table, the ERP and every caller.                *)
THEOREM TypeCorrect == Spec => []TypeOK
<1>1. IInv => TypeOK
  BY DEF IInv
<1> QED
  BY <1>1, Inductive, PTL

(* However many callers execute the proposal and wherever they stop, the   *)
(* adapter is called at most once for each action.                         *)
THEOREM CalledAtMostOnce == Spec => []AtMostOnce
<1>1. IInv => AtMostOnce
  BY DEF IInv, CallCount, AtMostOnce
<1> QED
  BY <1>1, Inductive, PTL

(* An action is called only with its attempt recorded and all earlier      *)
(* actions established.                                                    *)
THEOREM LedgerIsAhead == Spec => []CallsFollowLedger
<1>1. IInv => CallsFollowLedger
  <2> SUFFICES ASSUME IInv, NEW i \in Action, calls[i] > 0
               PROVE  i \in Recorded(row) /\ 1 .. i - 1 \subseteq Established(row)
    BY DEF CallsFollowLedger
  <2>1. row[i].status # "none"
    BY DEF IInv, CallCount
  <2>2. \A j \in 1 .. i - 1 : j \in Action
    BY ActionAssumption DEF Action
  <2> QED
    BY <2>1, <2>2 DEF IInv, Order, Done, Recorded, Established
<1> QED
  BY <1>1, Inductive, PTL

(* A receipt stands for actions all called once, answered and observed.    *)
THEOREM ReceiptIsEarned == Spec => []ReceiptMeansDone
<1>1. IInv => ReceiptMeansDone
  <2> SUFFICES ASSUME IInv, issued, NEW i \in Action
               PROVE  /\ row[i] = [status |-> "SUCCEEDED", result |-> "success"]
                      /\ calls[i] = 1 /\ changed[i]
    BY DEF ReceiptMeansDone
  <2>1. Done(i)
    BY DEF IInv, Order
  <2>2. row[i].result = "success" /\ calls[i] = 1 /\ changed[i]
    BY <2>1 DEF IInv, Grounds
  <2>3. row[i] \in Row
    BY DEF IInv, TypeOK
  <2> QED
    BY <2>1, <2>2, <2>3 DEF Done, Row
<1> QED
  BY <1>1, Inductive, PTL

\* A step that writes row i: who may do it and what becomes of the row.
LEMMA RowSteps ==
    ASSUME IInv, [Next]_vars, row' # row
    PROVE  \E c \in Caller :
             /\ idx[c] \in Action
             /\ \A i \in Action \ {idx[c]} : row'[i] = row[i]
             /\ \/ RecordAttempt(c) /\ row[idx[c]].status = "none"
                \/ Settle(c)
                \/ Recover(c) /\ row[idx[c]].status # "SUCCEEDED"
<1>t. TypeOK
  BY DEF IInv
<1>1. \E c \in Caller : RecordAttempt(c) \/ Settle(c) \/ Recover(c)
  BY DEF Next, Step, Begin, ReadSnapshot, ReadState, Block, Stale, Dispatch, Answer,
         ReadBack, Issue, ReadRaises, StoreFails, Crash, TakeEffect, Reject, Edit, vars
<1>2. PICK c \in Caller : RecordAttempt(c) \/ Settle(c) \/ Recover(c)
  BY <1>1
<1>3. idx[c] \in Action
  BY <1>t DEF TypeOK
<1>4. CASE RecordAttempt(c)
  <2>1. row[idx[c]].status = "none" /\ row' = [row EXCEPT ![idx[c]] = Attempt]
    BY <1>4 DEF RecordAttempt
  <2> QED
    BY <1>t, <1>3, <1>4, <2>1 DEF TypeOK
<1>5. CASE Settle(c)
  BY <1>t, <1>3, <1>5 DEF Settle, TypeOK
<1>6. CASE Recover(c)
  <2>1. row' = [row EXCEPT ![idx[c]] = [row[idx[c]] EXCEPT !.status = "SUCCEEDED"]]
    BY <1>6 DEF Recover
  <2>2. row[idx[c]].status # "SUCCEEDED"
    <3> SUFFICES ASSUME row[idx[c]].status = "SUCCEEDED" PROVE FALSE
      OBVIOUS
    <3>1. row[idx[c]] \in Row
      BY <1>t, <1>3 DEF TypeOK
    <3>2. [row[idx[c]] EXCEPT !.status = "SUCCEEDED"] = row[idx[c]]
      BY <3>1 DEF Row
    <3> QED
      BY <1>t, <1>3, <2>1, <3>2 DEF TypeOK
  <2> QED
    BY <1>t, <1>3, <1>6, <2>1, <2>2 DEF TypeOK
<1> QED
  BY <1>2, <1>4, <1>5, <1>6

(* Established rows are final.                                             *)
THEOREM EstablishedStays == Spec => EstablishedFinal
<1>1. IInv /\ [Next]_vars => [\A i \in Established(row) : row'[i] = row[i]]_row
  <2> SUFFICES ASSUME IInv, [Next]_vars, row' # row, NEW i \in Established(row)
               PROVE  row'[i] = row[i]
    OBVIOUS
  <2>1. PICK c \in Caller :
          /\ \A k \in Action \ {idx[c]} : row'[k] = row[k]
          /\ \/ RecordAttempt(c) /\ row[idx[c]].status = "none"
             \/ Settle(c)
             \/ Recover(c) /\ row[idx[c]].status # "SUCCEEDED"
    BY RowSteps
  <2>2. row[idx[c]].status # "SUCCEEDED"
    BY <2>1 DEF Settle, IInv, Ownership, Busy, Attempt
  <2> QED
    BY <2>1, <2>2 DEF Established
<1> QED
  BY <1>1, Inductive, PTL DEF EstablishedFinal, Spec

-----------------------------------------------------------------------------
(* SafeWrite implements ActionLedger                                       *)

LEMMA LedgerInit == Init => Ledger!Init
BY DEF Init, NoRows, NoRow, Ledger!Init, Recorded, Established

\* What the mapping shows when only row i changed.
LEMMA MappedRow ==
    ASSUME TypeOK, NEW i \in Action, \A j \in Action \ {i} : row'[j] = row[j]
    PROVE  /\ Recorded(row') = (Recorded(row) \ {i})
                                 \cup (IF row'[i].status # "none" THEN {i} ELSE {})
           /\ Established(row') = (Established(row) \ {i})
                                    \cup (IF Done(i)' THEN {i} ELSE {})
BY DEF Recorded, Established, Done

LEMMA LedgerStep ==
    ASSUME IInv, [Next]_vars
    PROVE  [Ledger!Next]_(Ledger!ledger)
<1> USE DEF Ledger!ledger
<1> DEFINE called == {i \in Action : calls[i] > 0}
<1>t. TypeOK
  BY DEF IInv
<1>a. \A c \in Caller : idx[c] \in Action
  BY <1>t DEF TypeOK
<1>1. ASSUME NEW c \in Caller, RecordAttempt(c), row' # row
      PROVE  Ledger!Record(idx[c])
  <2>1. row[idx[c]].status = "none" /\ row' = [row EXCEPT ![idx[c]] = Attempt]
    BY <1>1 DEF RecordAttempt
  <2>2. row'[idx[c]] = Attempt /\ \A j \in Action \ {idx[c]} : row'[j] = row[j]
    BY <1>t, <1>a, <2>1 DEF TypeOK
  <2>3. Attempt.status = "UNCERTAIN"
    BY DEF Attempt
  <2>4. /\ Recorded(row') = Recorded(row) \cup {idx[c]}
        /\ Established(row') = Established(row)
    BY <1>t, <1>a, <2>1, <2>2, <2>3, MappedRow DEF Done, Established
  <2>5. Recorded(row) = 1 .. idx[c] - 1 /\ Established(row) = 1 .. idx[c] - 1
    <3>1. N \in Nat /\ Action = 1 .. N /\ idx[c] \in 1 .. N
      BY <1>a, ActionAssumption DEF Action
    <3>2. \A j \in 1 .. idx[c] - 1 : j \in Action /\ Done(j)
      BY <3>1 DEF IInv, Order
    <3>3. ASSUME NEW j \in Action, row[j].status # "none" PROVE j \in 1 .. idx[c] - 1
      <4>1. j # idx[c] /\ j \in Nat /\ j >= 1
        BY <2>1, <3>1, <3>3
      <4>2. CASE j > idx[c]
        <5>1. idx[c] \in 1 .. j - 1
          BY <3>1, <4>1, <4>2
        <5>2. Done(idx[c])
          BY <3>3, <5>1 DEF IInv, Order
        <5> QED
          BY <2>1, <5>2 DEF Done
      <4> QED
        BY <3>1, <4>1, <4>2
    <3>4. Recorded(row) \subseteq 1 .. idx[c] - 1
      BY <3>3 DEF Recorded
    <3>5. 1 .. idx[c] - 1 \subseteq Established(row) /\ Established(row) \subseteq Recorded(row)
      BY <3>2 DEF Established, Recorded, Done
    <3> QED
      BY <3>4, <3>5
  <2>6. UNCHANGED <<calls, issued>>
    BY <1>1 DEF RecordAttempt
  <2> QED
    BY <2>4, <2>5, <2>6 DEF Ledger!Record
<1>2. ASSUME NEW c \in Caller, Dispatch(c) PROVE Ledger!Call(idx[c])
  <2>1. /\ row[idx[c]].status = "UNCERTAIN" /\ calls[idx[c]] = 0
        /\ UNCHANGED <<row, issued>>
    BY <1>2 DEF Dispatch, IInv, Ownership, CallCount, Busy, Attempt
  <2>2. idx[c] \in Recorded(row) \ (called \cup Established(row))
    BY <1>a, <2>1 DEF Recorded, Established
  <2>3. {i \in Action : calls'[i] > 0} = called \cup {idx[c]}
    <3>1. calls'[idx[c]] = 1 /\ \A i \in Action \ {idx[c]} : calls'[i] = calls[i]
      BY <1>2, <1>t, <1>a, <2>1 DEF Dispatch, TypeOK
    <3> QED
      BY <1>a, <3>1
  <2> QED
    BY <2>1, <2>2, <2>3 DEF Ledger!Call
<1>3. ASSUME NEW c \in Caller, Settle(c) \/ Recover(c), row' # row
      PROVE  Ledger!Establish(idx[c]) \/ UNCHANGED Ledger!ledger
  <2>1. /\ \A j \in Action \ {idx[c]} : row'[j] = row[j]
        /\ row'[idx[c]].status # "none" /\ row[idx[c]].status # "none"
        /\ calls[idx[c]] = 1
        /\ UNCHANGED <<calls, issued>>
        /\ ~Done(idx[c])
    <3>1. CASE Settle(c)
      BY <1>t, <1>a, <3>1
      DEF Settle, IInv, Ownership, CallCount, Grounds, Busy, Attempt, TypeOK, Done
    <3>2. CASE Recover(c)
      <4>1. /\ row' = [row EXCEPT ![idx[c]] = [row[idx[c]] EXCEPT !.status = "SUCCEEDED"]]
            /\ UNCHANGED <<calls, issued>>
        BY <1>3, <3>2 DEF Recover
      <4>2. row[idx[c]] \in Row
        BY <1>t, <1>a DEF TypeOK
      <4>3. [row[idx[c]] EXCEPT !.status = "SUCCEEDED"].status = "SUCCEEDED"
        BY <4>2 DEF Row
      <4>4. ~Done(idx[c])
        <5> SUFFICES ASSUME row[idx[c]].status = "SUCCEEDED" PROVE FALSE
          BY DEF Done
        <5>1. [row[idx[c]] EXCEPT !.status = "SUCCEEDED"] = row[idx[c]]
          BY <4>2 DEF Row
        <5> QED
          BY <1>t, <1>a, <1>3, <4>1, <5>1 DEF TypeOK
      <4>5. row[idx[c]].result = "success" /\ row[idx[c]].status # "none"
        BY <1>a, <3>2, <4>4
        DEF Recover, Recoverable, Prior, IInv, Copies, Done
      <4> QED
        BY <1>t, <1>a, <4>1, <4>3, <4>4, <4>5 DEF IInv, CallCount, TypeOK
    <3> QED
      BY <1>3, <3>1, <3>2
  <2>2. /\ Recorded(row') = Recorded(row)
        /\ Established(row') = Established(row) \cup (IF row'[idx[c]].status = "SUCCEEDED"
                                                     THEN {idx[c]} ELSE {})
    <3> DEFINE i == idx[c]
    <3>1. i \in Action /\ i \in Recorded(row) /\ i \notin Established(row)
      BY <1>a, <2>1 DEF Recorded, Established, Done
    <3> HIDE DEF i
    <3>2. /\ \A j \in Action \ {i} : row'[j] = row[j]
          /\ row'[i].status # "none"
      BY <2>1 DEF i
    <3>3. /\ Recorded(row') = Recorded(row)
          /\ Established(row') = Established(row) \cup (IF row'[i].status = "SUCCEEDED"
                                                       THEN {i} ELSE {})
      BY <3>1, <3>2 DEF Recorded, Established
    <3> QED
      BY <3>3 DEF i
  <2>3. idx[c] \in called \ Established(row)
    BY <1>a, <2>1 DEF Established, Done
  <2> QED
    BY <2>1, <2>2, <2>3 DEF Ledger!Establish
<1>4. ASSUME NEW c \in Caller, Issue(c) PROVE Ledger!Issue
  <2>1. Established(row) = 1 .. N
    BY <1>4 DEF Issue, IInv, Order, Established, Done, Action
  <2> QED
    BY <1>4, <2>1 DEF Issue, Ledger!Issue
<1>5. CASE UNCHANGED <<row, calls, issued>>
  BY <1>5 DEF Recorded, Established
<1>6. \/ UNCHANGED <<row, calls, issued>>
      \/ \E c \in Caller :
           \/ Dispatch(c) \/ Issue(c)
           \/ row' # row /\ (RecordAttempt(c) \/ Settle(c) \/ Recover(c))
  BY DEF Next, Step, Begin, ReadSnapshot, ReadState, Recover, Block, Stale, RecordAttempt,
         Answer, ReadBack, Settle, ReadRaises, StoreFails, Crash, TakeEffect, Reject,
         Edit, vars
<1>7. \A c \in Caller : idx[c] \in 1 .. N
  BY <1>a DEF Action
<1>8. CASE \E c \in Caller :
             \/ Dispatch(c) \/ Issue(c)
             \/ row' # row /\ (RecordAttempt(c) \/ Settle(c) \/ Recover(c))
  <2>1. PICK c \in Caller :
             \/ Dispatch(c) \/ Issue(c)
             \/ row' # row /\ (RecordAttempt(c) \/ Settle(c) \/ Recover(c))
    BY <1>8
  <2>2. idx[c] \in 1 .. N
    BY <1>7
  <2>3. CASE Dispatch(c)
    <3>1. Ledger!Call(idx[c])
      BY <1>2, <2>3
    <3>2. \E i \in 1 .. N : Ledger!Call(i)
      <4>1. PICK i \in 1 .. N : i = idx[c]
        BY <2>2
      <4>2. Ledger!Call(i)
        BY <3>1, <4>1 DEF Ledger!Call
      <4> QED
        BY <4>2
    <3> QED
      BY <3>2 DEF Ledger!Next
  <2>4. CASE Issue(c)
    BY <1>4, <2>4 DEF Ledger!Next
  <2>5. CASE row' # row /\ RecordAttempt(c)
    BY <1>1, <2>2, <2>5 DEF Ledger!Next
  <2>6. CASE row' # row /\ (Settle(c) \/ Recover(c))
    <3>1. CASE Ledger!Establish(idx[c])
      BY <2>2, <3>1 DEF Ledger!Next
    <3>2. CASE UNCHANGED Ledger!ledger
      BY <3>2
    <3> QED
      BY <1>3, <2>6, <3>1, <3>2
  <2> QED
    BY <2>1, <2>3, <2>4, <2>5, <2>6
<1> QED
  BY <1>5, <1>6, <1>8

(* Every execution of a proposal, by any callers and through any failures, *)
(* is an execution of the abstract ledger.                                 *)
THEOREM WritesImplementLedger == Spec => ImplementsLedger
<1>1. Init => Ledger!Init
  BY LedgerInit
<1>2. IInv /\ [Next]_vars => [Ledger!Next]_(Ledger!ledger)
  BY LedgerStep
<1> QED
  BY <1>1, <1>2, Inductive, PTL DEF Spec, ImplementsLedger, Ledger!Spec


-----------------------------------------------------------------------------
(* Induction over a plan. *)

\* Reachable is what a node leads to, itself included, and nothing else.
LEMMA ReachableIs ==
    ASSUME NEW p, WellFormed(p), NEW n \in Nodes
    PROVE  SmallestAround(Nodes, Inner, p.deps, {n}, Reachable(p, n))
<1> DEFINE Far == Cardinality(Inner)
           Is(f) == f = [k \in 0..Far |->
                           IF k = 0 THEN {n}
                           ELSE f[k - 1] \cup UNION {p.deps[x] : x \in f[k - 1] \cap Inner}]
           near == CHOOSE f : Is(f)
<1>1. Reachable(p, n) = near[Far]
  BY DEF Reachable
<1>2. /\ Inner \subseteq Nodes /\ IsFiniteSet(Inner) /\ Far \in Nat /\ {n} \in SUBSET Nodes
      /\ \A x \in Inner : p.deps[x] \subseteq Nodes
  BY NodesAssumption, FS_Subset, FS_CardinalityType DEF Nodes, WellFormed
<1>3. Is(near)
  <2>1. PICK f \in [0..Far -> SUBSET Nodes] : Walks(f, {n}, Inner, p.deps, Far)
    <3> HIDE DEF Far
    <3> QED
      BY <1>2, WalkExists
  <2>2. Is(f)
    BY <2>1 DEF Walks
  <2> QED
    BY <2>2, Zenon
<1>4. Walks(near, {n}, Inner, p.deps, Far)
  <2> HIDE DEF Far, near
  <2> QED
    BY <1>3 DEF Walks
<1> HIDE DEF near
<1>5. FullWalk(Nodes, Inner, p.deps, {n}, near, near[Far])
  BY <1>2, <1>4 DEF FullWalk
<1> HIDE DEF Far
<1> QED
  BY <1>1, <1>5, WalkMeets

\* What holds of the CHECKs, and of a node when it holds of all it depends on, holds of
\* every node: a plan has no cycle.
LEMMA Grounded ==
    ASSUME NEW p, WellFormed(p), NEW S, Checks \subseteq S,
           \A n \in Inner : p.deps[n] \subseteq S => n \in S
    PROVE  Nodes \subseteq S
<1> DEFINE Size(n) == Cardinality(Reachable(p, n))
           T == {Size(n) : n \in Nodes \ S}
<1> SUFFICES ASSUME Nodes \ S # {} PROVE FALSE
  OBVIOUS
<1>1. \A n \in Nodes : /\ n \in Reachable(p, n) /\ Reachable(p, n) \subseteq Nodes
                       /\ IsFiniteSet(Reachable(p, n)) /\ Size(n) \in Nat
                       /\ \A x \in Reachable(p, n) \cap Inner : p.deps[x] \subseteq Reachable(p, n)
                       /\ \A m \in Reachable(p, n) : Reachable(p, m) \subseteq Reachable(p, n)
  <2> TAKE n \in Nodes
  <2>1. SmallestAround(Nodes, Inner, p.deps, {n}, Reachable(p, n))
    BY ReachableIs
  <2>2. /\ n \in Reachable(p, n) /\ Reachable(p, n) \subseteq Nodes
        /\ \A x \in Reachable(p, n) \cap Inner : p.deps[x] \subseteq Reachable(p, n)
    BY <2>1 DEF SmallestAround, ClosedIn
  <2>3. IsFiniteSet(Reachable(p, n)) /\ Size(n) \in Nat
    BY <2>2, NodesAssumption, FS_Subset, FS_CardinalityType
  <2>4. ASSUME NEW m \in Reachable(p, n) PROVE Reachable(p, m) \subseteq Reachable(p, n)
    <3>1. SmallestAround(Nodes, Inner, p.deps, {m}, Reachable(p, m))
      BY <2>2, ReachableIs
    <3> QED
      BY <2>1, <3>1 DEF SmallestAround
  <2> QED
    BY <2>2, <2>3, <2>4
<1>2. PICK least \in T : \A t \in T : least <= t
  <2>1. T \in SUBSET Nat /\ T # {}
    BY <1>1
  <2> HIDE DEF T
  <2> QED
    BY <2>1, LeastNumber
<1>3. PICK n \in Nodes \ S : least = Size(n)
  OBVIOUS
<1>4. n \in Inner
  BY DEF Nodes
<1>5. PICK d \in p.deps[n] : d \notin S
  BY <1>4
<1>6. d \in Nodes /\ d \in Reachable(p, n) /\ n \notin Reachable(p, d)
  BY <1>1, <1>4 DEF WellFormed
<1>7. Reachable(p, d) \subseteq Reachable(p, n) /\ Reachable(p, d) # Reachable(p, n)
  BY <1>1, <1>6
<1>8. Size(d) < Size(n)
  <2> DEFINE D == Reachable(p, d)
             E == Reachable(p, n)
  <2>1. IsFiniteSet(E) /\ D \in SUBSET E /\ D # E
    BY <1>1, <1>7
  <2>2. Cardinality(D) \in Nat /\ Cardinality(E) \in Nat
    BY <1>1, <1>6
  <2> HIDE DEF D, E
  <2>3. Cardinality(D) <= Cardinality(E) /\ Cardinality(D) # Cardinality(E)
    BY <2>1, FS_Subset
  <2>4. Cardinality(D) < Cardinality(E)
    BY <2>2, <2>3
  <2> QED
    BY <2>4 DEF D, E
<1>9. Size(n) <= Size(d) /\ Size(d) \in Nat /\ Size(n) \in Nat
  BY <1>1, <1>2, <1>3, <1>5, <1>6
<1> QED
  BY <1>8, <1>9

-----------------------------------------------------------------------------
(* The two-valued reading of a plan. *)

\* The nodes that hold when the CHECKs of Good and the nodes of X do
Raised(p, Good, X) ==
  {n \in Nodes : IF n \in Checks THEN n \in Good
                 ELSE IF p.kind[n] = "ALL" THEN p.deps[n] \subseteq X
                 ELSE p.deps[n] \cap X # {}}

\* The least set of nodes that holds by itself
Holding(p, Good) ==
  {n \in Nodes : \A X \in SUBSET Nodes : Raised(p, Good, X) \subseteq X => n \in X}

\* More nodes raise more nodes, so the least set is raised by itself.
LEMMA HoldingIs ==
    ASSUME NEW p, NEW Good
    PROVE  Holding(p, Good) \in SUBSET Nodes /\ Raised(p, Good, Holding(p, Good)) = Holding(p, Good)
<1> DEFINE H == Holding(p, Good)
<1>1. \A X, Y : X \subseteq Y => Raised(p, Good, X) \subseteq Raised(p, Good, Y)
  BY DEF Raised
<1>2. \A X : Raised(p, Good, X) \in SUBSET Nodes
  BY DEF Raised
<1>3. H \in SUBSET Nodes
  BY DEF Holding
<1>4. \A X \in SUBSET Nodes : Raised(p, Good, X) \subseteq X => H \subseteq X
  BY DEF Holding
<1>5. \A n \in Nodes : (\A X \in SUBSET Nodes : Raised(p, Good, X) \subseteq X => n \in X) => n \in H
  BY DEF Holding
<1> HIDE DEF H
<1>6. \A X \in SUBSET Nodes : Raised(p, Good, X) \subseteq X => Raised(p, Good, H) \subseteq X
  BY <1>1, <1>4
<1>7. Raised(p, Good, H) \subseteq H
  BY <1>2, <1>5, <1>6
<1>8. H \subseteq Raised(p, Good, H)
  BY <1>1, <1>2, <1>4, <1>7
<1> QED
  BY <1>3, <1>7, <1>8 DEF H

\* How a node comes to hold.
LEMMA HoldsWhen ==
    ASSUME NEW p, NEW Good, NEW n \in Nodes
    PROVE  /\ n \in Checks => (n \in Holding(p, Good) <=> n \in Good)
           /\ n \in Inner /\ p.kind[n] = "ALL" =>
                (n \in Holding(p, Good) <=> \A d \in p.deps[n] : d \in Holding(p, Good))
           /\ n \in Inner /\ p.kind[n] # "ALL" =>
                (n \in Holding(p, Good) <=> \E d \in p.deps[n] : d \in Holding(p, Good))
<1> DEFINE H == Holding(p, Good)
<1>1. n \in H <=> n \in Raised(p, Good, H)
  BY HoldingIs
<1> HIDE DEF H
<1>2. n \in Raised(p, Good, H) <=> IF n \in Checks THEN n \in Good
                                   ELSE IF p.kind[n] = "ALL" THEN p.deps[n] \subseteq H
                                   ELSE p.deps[n] \cap H # {}
  BY DEF Raised
<1>3. n \in Inner => n \notin Checks
  BY NodesAssumption
<1> QED
  BY <1>1, <1>2, <1>3 DEF H

\* _can_succeed asks whether the root is among the nodes that hold.
LEMMA CanSucceedIs ==
    ASSUME NEW p, WellFormed(p), NEW Good, NEW root \in Nodes
    PROVE  CanSucceed(p, root, Good) <=> root \in Holding(p, Good)
<1> DEFINE H == Holding(p, Good)
           Is(f) == f = [n \in Nodes |->
                           IF n \in Checks THEN n \in Good
                           ELSE IF p.kind[n] = "ALL" THEN \A d \in p.deps[n] : f[d]
                           ELSE \E d \in p.deps[n] : f[d]]
           holds == CHOOSE f : Is(f)
           g == [n \in Nodes |-> n \in H]
<1>1. CanSucceed(p, root, Good) = holds[root]
  BY DEF CanSucceed
<1>2. \A n \in Inner : p.deps[n] \subseteq Nodes
  BY DEF WellFormed
<1>3. Is(g)
  <2>1. \A n \in Nodes :
          (n \in H) = IF n \in Checks THEN n \in Good
                      ELSE IF p.kind[n] = "ALL" THEN \A d \in p.deps[n] : g[d]
                      ELSE \E d \in p.deps[n] : g[d]
    <3> TAKE n \in Nodes
    <3>1. n \in Checks => (n \in H <=> n \in Good)
      BY HoldsWhen
    <3>2. ASSUME n \notin Checks PROVE n \in Inner /\ \A d \in p.deps[n] : g[d] <=> d \in H
      BY <1>2, <3>2 DEF Nodes
    <3>3. n \notin Checks /\ p.kind[n] = "ALL" => (n \in H <=> \A d \in p.deps[n] : g[d])
      <4> SUFFICES ASSUME n \notin Checks, p.kind[n] = "ALL"
                   PROVE  n \in H <=> \A d \in p.deps[n] : g[d]
        OBVIOUS
      <4>1. n \in H <=> \A d \in p.deps[n] : d \in H
        BY <3>2, HoldsWhen
      <4> QED
        BY <3>2, <4>1, Zenon
    <3>4. n \notin Checks /\ p.kind[n] # "ALL" => (n \in H <=> \E d \in p.deps[n] : g[d])
      <4> SUFFICES ASSUME n \notin Checks, p.kind[n] # "ALL"
                   PROVE  n \in H <=> \E d \in p.deps[n] : g[d]
        OBVIOUS
      <4>1. n \in H <=> \E d \in p.deps[n] : d \in H
        BY <3>2, HoldsWhen
      <4> QED
        BY <3>2, <4>1, Zenon
    <3> HIDE DEF g, H
    <3>5. CASE n \in Checks
      <4>1. (n \in H) = (n \in Good)
        BY <3>1, <3>5
      <4> QED
        BY <3>5, <4>1, Zenon
    <3>6. CASE n \notin Checks /\ p.kind[n] = "ALL"
      <4>1. (n \in H) = (\A d \in p.deps[n] : g[d])
        <5>1. CASE n \in H
          BY <3>3, <3>6, <5>1, Zenon
        <5>2. CASE n \notin H
          <6>1. (n \in H) = FALSE
            BY <5>2
          <6>2. (\A d \in p.deps[n] : g[d]) = FALSE
            BY <3>3, <3>6, <5>2, Zenon
          <6> QED
            BY <6>1, <6>2, Zenon
        <5> QED
          BY <5>1, <5>2
      <4> QED
        BY <3>6, <4>1, Zenon
    <3>7. CASE n \notin Checks /\ p.kind[n] # "ALL"
      <4>1. (n \in H) = (\E d \in p.deps[n] : g[d])
        <5>1. CASE n \in H
          BY <3>4, <3>7, <5>1, Zenon
        <5>2. CASE n \notin H
          <6>1. (n \in H) = FALSE
            BY <5>2
          <6>2. (\E d \in p.deps[n] : g[d]) = FALSE
            BY <3>4, <3>7, <5>2, Zenon
          <6> QED
            BY <6>1, <6>2, Zenon
        <5> QED
          BY <5>1, <5>2
      <4> QED
        BY <3>7, <4>1, Zenon
    <3> QED
      BY <3>5, <3>6, <3>7
  <2> QED
    BY <2>1, Zenon
<1>4. Is(holds)
  BY <1>3, Zenon
<1> HIDE DEF holds
<1>5. \A n \in Nodes : holds[n] = (IF n \in Checks THEN n \in Good
                                   ELSE IF p.kind[n] = "ALL" THEN \A d \in p.deps[n] : holds[d]
                                   ELSE \E d \in p.deps[n] : holds[d])
  BY <1>4, Zenon
<1> DEFINE S == {n \in Nodes : holds[n] <=> n \in H}
<1>6. Checks \subseteq S
  <2>1. \A n \in Checks : n \in Nodes /\ holds[n] = (n \in Good)
    BY <1>5 DEF Nodes
  <2>2. \A n \in Checks : (n \in H) = (n \in Good)
    BY <2>1, HoldsWhen
  <2> QED
    BY <2>1, <2>2
<1>7. ASSUME NEW n \in Inner, p.deps[n] \subseteq S PROVE n \in S
  <2>1. n \in Nodes /\ n \notin Checks
    BY NodesAssumption DEF Nodes
  <2>2. \A d \in p.deps[n] : holds[d] <=> d \in H
    BY <1>7
  <2>3. p.kind[n] = "ALL" => holds[n] = (\A d \in p.deps[n] : holds[d])
    BY <1>5, <2>1
  <2>4. p.kind[n] # "ALL" => holds[n] = (\E d \in p.deps[n] : holds[d])
    BY <1>5, <2>1
  <2>5. p.kind[n] = "ALL" => (n \in H <=> \A d \in p.deps[n] : d \in H)
    BY <2>1, HoldsWhen
  <2>6. p.kind[n] # "ALL" => (n \in H <=> \E d \in p.deps[n] : d \in H)
    BY <2>1, HoldsWhen
  <2> HIDE DEF H
  <2>7. CASE p.kind[n] = "ALL"
    <3>1. (\A d \in p.deps[n] : holds[d]) <=> n \in H
      BY <2>2, <2>5, <2>7, Zenon
    <3> QED
      BY <2>1, <2>3, <2>7, <3>1
  <2>8. CASE p.kind[n] # "ALL"
    <3>1. (\E d \in p.deps[n] : holds[d]) <=> n \in H
      BY <2>2, <2>6, <2>8, Zenon
    <3> QED
      BY <2>1, <2>4, <2>8, <3>1
  <2> QED
    BY <2>1, <2>7, <2>8
<1>8. Nodes \subseteq S
  <2> HIDE DEF S
  <2> QED
    BY <1>6, <1>7, Grounded
<1> QED
  BY <1>1, <1>8

\* Only the CHECKs of a part of the plan that leads to nothing outside it count for the nodes
\* of the part, and proving more of them only helps.
LEMMA HoldsWithin ==
    ASSUME NEW p, WellFormed(p), NEW X, \A n \in X \cap Inner : p.deps[n] \subseteq X,
           NEW Good, NEW More, Good \cap X \subseteq More
    PROVE  Holding(p, Good) \cap X \subseteq Holding(p, More)
<1> DEFINE S == {n \in Nodes : n \in X /\ n \in Holding(p, Good) => n \in Holding(p, More)}
<1>1. Checks \subseteq S
  BY HoldsWhen DEF Nodes
<1>2. ASSUME NEW n \in Inner, p.deps[n] \subseteq S PROVE n \in S
  <2>1. n \in Nodes
    BY DEF Nodes
  <2> SUFFICES ASSUME n \in X, n \in Holding(p, Good) PROVE n \in Holding(p, More)
    BY <2>1
  <2>2. \A d \in p.deps[n] : d \in X /\ (d \in Holding(p, Good) => d \in Holding(p, More))
    BY <1>2
  <2>3. CASE p.kind[n] = "ALL"
    BY <2>1, <2>2, <2>3, HoldsWhen
  <2>4. CASE p.kind[n] # "ALL"
    BY <2>1, <2>2, <2>4, HoldsWhen
  <2> QED
    BY <2>3, <2>4
<1>3. Nodes \subseteq S
  <2> HIDE DEF S
  <2> QED
    BY <1>1, <1>2, Grounded
<1> QED
  BY <1>3, HoldingIs

-----------------------------------------------------------------------------
(* The kernel's verdicts. *)

Proved == {c \in Checks : CheckStatus(c) = "SUPPORTED"}
Possible == {c \in Checks : CheckStatus(c) # "CONTRADICTED"}

\* What the open CHECKs can no longer change of a node
Forced(n) ==
  IF n \in Holding(plan, Proved) THEN "SUPPORTED"
  ELSE IF n \notin Holding(plan, Possible) THEN "CONTRADICTED"
  ELSE "NOT_FOUND"

\* The kernel's aggregation passes on what is forced.
LEMMA AggregateForces ==
    ASSUME WellFormed(plan), NEW n \in Inner
    PROVE  Forced(n) = Aggregate(plan.kind[n], {Forced(d) : d \in plan.deps[n]})
<1> DEFINE found == {Forced(d) : d \in plan.deps[n]}
           P == Holding(plan, Proved)
           Q == Holding(plan, Possible)
<1>1. P \subseteq Q
  <2>1. Proved \cap Nodes \subseteq Possible /\ \A m \in Nodes \cap Inner : plan.deps[m] \subseteq Nodes
    BY DEF Proved, Possible, WellFormed
  <2>2. Holding(plan, Proved) \cap Nodes \subseteq Holding(plan, Possible)
    BY <2>1, HoldsWithin
  <2> QED
    BY <2>2, HoldingIs
<1>2. n \in Nodes
  BY DEF Nodes
<1>3. "SUPPORTED" \in found <=> \E d \in plan.deps[n] : d \in P
  BY DEF Forced
<1>4. "CONTRADICTED" \in found <=> \E d \in plan.deps[n] : d \notin Q
  BY <1>1 DEF Forced
<1>5. found \subseteq {"SUPPORTED"} <=> \A d \in plan.deps[n] : d \in P
  BY DEF Forced
<1>6. found \subseteq {"CONTRADICTED"} <=> \A d \in plan.deps[n] : d \notin Q
  BY <1>1 DEF Forced
<1>7. Forced(n) = IF n \in P THEN "SUPPORTED" ELSE IF n \notin Q THEN "CONTRADICTED" ELSE "NOT_FOUND"
  BY DEF Forced
<1>8. plan.kind[n] = "ALL" => /\ n \in P <=> \A d \in plan.deps[n] : d \in P
                              /\ n \in Q <=> \A d \in plan.deps[n] : d \in Q
  BY <1>2, HoldsWhen
<1>9. plan.kind[n] # "ALL" => /\ n \in P <=> \E d \in plan.deps[n] : d \in P
                              /\ n \in Q <=> \E d \in plan.deps[n] : d \in Q
  BY <1>2, HoldsWhen
<1> HIDE DEF found, P, Q
<1>10. CASE plan.kind[n] = "ALL"
  <2>1. Aggregate(plan.kind[n], found) =
          IF "CONTRADICTED" \in found THEN "CONTRADICTED"
          ELSE IF found \subseteq {"SUPPORTED"} THEN "SUPPORTED" ELSE "NOT_FOUND"
    BY <1>10 DEF Aggregate
  <2>2. Forced(n) = Aggregate(plan.kind[n], found)
    BY <1>1, <1>4, <1>5, <1>7, <1>8, <1>10, <2>1
  <2> QED
    BY <2>2 DEF found
<1>11. CASE plan.kind[n] # "ALL"
  <2>1. Aggregate(plan.kind[n], found) =
          IF "SUPPORTED" \in found THEN "SUPPORTED"
          ELSE IF found \subseteq {"CONTRADICTED"} THEN "CONTRADICTED" ELSE "NOT_FOUND"
    BY <1>11 DEF Aggregate
  <2>2. Forced(n) = Aggregate(plan.kind[n], found)
    BY <1>1, <1>3, <1>6, <1>7, <1>9, <1>11, <2>1
  <2> QED
    BY <2>2 DEF found
<1> QED
  BY <1>10, <1>11

LEMMA CheckForces ==
    ASSUME status \in [Checks -> Statuses], NEW c \in Checks
    PROVE  Forced(c) = CheckStatus(c) /\ CheckStatus(c) \in Statuses
<1>1. CheckStatus(c) \in Statuses
  BY DEF CheckStatus, Statuses
<1>2. c \in Nodes
  BY DEF Nodes
<1>3. /\ c \in Holding(plan, Proved) <=> CheckStatus(c) = "SUPPORTED"
      /\ c \in Holding(plan, Possible) <=> CheckStatus(c) # "CONTRADICTED"
  BY <1>2, HoldsWhen DEF Proved, Possible
<1> QED
  BY <1>1, <1>3 DEF Forced, Statuses

\* The result of every node is what its CHECKs force.
LEMMA ResultsForced ==
    ASSUME WellFormed(plan), status \in [Checks -> Statuses], NEW root \in Nodes
    PROVE  Results[root] = Forced(root)
<1> DEFINE Is(f) == f = [n \in Nodes |->
                           IF n \in Checks THEN CheckStatus(n)
                           ELSE Aggregate(plan.kind[n], {f[d] : d \in plan.deps[n]})]
           result == CHOOSE f : Is(f)
           g == [n \in Nodes |-> Forced(n)]
<1>1. Results = result
  BY DEF Results
<1>2. \A n \in Inner : plan.deps[n] \subseteq Nodes
  BY DEF WellFormed
<1>3. Is(g)
  <2>1. ASSUME NEW n \in Nodes
        PROVE  Forced(n) = IF n \in Checks THEN CheckStatus(n)
                           ELSE Aggregate(plan.kind[n], {g[d] : d \in plan.deps[n]})
    <3>1. CASE n \in Checks
      BY <3>1, CheckForces
    <3>2. CASE n \notin Checks
      <4>1. n \in Inner
        BY <3>2 DEF Nodes
      <4>2. {g[d] : d \in plan.deps[n]} = {Forced(d) : d \in plan.deps[n]}
        BY <1>2, <4>1
      <4> HIDE DEF g
      <4> QED
        BY <3>2, <4>1, <4>2, AggregateForces
    <3> QED
      BY <3>1, <3>2
  <2> QED
    BY <2>1, Zenon
<1>4. Is(result)
  BY <1>3, Zenon
<1> HIDE DEF result
<1> DEFINE S == {n \in Nodes : result[n] = Forced(n)}
<1>5. \A n \in Nodes : result[n] = IF n \in Checks THEN CheckStatus(n)
                                    ELSE Aggregate(plan.kind[n], {result[d] : d \in plan.deps[n]})
  BY <1>4, Zenon
<1>6. Checks \subseteq S
  BY <1>5, CheckForces DEF Nodes
<1>7. ASSUME NEW n \in Inner, plan.deps[n] \subseteq S PROVE n \in S
  <2>1. n \in Nodes /\ n \notin Checks
    BY NodesAssumption DEF Nodes
  <2>2. {result[d] : d \in plan.deps[n]} = {Forced(d) : d \in plan.deps[n]}
    BY <1>7
  <2>3. result[n] = Aggregate(plan.kind[n], {result[d] : d \in plan.deps[n]})
    BY <1>5, <2>1
  <2> QED
    BY <2>1, <2>2, <2>3, AggregateForces
<1>8. Nodes \subseteq S
  <2> HIDE DEF S
  <2> QED
    BY <1>6, <1>7, Grounded
<1> QED
  BY <1>1, <1>8

\* The checks under a root decide what becomes of it.
LEMMA UnderIs ==
    ASSUME NEW p, WellFormed(p), NEW n \in Nodes
    PROVE  /\ n \in Reachable(p, n) /\ Reachable(p, n) \in SUBSET Nodes
           /\ \A m \in Reachable(p, n) \cap Inner : p.deps[m] \subseteq Reachable(p, n)
  BY ReachableIs DEF SmallestAround, ClosedIn

LEMMA SucceedsWithin ==
    ASSUME NEW p, WellFormed(p), NEW root \in Nodes, NEW Good, NEW More, Good \subseteq Checks,
           Good \cap ChecksUnder(p, root) \subseteq More, CanSucceed(p, root, Good)
    PROVE  CanSucceed(p, root, More)
<1> DEFINE X == Reachable(p, root)
<1>1. root \in X /\ \A m \in X \cap Inner : p.deps[m] \subseteq X
  BY UnderIs
<1>2. Good \cap X \subseteq More
  BY DEF ChecksUnder
<1>3. root \in Holding(p, Good)
  BY CanSucceedIs
<1> HIDE DEF X
<1>4. root \in Holding(p, More)
  BY <1>1, <1>2, <1>3, HoldsWithin
<1> QED
  BY <1>4, CanSucceedIs

-----------------------------------------------------------------------------
(* The invariant, and what it says of a verdict. *)

TreeInv == status \in [Checks -> Statuses] /\ sealed \in BOOLEAN /\ Conforms(plan)

LEMMA TreeInductive == ReportSpec => []TreeInv
<1>1. ReportInit => TreeInv
  BY DEF ReportInit, TreeInit, TreeInv, Statuses
<1>2. TreeInv /\ [ReportNext]_reportVars => TreeInv'
  <2> SUFFICES ASSUME TreeInv, [ReportNext]_reportVars PROVE TreeInv'
    OBVIOUS
  <2>1. plan' = plan
    BY DEF ReportNext, TreeNext, Conclude, Reopen, Reseal, RunEnds, RequirementsChange, reportVars, treeVars
  <2>2. status' \in [Checks -> Statuses] /\ sealed' \in BOOLEAN
    BY DEF TreeInv, Statuses, ReportNext, TreeNext, Conclude, Reopen, Reseal, RunEnds,
           RequirementsChange, reportVars, treeVars
  <2> QED
    BY <2>1, <2>2 DEF TreeInv
<1> QED
  BY <1>1, <1>2, PTL DEF ReportSpec

LEMMA RootVerdict ==
    ASSUME TreeInv, NEW q \in Requirements
    PROVE  /\ WellFormed(plan) /\ RootOf[q] \in Nodes
           /\ Results[RootOf[q]] = IF CanSucceed(plan, RootOf[q], Proved) THEN "SUPPORTED"
                                   ELSE IF ~CanSucceed(plan, RootOf[q], Possible) THEN "CONTRADICTED"
                                   ELSE "NOT_FOUND"
           /\ CanSucceed(plan, RootOf[q], Proved) => CanSucceed(plan, RootOf[q], Possible)
<1>1. WellFormed(plan) /\ RootOf[q] \in Nodes /\ status \in [Checks -> Statuses]
  BY NodesAssumption DEF TreeInv, Conforms
<1>2. CanSucceed(plan, RootOf[q], Proved) => CanSucceed(plan, RootOf[q], Possible)
  <2>1. Proved \subseteq Checks /\ Proved \cap ChecksUnder(plan, RootOf[q]) \subseteq Possible
    BY DEF Proved, Possible
  <2> QED
    BY <1>1, <2>1, SucceedsWithin
<1>3. Results[RootOf[q]] = Forced(RootOf[q])
  BY <1>1, ResultsForced
<1> QED
  BY <1>1, <1>2, <1>3, CanSucceedIs DEF Forced

\* The kernel's verdict on a requirement is exactly what no open CHECK can change any more,
\* for every plan the gate accepts, shared nodes and all.
THEOREM VerdictAlwaysForced == ReportSpec => []VerdictIsForced
<1>1. TreeInv => VerdictIsForced
  BY RootVerdict DEF VerdictIsForced, Proved, Possible
<1> QED
  BY <1>1, TreeInductive, PTL

\* No requirement is proved around its signature: the plan gate, which looks at the plan
\* alone, and the aggregation, which looks at the results alone, fit together.
THEOREM FacetsAreNeverBypassed == ReportSpec => []FacetNotBypassed
<1>1. TreeInv => FacetNotBypassed
  <2> SUFFICES ASSUME TreeInv, NEW q \in Requirements, Decision(q).status = "SUPPORTED"
               PROVE  LET covered == {f \in Facets[q] :
                                        \E c \in Decision(q).supporting : CoversFacet(plan, c, f)}
                      IN /\ IF Composition[q] = "ALL_REQUIRED"
                            THEN covered = Facets[q] ELSE covered # {}
                         /\ q \in NeedsPolicy => Decision(q).supporting \cap plan.policy # {}
    BY DEF FacetNotBypassed
  <2> DEFINE root == RootOf[q]
             supporting == Decision(q).supporting
             covered == {f \in Facets[q] : \E c \in supporting : CoversFacet(plan, c, f)}
  <2>1. supporting = Proved \cap ChecksUnder(plan, root)
    BY DEF Decision, Proved, ReachableChecks, ChecksUnder
  <2>2. WellFormed(plan) /\ root \in Nodes /\ CanSucceed(plan, root, Proved)
    <3>1. Results[root] = "SUPPORTED"
      BY DEF Decision
    <3> QED
      BY <3>1, RootVerdict
  <2>3. CannotBypass(plan, q) /\ PolicyCovered(plan, q)
    BY DEF TreeInv, Conforms
  <2>4. ASSUME NEW Good, supporting \subseteq Good PROVE CanSucceed(plan, root, Good)
    BY <2>1, <2>2, <2>4, SucceedsWithin DEF Proved
  <2>5. supporting \subseteq Checks
    BY <2>1 DEF Proved
  <2> HIDE DEF supporting
  <2>6. IF Composition[q] = "ALL_REQUIRED" THEN covered = Facets[q] ELSE covered # {}
    <3> DEFINE Without(fs) == {c \in Checks : \A f \in fs : ~CoversFacet(plan, c, f)}
    <3>1. ASSUME NEW f \in Facets[q], Composition[q] = "ALL_REQUIRED", f \notin covered PROVE FALSE
      <4>1. ~CanSucceed(plan, root, Without({f}))
        BY <2>3, <3>1 DEF CannotBypass
      <4>2. supporting \subseteq Without({f})
        BY <2>5, <3>1
      <4> QED
        BY <2>4, <4>1, <4>2
    <3>2. ASSUME Composition[q] # "ALL_REQUIRED", covered = {} PROVE FALSE
      <4>1. ~CanSucceed(plan, root, Without(Facets[q]))
        BY <2>3, <3>2 DEF CannotBypass
      <4>2. supporting \subseteq Without(Facets[q])
        BY <2>5, <3>2
      <4> QED
        BY <2>4, <4>1, <4>2
    <3> HIDE DEF covered
    <3>3. covered \subseteq Facets[q]
      BY DEF covered
    <3>4. CASE Composition[q] = "ALL_REQUIRED"
      <4>1. \A f \in Facets[q] : f \in covered
        BY <3>1, <3>4
      <4>2. covered = Facets[q]
        BY <3>3, <4>1
      <4> QED
        BY <3>4, <4>2, Zenon
    <3> QED
      BY <3>2, <3>4
  <2>7. q \in NeedsPolicy => supporting \cap plan.policy # {}
    <3> SUFFICES ASSUME q \in NeedsPolicy, supporting \cap plan.policy = {} PROVE FALSE
      OBVIOUS
    <3>1. ~CanSucceed(plan, root, Checks \ plan.policy)
      BY <2>3 DEF PolicyCovered
    <3> QED
      BY <2>4, <2>5, <3>1
  <2> QED
    BY <2>6, <2>7 DEF supporting
<1> QED
  BY <1>1, TreeInductive, PTL

-----------------------------------------------------------------------------
(* What a packet holds. *)

Reviewed == IF HasProof THEN Requirements ELSE {}
Under(q) == ChecksUnder(plan, RootOf[q])
FindingOf(q, c) == [root |-> q, check |-> c, status |-> CheckStatus(c),
                    decisive |-> CheckStatus(c) = Results[RootOf[q]]]
RootRow(q) == [requirement |-> q, status |-> Results[RootOf[q]]]

\* One finding for each CHECK under each root, one row for each root, no report of nothing.
PacketFacts ==
  /\ Packet.findings = UNION {{FindingOf(q, c) : c \in Under(q)} : q \in Reviewed}
  /\ Packet.roots = {RootRow(q) : q \in Reviewed}
  /\ Packet.obligations = Owed
  /\ Packet.flags = [execution |-> execution, complete |-> ReviewComplete(Packet.findings),
                     ready |-> PacketReady(Decisions),
                     reportability |-> Packet.flags.reportability]
  /\ Packet.flags.reportability # "NONE" => HasProof /\ sealed

LEMMA FindingsAre ==
    ASSUME TreeInv
    PROVE  Findings(Decisions) = UNION {{FindingOf(q, c) : c \in Under(q)} : q \in Reviewed}
<1> DEFINE Found(d) == {<<c, "SUPPORTED">> : c \in d.supporting}
                         \cup {<<c, "CONTRADICTED">> : c \in d.contradicting}
                         \cup {<<c, "NOT_FOUND">> : c \in d.unresolved}
           RowOf(r, x) == [root |-> r.requirement, check |-> x[1], status |-> x[2],
                         decisive |-> x[2] = r.decision.status]
           Entry(q) == [requirement |-> q, decision |-> Decision(q)]
           Rows(r) == {RowOf(r, x) : x \in Found(r.decision)}
           Told(q) == {FindingOf(q, c) : c \in Under(q)}
<1>1. Findings(Decisions) = UNION {Rows(r) : r \in Decisions}
  BY DEF Findings
<1>2. Decisions = {Entry(q) : q \in Reviewed}
  BY DEF Decisions, Reviewed
<1>3. ASSUME NEW q \in Reviewed
      PROVE  Rows(Entry(q)) = Told(q)
  <2>1. \A c \in Under(q) : CheckStatus(c) \in Statuses
    <3>1. \A c \in Under(q) : c \in Checks
      BY DEF Under, ChecksUnder
    <3> QED
      BY <3>1, CheckForces DEF TreeInv
  <2>2. Found(Decision(q)) = {<<c, CheckStatus(c)>> : c \in Under(q)}
    BY <2>1 DEF Decision, ReachableChecks, Under, Statuses
  <2>3. Decision(q).status = Results[RootOf[q]]
    BY DEF Decision
  <2>4. \A c : RowOf(Entry(q), <<c, CheckStatus(c)>>) = FindingOf(q, c)
    BY <2>3 DEF FindingOf
  <2>5. Rows(Entry(q)) = {RowOf(Entry(q), x) : x \in Found(Decision(q))}
    OBVIOUS
  <2> HIDE DEF Found, RowOf, Entry, Rows
  <2>6. Rows(Entry(q)) = {RowOf(Entry(q), <<c, CheckStatus(c)>>) : c \in Under(q)}
    BY <2>2, <2>5
  <2> QED
    BY <2>4, <2>6
<1> HIDE DEF Rows, Entry, Told
<1>4. UNION {Rows(r) : r \in Decisions} = UNION {Told(q) : q \in Reviewed}
  BY <1>2, <1>3
<1> QED
  BY <1>1, <1>4 DEF Told

LEMMA PacketIs == TreeInv => PacketFacts
<1> SUFFICES ASSUME TreeInv PROVE PacketFacts
  OBVIOUS
<1> DEFINE complete == ReviewComplete(Findings(Decisions))
           ready == PacketReady(Decisions)
           said == Reportability(Findings(Decisions), complete /\ ready)
<1>1. /\ Packet.findings = Findings(Decisions)
      /\ Packet.roots = {[requirement |-> r.requirement, status |-> r.decision.status] : r \in Decisions}
      /\ Packet.obligations = Owed
      /\ Packet.flags = [execution |-> execution, complete |-> complete, ready |-> ready,
                         reportability |-> said]
  BY DEF Packet
<1>2. {[requirement |-> r.requirement, status |-> r.decision.status] : r \in Decisions}
        = {RootRow(q) : q \in Reviewed}
  <2> DEFINE Entry(q) == [requirement |-> q, decision |-> Decision(q)]
             RowOf(r) == [requirement |-> r.requirement, status |-> r.decision.status]
  <2>1. Decisions = {Entry(q) : q \in Reviewed}
    BY DEF Decisions, Reviewed
  <2>2. \A q : RowOf(Entry(q)) = RootRow(q)
    BY DEF RootRow, Decision
  <2> HIDE DEF Entry, RowOf
  <2>3. {RowOf(r) : r \in Decisions} = {RootRow(q) : q \in Reviewed}
    BY <2>1, <2>2
  <2> QED
    BY <2>3 DEF RowOf
<1>3. Packet.flags.reportability = said
  BY <1>1
<1>4. said # "NONE" => HasProof /\ sealed
  BY FindingsAre DEF Reportability, IntegrityRejected, Reviewed
<1> HIDE DEF complete, ready, said
<1> QED
  BY <1>1, <1>2, <1>3, <1>4, FindingsAre DEF PacketFacts, complete, ready

LEMMA DecisionsAre ==
    /\ Decisions = {[requirement |-> q, decision |-> Decision(q)] : q \in Reviewed}
    /\ \A q : Decision(q).status = Results[RootOf[q]]
  BY DEF Decisions, Reviewed, Decision

\* Ready: every requirement the case needs has a strong verdict.
LEMMA ReadyIsStrong ==
    ASSUME PacketReady(Decisions), NEW q \in needed
    PROVE  q \in Requirements /\ Results[RootOf[q]] \in Strong
<1>1. HasProof /\ q \in Requirements
  BY DEF PacketReady, HasProof
<1>2. PICK r \in Decisions : r.decision.status \in Strong /\ r.requirement = q
  BY DEF PacketReady
<1>3. PICK s \in Reviewed : r = [requirement |-> s, decision |-> Decision(s)]
  BY DecisionsAre
<1>4. r.requirement = s /\ r.decision = Decision(s)
  BY <1>3
<1> QED
  BY <1>1, <1>2, <1>4, DecisionsAre

\* Complete: every CHECK under a needed requirement is settled, and then so is its root.
LEMMA CompleteIsStrong ==
    ASSUME TreeInv, ReviewComplete(Packet.findings), NEW q \in needed
    PROVE  q \in Requirements /\ Results[RootOf[q]] \in Strong
<1>1. HasProof /\ q \in Reviewed /\ q \in Requirements
  BY DEF ReviewComplete, HasProof, Reviewed
<1>2. \A c \in Under(q) : FindingOf(q, c) \in Packet.findings
  BY <1>1, PacketIs DEF PacketFacts
<1>3. \A c \in Under(q) : FindingOf(q, c).root = q /\ FindingOf(q, c).status = CheckStatus(c)
  BY DEF FindingOf
<1>4. \A c \in Under(q) : CheckStatus(c) \in Strong
  BY <1>2, <1>3 DEF ReviewComplete
<1>5. Possible \cap Under(q) \subseteq Proved /\ Possible \subseteq Checks
  BY <1>4 DEF Possible, Proved, Strong
<1>6. CanSucceed(plan, RootOf[q], Possible) => CanSucceed(plan, RootOf[q], Proved)
  BY <1>1, <1>5, RootVerdict, SucceedsWithin DEF Under
<1> QED
  BY <1>1, <1>6, RootVerdict DEF Strong

LEMMA CompleteIsReady ==
    ASSUME TreeInv, ReviewComplete(Packet.findings)
    PROVE  PacketReady(Decisions)
<1>1. HasProof /\ execution = "COMPLETED" /\ ~IntegrityRejected
  BY DEF ReviewComplete
<1>2. \A q \in needed : q \in Reviewed /\ Decision(q).status \in Strong
  BY <1>1, CompleteIsStrong, DecisionsAre DEF Reviewed
<1>3. needed \subseteq {r.requirement : r \in {x \in Decisions : x.decision.status \in Strong}}
  <2> SUFFICES ASSUME NEW q \in needed
               PROVE  \E r \in Decisions : r.decision.status \in Strong /\ r.requirement = q
    OBVIOUS
  <2> DEFINE r == [requirement |-> q, decision |-> Decision(q)]
  <2>1. r \in Decisions /\ r.requirement = q /\ r.decision.status \in Strong
    BY <1>2, DecisionsAre
  <2> QED
    BY <2>1
<1>4. ~\E o \in Owed : o.blocking /\ o.requirement \in needed
  <2> SUFFICES ASSUME NEW o \in Owed, o.requirement \in needed PROVE FALSE
    OBVIOUS
  <2>1. PICK q \in Requirements : Decision(q).status = "NOT_FOUND" /\ o.requirement = q
    BY DEF Owed, Obligations
  <2> QED
    BY <1>2, <2>1 DEF Strong
<1> QED
  BY <1>1, <1>3, <1>4 DEF PacketReady

\* What a packet calls ready no open CHECK can change, a complete review is ready, and nothing
\* is reported of a proof whose seal is broken.
THEOREM ReportsAreEarned == ReportSpec => []ReportIsEarned
<1>1. TreeInv => ReportIsEarned
  <2> SUFFICES ASSUME TreeInv PROVE ReportIsEarned
    OBVIOUS
  <2> DEFINE flags == Packet.flags
  <2>1. /\ flags.complete = ReviewComplete(Packet.findings) /\ flags.ready = PacketReady(Decisions)
        /\ flags.reportability # "NONE" => sealed
    BY PacketIs DEF PacketFacts
  <2>2. ASSUME PacketReady(Decisions), NEW q \in needed
        PROVE  /\ q \in Requirements
               /\ CanSucceed(plan, RootOf[q], Proved) <=> CanSucceed(plan, RootOf[q], Possible)
    BY <2>2, ReadyIsStrong, RootVerdict DEF Strong
  <2>3. ReviewComplete(Packet.findings) => PacketReady(Decisions)
    BY CompleteIsReady
  <2> HIDE DEF flags
  <2>4. /\ flags.ready => \A q \in needed :
             /\ q \in Requirements
             /\ CanSucceed(plan, RootOf[q], Proved) <=> CanSucceed(plan, RootOf[q], Possible)
        /\ flags.complete => flags.ready
        /\ flags.reportability # "NONE" => sealed
    BY <2>1, <2>2, <2>3
  <2> QED
    BY <2>4 DEF ReportIsEarned, flags, Proved, Possible
<1> QED
  BY <1>1, TreeInductive, PTL

\* The canonical report of a packet passes the check of every report.
THEOREM RenderedAlwaysAccepted == ReportSpec => []RenderedIsAccepted
<1>1. TreeInv => RenderedIsAccepted
  <2> SUFFICES ASSUME TreeInv, Packet.flags.reportability # "NONE"
               PROVE  Accepts(Packet, Render(Packet))
    BY DEF RenderedIsAccepted
  <2>1. PICK p : p = Packet
    OBVIOUS
  <2>2. p.findings = UNION {{FindingOf(q, c) : c \in Under(q)} : q \in Reviewed}
    BY <2>1, PacketIs DEF PacketFacts
  <2>3. PICK report : report = Render(p)
    OBVIOUS
  <2>4. /\ report.requirements = {[id |-> r.requirement, status |-> r.status] : r \in p.roots}
        /\ report.checks = {[id |-> f.check, status |-> f.status] : f \in p.findings}
        /\ report.terms = p.terms
        /\ report.gaps = {f.check : f \in {x \in p.findings : x.status = "NOT_FOUND"}}
        /\ report.obligations = {<<o.requirement, o.check>> : o \in p.obligations}
        /\ report.flags = p.flags
    BY <2>3 DEF Render
  <2>5. p.roots = {RootRow(q) : q \in Reviewed}
    BY <2>1, PacketIs DEF PacketFacts
  <2>6. ExplicitIds(p, report)
    BY <2>4 DEF ExplicitIds, Catalog
  <2>7. ASSUME NEW told \in report.requirements
        PROVE  [requirement |-> told.id, status |-> told.status] \in p.roots
    BY <2>4, <2>5 DEF RootRow
  <2>8. ASSUME NEW told \in report.checks, NEW f \in p.findings, f.check = told.id
        PROVE  f.status = told.status
    <3>1. \A g \in p.findings : g.status = CheckStatus(g.check)
      BY <2>2 DEF FindingOf
    <3> QED
      BY <2>4, <2>8, <3>1
  <2>9. ReportStatuses(p, report)
    BY <2>4, <2>7, <2>8 DEF ReportStatuses, CheckRowMatches
  <2>10. Accepts(p, report)
    BY <2>1, <2>4, <2>6, <2>9 DEF Accepts
  <2> QED
    BY <2>1, <2>3, <2>10
<1> QED
  BY <1>1, TreeInductive, PTL

\* Seen from the next state, the packet has the same form.
LEMMA DraftStep ==
    ASSUME TreeInv, TreeInv', [ReportNext]_reportVars, Accepts(Packet', Render(Packet))
    PROVE  /\ {<<f.check, f.status>> : f \in Packet'.findings}
                = {<<f.check, f.status>> : f \in Packet.findings}
           /\ Packet'.roots = Packet.roots /\ Packet'.flags = Packet.flags
<1>1. PICK then, now : then = Packet /\ now = Packet'
  OBVIOUS
<1>2. plan' = plan
  BY DEF ReportNext, TreeNext, Conclude, Reopen, Reseal, RunEnds, RequirementsChange, reportVars, treeVars
<1>3. PacketFacts /\ PacketFacts'
  BY PacketIs, PTL
<1>4. /\ then.findings = UNION {{FindingOf(q, c) : c \in Under(q)} : q \in Reviewed}
      /\ then.roots = {RootRow(q) : q \in Reviewed}
      /\ then.flags.reportability # "NONE" => Reviewed = Requirements
  BY <1>1, <1>3 DEF PacketFacts, Reviewed
<1>5. /\ now.findings = UNION {{FindingOf(q, c)' : c \in Under(q)} : q \in Reviewed'}
      /\ now.roots = {RootRow(q)' : q \in Reviewed'}
      /\ now.flags.reportability # "NONE" => Reviewed' = Requirements
  BY <1>1, <1>2, <1>3 DEF PacketFacts, Reviewed, Under
<1>6. PICK draft : draft = Render(then)
  OBVIOUS
<1>7. /\ draft.requirements = {[id |-> r.requirement, status |-> r.status] : r \in then.roots}
      /\ draft.checks = {[id |-> f.check, status |-> f.status] : f \in then.findings}
      /\ draft.flags = then.flags
  BY <1>6 DEF Render
<1>8. /\ now.flags.reportability # "NONE" /\ draft.flags = now.flags
      /\ \A told \in draft.requirements : [requirement |-> told.id, status |-> told.status] \in now.roots
      /\ \A told \in draft.checks : \A f \in now.findings : f.check = told.id => f.status = told.status
  BY <1>1, <1>6 DEF Accepts, ReportStatuses, CheckRowMatches
<1>9. then.flags = now.flags /\ Reviewed = Requirements /\ Reviewed' = Requirements
  BY <1>4, <1>5, <1>7, <1>8
<1>10. ASSUME NEW q \in Requirements PROVE RootRow(q)' = RootRow(q)
  <2>1. RootRow(q) \in then.roots /\ RootRow(q).requirement = q
    BY <1>4, <1>9 DEF RootRow
  <2>2. PICK told \in draft.requirements : told = [id |-> q, status |-> RootRow(q).status]
    BY <1>7, <2>1
  <2>3. [requirement |-> q, status |-> RootRow(q).status] \in now.roots
    BY <1>8, <2>2
  <2>4. PICK s \in Requirements : RootRow(s)' = [requirement |-> q, status |-> RootRow(q).status]
    BY <1>5, <1>9, <2>3
  <2>5. RootRow(s)'.requirement = s
    BY DEF RootRow
  <2>6. s = q
    BY <2>4, <2>5
  <2>7. [requirement |-> q, status |-> RootRow(q).status] = RootRow(q)
    BY DEF RootRow
  <2> QED
    BY <2>4, <2>6, <2>7
<1>11. now.roots = then.roots
  BY <1>4, <1>5, <1>9, <1>10
<1>12. ASSUME NEW q \in Requirements, NEW c \in Under(q)
       PROVE  /\ FindingOf(q, c)'.check = c /\ FindingOf(q, c).check = c
              /\ FindingOf(q, c)'.status = FindingOf(q, c).status
  <2>1. FindingOf(q, c)'.check = c /\ FindingOf(q, c).check = c
    BY DEF FindingOf
  <2>2. FindingOf(q, c) \in then.findings /\ FindingOf(q, c)' \in now.findings
    BY <1>4, <1>5, <1>9
  <2>3. PICK told \in draft.checks : told = [id |-> c, status |-> FindingOf(q, c).status]
    BY <1>7, <2>1, <2>2
  <2>4. FindingOf(q, c)'.status = told.status
    BY <1>8, <2>1, <2>2, <2>3
  <2> QED
    BY <2>1, <2>3, <2>4
<1>13. {<<f.check, f.status>> : f \in now.findings} = {<<f.check, f.status>> : f \in then.findings}
  <2> DEFINE Old(q, c) == FindingOf(q, c)
             Later(q, c) == FindingOf(q, c)'
  <2>1. /\ then.findings = UNION {{Old(q, c) : c \in Under(q)} : q \in Requirements}
        /\ now.findings = UNION {{Later(q, c) : c \in Under(q)} : q \in Requirements}
    BY <1>4, <1>5, <1>9
  <2>2. \A q \in Requirements : \A c \in Under(q) :
          <<Later(q, c).check, Later(q, c).status>> = <<Old(q, c).check, Old(q, c).status>>
    BY <1>12
  <2> HIDE DEF Old, Later
  <2> QED
    BY <2>1, <2>2
<1> QED
  BY <1>1, <1>9, <1>11, <1>13

\* A report drafted before a step and handed in after it is accepted only if the step changed
\* nothing it could state.
THEOREM StaleDraftsAreRefused == ReportSpec => StaleDraftRefused
<1>1. TreeInv /\ TreeInv' /\ [ReportNext]_reportVars =>
        [\E now \in {Packet'}, then \in {Packet} : \E draft \in {Render(then)} :
           Accepts(now, draft) =>
             /\ {<<f.check, f.status>> : f \in now.findings} = {<<f.check, f.status>> : f \in then.findings}
             /\ now.roots = then.roots /\ now.flags = then.flags]_reportVars
  BY DraftStep
<1> QED
  BY <1>1, TreeInductive, PTL DEF ReportSpec, StaleDraftRefused
==============================================================================
