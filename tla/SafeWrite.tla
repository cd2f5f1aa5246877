----------------------------- MODULE SafeWrite -----------------------------
(***************************************************************************)
(* execute_proposal_once of capabilities/safe_write.py: the writes of one  *)
(* proven proposal, action by action, under an idempotency table.          *)
(*                                                                         *)
(* Several callers may execute the same proposal, at once or one after     *)
(* another, in one process or in many.  A caller reads the recorded rows   *)
(* once, and works from that copy: for each action it reads the target,    *)
(* then recovers the recorded result, refuses, or records the attempt as   *)
(* UNCERTAIN, calls the adapter, reads the target back and settles the     *)
(* row.  Every await is a step of its own.                                 *)
(*                                                                         *)
(* A caller that raises, is refused or is cancelled leaves the function.   *)
(* The target records belong to the ERP: anyone may edit them, a call may  *)
(* take effect before or after its answer, or never.                       *)
(*                                                                         *)
(* The checks on the checkpoint, the pack and the policy hash only look at *)
(* the caller's own arguments; a call that fails them changes nothing.     *)
(***************************************************************************)
EXTENDS Naturals

CONSTANTS
    Caller,     \* concurrent or successive calls of execute_proposal_once
    N,          \* proposal.actions are 1 .. N, one for each target record
    Faults      \* "crash": a caller's process dies
                \* "store": an UPDATE or INSERT fails, or a result file is lost

ASSUME ActionAssumption == N \in Nat \ {0}
ASSUME FaultAssumption == Faults \subseteq {"crash", "store"}

Action == 1 .. N

VARIABLES
    row,        \* action_executions, by action; status "none" is no row
    changed,    \* the target's revision differs from before_revision
    applied,    \* the target is in the state the action asks for
    inflight,   \* calls that may still take effect in the ERP
    calls,      \* how often execute_action was called for an action
    issued,     \* a receipt was returned
    pc, idx,    \* where a caller is, and at which action
    existing,   \* its copy of the rows
    seen,       \* what it last read of the target
    reply,      \* what the result file holds
    verdict     \* the status it is about to write

erp == <<changed, applied, inflight>>
local == <<pc, idx, existing, seen, reply, verdict>>
vars == <<row, erp, calls, issued, local>>

Result == {"none", "unreadable", "failure", "success"}
RowStatus == {"none", "UNCERTAIN", "FAILED", "SUCCEEDED"}
Row == [status : RowStatus, result : Result]
NoRow == [status |-> "none", result |-> "none"]
Attempt == [status |-> "UNCERTAIN", result |-> "none"]
Target == [changed : BOOLEAN, applied : BOOLEAN]
Untouched == [changed |-> FALSE, applied |-> FALSE]
PC == {"idle", "snapshot", "read", "decide", "dispatch", "await",
       "readback", "settle", "receipt"}

TypeOK ==
    /\ row \in [Action -> Row]
    /\ changed \in [Action -> BOOLEAN] /\ applied \in [Action -> BOOLEAN]
    /\ inflight \subseteq Action
    /\ calls \in [Action -> Nat]
    /\ issued \in BOOLEAN
    /\ pc \in [Caller -> PC]
    /\ idx \in [Caller -> Action]
    /\ existing \in [Caller -> [Action -> Row]]
    /\ seen \in [Caller -> Target]
    /\ reply \in [Caller -> Result]
    /\ verdict \in [Caller -> RowStatus]

Recorded(rows) == {i \in Action : rows[i].status # "none"}
Established(rows) == {i \in Action : rows[i].status = "SUCCEEDED"}

-----------------------------------------------------------------------------
NoRows == [i \in Action |-> NoRow]

Init ==
    /\ row = NoRows
    /\ changed = [i \in Action |-> FALSE] /\ applied = [i \in Action |-> FALSE]
    /\ inflight = {}
    /\ calls = [i \in Action |-> 0]
    /\ issued = FALSE
    /\ pc = [c \in Caller |-> "idle"]
    /\ idx = [c \in Caller |-> 1]
    /\ existing = [c \in Caller |-> NoRows]
    /\ seen = [c \in Caller |-> Untouched]
    /\ reply = [c \in Caller |-> "none"]
    /\ verdict = [c \in Caller |-> "none"]

Goto(c, label) == pc' = [pc EXCEPT ![c] = label]

\* The call returns or raises; nothing of it remains.
Leave(c) ==
    /\ Goto(c, "idle")
    /\ idx' = [idx EXCEPT ![c] = 1]
    /\ existing' = [existing EXCEPT ![c] = NoRows]
    /\ seen' = [seen EXCEPT ![c] = Untouched]
    /\ reply' = [reply EXCEPT ![c] = "none"]
    /\ verdict' = [verdict EXCEPT ![c] = "none"]

\* Mutant of Advance: the index runs past the last action.
AdvancePast(c) ==
    /\ Goto(c, IF idx[c] = N THEN "receipt" ELSE "read")
    /\ idx' = [idx EXCEPT ![c] = @ + 1]
    /\ UNCHANGED <<existing, seen, reply, verdict>>

\* The loop goes on with the next action, or is over.
Advance(c) ==
    /\ Goto(c, IF idx[c] = N THEN "receipt" ELSE "read")
    /\ idx' = [idx EXCEPT ![c] = IF @ = N THEN @ ELSE @ + 1]
    /\ seen' = [seen EXCEPT ![c] = Untouched]
    /\ reply' = [reply EXCEPT ![c] = "none"]
    /\ verdict' = [verdict EXCEPT ![c] = "none"]
    /\ UNCHANGED existing

-----------------------------------------------------------------------------
(* One call of execute_proposal_once                                       *)

\* Copy the rows; they must be those of a prefix of the actions.  Only a
\* proposal without any row is held against a fresh snapshot.
Begin(c) ==
    /\ pc[c] = "idle"
    /\ \E k \in 0 .. N : Recorded(row) = 1 .. k
    /\ existing' = [existing EXCEPT ![c] = row]
    /\ Goto(c, IF Recorded(row) = {} THEN "snapshot" ELSE "read")
    /\ UNCHANGED <<row, erp, calls, issued, idx, seen, reply, verdict>>

\* assess_proof_freshness: VALID only if no source revision changed.
ReadSnapshot(c) ==
    /\ pc[c] = "snapshot"
    /\ IF \A i \in Action : ~changed[i]
       THEN Goto(c, "read") /\ UNCHANGED <<idx, existing, seen, reply, verdict>>
       ELSE Leave(c)
    /\ UNCHANGED <<row, erp, calls, issued>>

ReadState(c) ==
    /\ pc[c] = "read"
    /\ seen' = [seen EXCEPT ![c] = [changed |-> changed[idx[c]],
                                    applied |-> applied[idx[c]]]]
    /\ Goto(c, "decide")
    /\ UNCHANGED <<row, erp, calls, issued, idx, existing, reply, verdict>>

Prior(c) == existing[c][idx[c]]

\* Mutant of Recoverable: the effect on the target is taken for the answer.
RecoverableUnanswered(c) ==
    /\ Prior(c).status \in {"UNCERTAIN", "SUCCEEDED"}
    /\ seen[c].changed /\ seen[c].applied

\* The recorded attempt answered success and the target shows its effect.
Recoverable(c) ==
    /\ Prior(c).status \in {"UNCERTAIN", "SUCCEEDED"}
    /\ Prior(c).result = "success"
    /\ seen[c].changed /\ seen[c].applied

\* Mutant of Recover: the recovered row is left UNCERTAIN.
RecoverUnmarked(c) ==
    /\ pc[c] = "decide"
    /\ Recoverable(c)
    /\ Advance(c)
    /\ UNCHANGED <<row, erp, calls, issued>>

Recover(c) ==
    /\ pc[c] = "decide"
    /\ Recoverable(c)
    /\ row' = IF Prior(c).status = "SUCCEEDED" THEN row
              ELSE [row EXCEPT ![idx[c]].status = "SUCCEEDED"]
    /\ Advance(c)
    /\ UNCHANGED <<erp, calls, issued>>

\* Replay blocked: a recorded attempt that cannot be recovered.
Block(c) ==
    /\ pc[c] = "decide"
    /\ Prior(c).status # "none" /\ ~Recoverable(c)
    /\ Leave(c)
    /\ UNCHANGED <<row, erp, calls, issued>>

\* The target became STALE before the write.
Stale(c) ==
    /\ pc[c] = "decide"
    /\ Prior(c).status = "none"
    /\ seen[c].changed \/ seen[c].applied
    /\ Leave(c)
    /\ UNCHANGED <<row, erp, calls, issued>>

\* Mutant of RecordAttempt: INSERT OR REPLACE.
RecordOrReplace(c) ==
    /\ pc[c] = "decide"
    /\ Prior(c).status = "none"
    /\ ~seen[c].changed /\ ~seen[c].applied
    /\ row' = [row EXCEPT ![idx[c]] = Attempt]
    /\ Goto(c, "dispatch")
    /\ UNCHANGED <<erp, calls, issued, idx, existing, seen, reply, verdict>>

\* INSERT the attempt; the primary key refuses a second one.
RecordAttempt(c) ==
    /\ pc[c] = "decide"
    /\ Prior(c).status = "none"
    /\ ~seen[c].changed /\ ~seen[c].applied
    /\ IF row[idx[c]].status = "none"
       THEN /\ row' = [row EXCEPT ![idx[c]] = Attempt]
            /\ Goto(c, "dispatch")
            /\ UNCHANGED <<idx, existing, seen, reply, verdict>>
       ELSE Leave(c) /\ UNCHANGED row
    /\ UNCHANGED <<erp, calls, issued>>

Dispatch(c) ==
    /\ pc[c] = "dispatch"
    /\ calls' = [calls EXCEPT ![idx[c]] = @ + 1]
    /\ inflight' = inflight \cup {idx[c]}
    /\ Goto(c, "await")
    /\ UNCHANGED <<row, changed, applied, issued, idx, existing, seen, reply, verdict>>

\* The adapter answers and the answer is written to its file, or it raises
\* (reply "none").  Without a readable answer the row is settled UNCERTAIN.
Answer(c) ==
    /\ pc[c] = "await"
    /\ \E r \in Result :
         /\ reply' = [reply EXCEPT ![c] = r]
         /\ IF r \in {"failure", "success"}
            THEN Goto(c, "readback") /\ UNCHANGED verdict
            ELSE Goto(c, "settle") /\ verdict' = [verdict EXCEPT ![c] = "UNCERTAIN"]
    /\ UNCHANGED <<row, erp, calls, issued, idx, existing, seen>>

\* The status an answer and the state read after it add up to.
Verdict(answer, touched, done) ==
    CASE answer = "success" /\ touched /\ done    -> "SUCCEEDED"
      [] answer = "failure" /\ ~touched /\ ~done  -> "FAILED"
      [] OTHER                                    -> "UNCERTAIN"

\* The read may raise, which leaves the row UNCERTAIN.
ReadBack(c) ==
    /\ pc[c] = "readback"
    /\ \E v \in {Verdict(reply[c], changed[idx[c]], applied[idx[c]]), "UNCERTAIN"} :
         verdict' = [verdict EXCEPT ![c] = v]
    /\ Goto(c, "settle")
    /\ UNCHANGED <<row, erp, calls, issued, idx, existing, seen, reply>>

\* Mutant of Settle: an uncertain outcome does not raise.
SettleAndGoOn(c) ==
    /\ pc[c] = "settle"
    /\ row' = [row EXCEPT ![idx[c]] = [status |-> verdict[c], result |-> reply[c]]]
    /\ Advance(c)
    /\ UNCHANGED <<erp, calls, issued>>

\* The finally clause; anything but SUCCEEDED also raises.
Settle(c) ==
    /\ pc[c] = "settle"
    /\ row' = [row EXCEPT ![idx[c]] = [status |-> verdict[c], result |-> reply[c]]]
    /\ IF verdict[c] = "SUCCEEDED" THEN Advance(c) ELSE Leave(c)
    /\ UNCHANGED <<erp, calls, issued>>

\* record_action_receipt: one outcome per target, all SUCCEEDED.
Issue(c) ==
    /\ pc[c] = "receipt"
    /\ issued' = TRUE
    /\ Leave(c)
    /\ UNCHANGED <<row, erp, calls>>

\* A read raises, or the call is cancelled there, before anything is written.
ReadRaises(c) ==
    /\ pc[c] \in {"snapshot", "read"}
    /\ Leave(c)
    /\ UNCHANGED <<row, erp, calls, issued>>

\* The table cannot be written, or the recorded result cannot be read.
StoreFails(c) ==
    /\ "store" \in Faults
    /\ pc[c] \in {"decide", "settle"}
    /\ Leave(c)
    /\ UNCHANGED <<row, erp, calls, issued>>

Crash(c) ==
    /\ "crash" \in Faults
    /\ pc[c] # "idle"
    /\ Leave(c)
    /\ UNCHANGED <<row, erp, calls, issued>>

-----------------------------------------------------------------------------
(* The ERP                                                                 *)

TakeEffect(i) ==
    /\ i \in inflight
    /\ changed' = [changed EXCEPT ![i] = TRUE]
    /\ applied' = [applied EXCEPT ![i] = TRUE]
    /\ inflight' = inflight \ {i}
    /\ UNCHANGED <<row, calls, issued, local>>

Reject(i) ==
    /\ i \in inflight
    /\ inflight' = inflight \ {i}
    /\ UNCHANGED <<row, changed, applied, calls, issued, local>>

\* Somebody else edits the record, towards what the action asks for or not.
Edit(i) ==
    /\ changed' = [changed EXCEPT ![i] = TRUE]
    /\ \E done \in BOOLEAN : applied' = [applied EXCEPT ![i] = done]
    /\ UNCHANGED <<row, inflight, calls, issued, local>>

-----------------------------------------------------------------------------
Step(c) ==
    \/ ReadSnapshot(c) \/ ReadState(c) \/ Recover(c) \/ Block(c) \/ Stale(c)
    \/ RecordAttempt(c) \/ Dispatch(c) \/ Answer(c) \/ ReadBack(c)
    \/ Settle(c) \/ Issue(c)

Next ==
    \/ \E c \in Caller :
         Begin(c) \/ Step(c) \/ ReadRaises(c) \/ StoreFails(c) \/ Crash(c)
    \/ \E i \in Action : TakeEffect(i) \/ Reject(i) \/ Edit(i)

Spec == Init /\ [][Next]_vars

-----------------------------------------------------------------------------
(* Properties                                                              *)

(* "Execute a proven proposal once": whatever callers race, crash and retry,
   the adapter is called at most once for an action. *)
AtMostOnce == \A i \in Action : calls[i] <= 1

(* The ledger is written ahead and in order: an action was only ever called
   with its attempt recorded and every earlier action established, so what a
   later caller finds recorded is never less than what was done. *)
CallsFollowLedger ==
    \A i \in Action :
        calls[i] > 0 => /\ i \in Recorded(row)
                        /\ 1 .. i - 1 \subseteq Established(row)

(* A receipt stands for every action called, answered with success and seen
   in the ERP, also when the callers that did the writes did not survive. *)
ReceiptMeansDone ==
    issued => \A i \in Action :
        row[i] = [status |-> "SUCCEEDED", result |-> "success"]
        /\ calls[i] = 1 /\ changed[i]

(* An established action is never reopened or rewritten, though callers settle
   rows from copies and reads that may be old. *)
EstablishedFinal ==
    [][\A i \in Established(row) : row'[i] = row[i]]_row

(* The ledger other parts may rely on. *)
Ledger == INSTANCE ActionLedger WITH
    recorded <- Recorded(row),
    called <- {i \in Action : calls[i] > 0},
    established <- Established(row)

ImplementsLedger == Ledger!Spec
=============================================================================
