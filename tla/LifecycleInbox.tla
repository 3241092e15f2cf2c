---------------------------- MODULE LifecycleInbox ----------------------------
(***************************************************************************)
(* How LIVE_SIM lifecycle events (acks, executions, rejections, chejan) get  *)
(* from the gateway's POST to the handlers that change orders and positions: *)
(* services/runtime/live_sim_lifecycle_consumer.py and                       *)
(* services/runtime/gateway_live_sim_lifecycle_routing.py.  Each event has a *)
(* row in live_sim_lifecycle_inbox; it is applied by the request that        *)
(* brought it ("inline") or by a durable worker, in the order of the rowids  *)
(* of gateway_events.                                                        *)
(*                                                                         *)
(* Core handles one gateway request at a time (_gateway_event_write_lock).   *)
(* The gateway sends one critical event after the other and repeats one      *)
(* until it is answered.  Every transaction is an action; a request or a     *)
(* batch may be cut off between any two of them, by an error or by a crash.  *)
(* Events are numbered in the order the gateway sends them, which is the     *)
(* order of their rowids.                                                    *)
(***************************************************************************)
EXTENDS Integers, FiniteSets

CONSTANTS
  N,              \* bound: events
  Workers,        \* owners of batches: Core's loop, an operator's run-once
  None,
  RetryLimit,     \* live_sim_lifecycle_retry_limit
  MaxUnresolved,  \* live_sim_lifecycle_max_unresolved_count
  MaxFaults       \* bound: errors, lost answers, restarts and operator resets

ASSUME InboxConstants ==
  /\ N \in Nat
  /\ None \notin Workers
  /\ RetryLimit \in Nat \ {0}
  /\ MaxUnresolved \in Nat
  /\ MaxFaults \in Nat

\* event_rowid of the events.
Events == 1..N

VARIABLES
  settings,   \* worker: consumer and worker enabled; cutover: enabled and no kill switch; inline
  stored,     \* events in gateway_events with status ACCEPTED
  row,        \* live_sim_lifecycle_inbox; status NONE: no row
  decision,   \* live_sim_lifecycle_routing_decisions, one for each event
  head,       \* the event the gateway sends next
  answered,   \* events the gateway got a 200 for
  req,        \* what the request Core is working on does next
  pc,         \* where each batch is
  work,       \* the event each batch has claimed, or has read as stale
  healthy,    \* latest_worker_run is IDLE or COMPLETED and recent
  applied,    \* how often the handler's writes for the event were committed
  reopened,   \* events whose APPLIED row a failure mark has set back
  faults

vars == <<settings, stored, row, decision, head, answered, req, pc, work, healthy,
          applied, reopened, faults>>

inbox == <<stored, row, decision, applied, reopened>>
gateway == <<head, answered>>
batches == <<pc, work, healthy>>

-----------------------------------------------------------------------------
(* State *)

NoRow == [status |-> "NONE", attempts |-> 0, owner |-> None, stale |-> FALSE, due |-> TRUE]

NewRow == [status |-> "PENDING", attempts |-> 0, owner |-> None, stale |-> FALSE, due |-> TRUE]

\* attempts counts up to RetryLimit: nothing distinguishes larger numbers.
Rows == [status : {"NONE", "PENDING", "PROCESSING", "APPLIED", "DEAD_LETTER"},
         attempts : 0..RetryLimit, owner : Workers \cup {None},
         stale : BOOLEAN, due : BOOLEAN]

Settings == [worker : BOOLEAN, cutover : BOOLEAN, inline : BOOLEAN]

Unresolved == {e \in Events : row[e].status \in {"PENDING", "PROCESSING", "DEAD_LETTER"}}

\* The oldest unresolved row.
Earliest(e) == e \in Unresolved /\ \A d \in Unresolved : e <= d

\* An accepted event that is not in the inbox: LIFECYCLE_INBOX_GAP.
Gap == \E e \in stored : row[e].status = "NONE"

Init ==
  /\ settings \in Settings
  /\ stored = {}
  /\ row = [e \in Events |-> NoRow]
  /\ decision = [e \in Events |-> "none"]
  /\ head = 1
  /\ answered = {}
  /\ req = "idle"
  /\ pc = [w \in Workers |-> "idle"]
  /\ work = [w \in Workers |-> 0]
  /\ healthy = FALSE
  /\ applied = [e \in Events |-> 0]
  /\ reopened = {}
  /\ faults = 0

-----------------------------------------------------------------------------
(* What both paths do to a row *)

\* Counts an error, a lost answer, a restart or an operator reset.
Disturbed ==
  /\ faults < MaxFaults
  /\ faults' = faults + 1

\* The handler's writes, the event result and APPLIED are one transaction.
ApplyRow(e) ==
  /\ row' = [row EXCEPT ![e] = [@ EXCEPT !.status = "APPLIED", !.owner = None, !.stale = FALSE]]
  /\ applied' = [applied EXCEPT ![e] = IF @ < 2 THEN @ + 1 ELSE 2]

\* One more attempt: back to PENDING, or DEAD_LETTER at the limit.
Retried(r, due) ==
  LET attempts == IF r.attempts < RetryLimit THEN r.attempts + 1 ELSE RetryLimit
  IN [status |-> IF attempts >= RetryLimit THEN "DEAD_LETTER" ELSE "PENDING",
      attempts |-> attempts, owner |-> None, stale |-> FALSE, due |-> due]

\* _mark_lifecycle_failure, in a transaction of its own after the rollback: whoever
\* owns the row now and whatever its status is, also APPLIED.
MarkFailure(e) ==
  /\ row' = [row EXCEPT ![e] = Retried(@, FALSE)]
  /\ reopened' = IF row[e].status = "APPLIED" THEN reopened \cup {e} ELSE reopened

-----------------------------------------------------------------------------
(* The gateway's requests *)

Respond(status) ==
  /\ req' = "idle"
  /\ \/ /\ status = 200
        /\ answered' = answered \cup {head}
        /\ head' = head + 1
        /\ UNCHANGED faults
     \/ /\ status = 200         \* the answer is lost: the event is sent again
        /\ Disturbed
        /\ UNCHANGED gateway
     \/ /\ status = 500
        /\ UNCHANGED <<gateway, faults>>

\* append_gateway_event commits; a repeated event is a duplicate and goes on.
Append ==
  /\ req = "idle"
  /\ head \in Events
  /\ stored' = stored \cup {head}
  /\ req' = "enqueue"
  /\ UNCHANGED <<settings, row, decision, applied, reopened, gateway, batches, faults>>

\* Fault: nothing is enqueued while the consumer is disabled.
EnqueueFault ==
  /\ req = "enqueue"
  /\ row' = IF settings.worker /\ row[head].status = "NONE" THEN [row EXCEPT ![head] = NewRow] ELSE row
  /\ req' = "route"
  /\ UNCHANGED <<settings, stored, decision, applied, reopened, gateway, batches, faults>>

\* enqueue_live_sim_lifecycle_event: INSERT ... ON CONFLICT DO NOTHING.
Enqueue ==
  /\ req = "enqueue"
  /\ row' = IF row[head].status = "NONE" THEN [row EXCEPT ![head] = NewRow] ELSE row
  /\ req' = "route"
  /\ UNCHANGED <<settings, stored, decision, applied, reopened, gateway, batches, faults>>

\* Every readiness reason of decide_live_sim_lifecycle_routing.  A row that is APPLIED
\* without a result cannot be: the two are written in one transaction.
Ready(e) ==
  /\ settings.worker
  /\ healthy
  /\ \A d \in Events : row[d].status # "DEAD_LETTER" /\ ~row[d].stale
  /\ ~Gap
  /\ Cardinality(Unresolved) <= MaxUnresolved
  /\ row[e].status \in {"PENDING", "PROCESSING"}

\* The decision for an event is taken once and found again when it is repeated.
Decide(e) ==
  IF decision[e] # "none" THEN decision[e]
  ELSE IF Ready(e) /\ settings.cutover THEN "defer"
  ELSE IF Unresolved # {} /\ ~Earliest(e) THEN "blocked"
  ELSE IF settings.inline THEN "inline"
  ELSE "disabled"

\* route_live_sim_lifecycle_gateway_event after the enqueue: an applied event is
\* answered as a duplicate, a deferred or blocked one stays in the inbox.
Route ==
  /\ req = "route"
  /\ IF row[head].status = "APPLIED"
     THEN req' = "apply" /\ UNCHANGED <<decision, gateway, faults>>
     ELSE /\ decision' = [decision EXCEPT ![head] = Decide(head)]
          /\ IF Decide(head) = "inline"
             THEN req' = "apply" /\ UNCHANGED <<gateway, faults>>
             ELSE Respond(200)
  /\ UNCHANGED <<settings, stored, row, applied, reopened, batches>>

\* Fault: the row's status is not looked at again in the transaction.
InlineApplyFault ==
  /\ req = "apply"
  /\ row[head].status # "DEAD_LETTER"
  /\ ApplyRow(head)
  /\ Respond(200)
  /\ UNCHANGED <<settings, stored, decision, reopened, batches>>

\* _apply_lifecycle_event without an owner.
InlineApply ==
  /\ req = "apply"
  /\ row[head].status = "PENDING"
  /\ ApplyRow(head)
  /\ Respond(200)
  /\ UNCHANGED <<settings, stored, decision, reopened, batches>>

\* Fault: an application that fails in the request leaves no trace in the row.
InlineErrorFault ==
  /\ req = "apply"
  /\ Respond(200)
  /\ UNCHANGED <<settings, inbox, batches>>

\* The database is locked when the transaction begins, or the handler raises and the
\* transaction is rolled back.
InlineError ==
  /\ req = "apply"
  /\ req' = "mark"
  /\ Disturbed
  /\ UNCHANGED <<settings, inbox, gateway, batches>>

\* DUPLICATE and DEFERRED are answered; DEAD_LETTER is raised.
InlineSkip ==
  /\ req = "apply"
  /\ row[head].status \in {"APPLIED", "PROCESSING", "DEAD_LETTER"}
  /\ Respond(IF row[head].status = "DEAD_LETTER" THEN 500 ELSE 200)
  /\ UNCHANGED <<settings, inbox, batches>>

\* A failure that will be retried is answered, the last one is raised.
InlineMark ==
  /\ req = "mark"
  /\ MarkFailure(head)
  /\ Respond(IF row'[head].status = "DEAD_LETTER" THEN 500 ELSE 200)
  /\ UNCHANGED <<settings, stored, decision, applied, batches>>

\* An error, a timeout or a crash of Core ends the request; the event is sent again.
RequestFails ==
  /\ req # "idle"
  /\ req' = "idle"
  /\ Disturbed
  /\ UNCHANGED <<settings, inbox, gateway, batches>>

\* The gateway restarts and forgets the event it was sending.
GatewayRestart ==
  /\ req = "idle"
  /\ head \in Events
  /\ head' = head + 1
  /\ Disturbed
  /\ UNCHANGED <<settings, answered, req, inbox, batches>>

-----------------------------------------------------------------------------
(* process_live_sim_lifecycle_batch *)

Goto(w, place, e) ==
  /\ pc' = [pc EXCEPT ![w] = place]
  /\ work' = [work EXCEPT ![w] = e]

\* Fault: a batch leaves rows alone that another one has claimed.
StartBatchFault(w) ==
  /\ settings.worker
  /\ pc[w] = "idle"
  /\ Goto(w, "loop", 0)
  /\ UNCHANGED <<settings, inbox, gateway, req, healthy, faults>>

\* The batch reads the rows that have been PROCESSING for too long, and resets them
\* in a later transaction, one row here.
StartBatch(w) ==
  /\ settings.worker
  /\ pc[w] = "idle"
  /\ LET old == {e \in Events : row[e].status = "PROCESSING" /\ row[e].stale}
     IN IF old = {} THEN Goto(w, "loop", 0) ELSE \E e \in old : Goto(w, "reset", e)
  /\ UNCHANGED <<settings, inbox, gateway, req, healthy, faults>>

\* reset_stale_live_sim_lifecycle_processing: a row that is PROCESSING, also when
\* another batch has reset and claimed it since.
ResetStale(w) ==
  /\ pc[w] = "reset"
  /\ row' = IF row[work[w]].status = "PROCESSING"
            THEN [row EXCEPT ![work[w]] = Retried(@, TRUE)] ELSE row
  /\ Goto(w, "loop", 0)
  /\ UNCHANGED <<settings, stored, decision, applied, reopened, gateway, req, healthy, faults>>

\* Fault: a row that waits for its retry is passed over.
ClaimableFault == {e \in Events : row[e].status = "PENDING" /\ row[e].due
                                  /\ \A d \in Events : row[d].status = "PENDING" /\ row[d].due => e <= d}

\* The oldest unresolved row, if it is PENDING and due.
Claimable == {e \in Events : Earliest(e) /\ row[e].status = "PENDING" /\ row[e].due}

\* _claim_next_inbox_row.
Claim(w) ==
  /\ pc[w] = "loop"
  /\ \E e \in Claimable :
       /\ row' = [row EXCEPT ![e] = [@ EXCEPT !.status = "PROCESSING", !.owner = w, !.stale = FALSE]]
       /\ Goto(w, "claimed", e)
  /\ UNCHANGED <<settings, stored, decision, applied, reopened, gateway, req, healthy, faults>>

\* _apply_lifecycle_event with an owner: the claim is still this batch's.
Owns(w) == row[work[w]].status = "PROCESSING" /\ row[work[w]].owner = w

WorkerApply(w) ==
  /\ pc[w] = "claimed"
  /\ Owns(w)
  /\ ApplyRow(work[w])
  /\ Goto(w, "loop", 0)
  /\ UNCHANGED <<settings, stored, decision, reopened, gateway, req, healthy, faults>>

\* DUPLICATE: the batch goes on; DEAD_LETTER and LIFECYCLE_CLAIM_LOST end it.
WorkerSkip(w) ==
  /\ pc[w] = "claimed"
  /\ ~Owns(w)
  /\ Goto(w, IF row[work[w]].status = "APPLIED" THEN "loop" ELSE "errors", 0)
  /\ UNCHANGED <<settings, inbox, gateway, req, healthy, faults>>

\* The source event is missing, the database is locked or the handler raises.
WorkerError(w) ==
  /\ pc[w] = "claimed"
  /\ Goto(w, "failed", work[w])
  /\ Disturbed
  /\ UNCHANGED <<settings, inbox, gateway, req, healthy>>

WorkerMark(w) ==
  /\ pc[w] = "failed"
  /\ MarkFailure(work[w])
  /\ Goto(w, "errors", 0)
  /\ UNCHANGED <<settings, stored, decision, applied, gateway, req, healthy, faults>>

\* _record_consumer_run: the limit is reached, nothing can be claimed, or an error
\* has ended the batch.  Only a run without errors that no dead letter blocks is
\* IDLE or COMPLETED.
EndBatch(w) ==
  /\ pc[w] \in {"loop", "errors"}
  /\ healthy' = (pc[w] = "loop" /\ \A e \in Events : Earliest(e) => row[e].status # "DEAD_LETTER")
  /\ Goto(w, "idle", 0)
  /\ UNCHANGED <<settings, inbox, gateway, req, faults>>

\* An exception or a crash ends the batch; what it claimed stays PROCESSING.
BatchDies(w) ==
  /\ pc[w] # "idle"
  /\ Goto(w, "idle", 0)
  /\ Disturbed
  /\ UNCHANGED <<settings, inbox, gateway, req, healthy>>

-----------------------------------------------------------------------------
(* Time and the operator *)

\* live_sim_lifecycle_processing_ttl_sec after the claim.
ClaimAges(e) ==
  /\ row[e].status = "PROCESSING"
  /\ ~row[e].stale
  /\ row' = [row EXCEPT ![e].stale = TRUE]
  /\ UNCHANGED <<settings, stored, decision, applied, reopened, gateway, req, batches, faults>>

\* available_at is reached.
RetryDue(e) ==
  /\ row[e].status # "NONE"
  /\ ~row[e].due
  /\ row' = [row EXCEPT ![e].due = TRUE]
  /\ UNCHANGED <<settings, stored, decision, applied, reopened, gateway, req, batches, faults>>

\* live_sim_lifecycle_worker_health_max_age_sec after the last run.
HealthAges ==
  /\ healthy
  /\ healthy' = FALSE
  /\ UNCHANGED <<settings, inbox, gateway, req, pc, work, faults>>

\* reset_live_sim_lifecycle_dead_letter.
ResetDeadLetter(e) ==
  /\ row[e].status = "DEAD_LETTER"
  /\ row' = [row EXCEPT ![e] = NewRow]
  /\ Disturbed
  /\ UNCHANGED <<settings, stored, decision, applied, reopened, gateway, req, batches>>

\* What a batch does next when nothing interrupts it.
BatchStep(w) ==
  \/ StartBatch(w) \/ ResetStale(w) \/ Claim(w) \/ WorkerApply(w) \/ WorkerSkip(w)
  \/ WorkerMark(w) \/ EndBatch(w)

Next ==
  \/ Append \/ Enqueue \/ Route \/ InlineApply \/ InlineError \/ InlineSkip \/ InlineMark
  \/ RequestFails \/ GatewayRestart
  \/ \E w \in Workers : BatchStep(w) \/ WorkerError(w) \/ BatchDies(w)
  \/ \E e \in Events : ClaimAges(e) \/ RetryDue(e) \/ ResetDeadLetter(e)
  \/ HealthAges

Spec == Init /\ [][Next]_vars

\* Time passes; Core's loop (_live_sim_lifecycle_consumer_loop) starts a batch again and
\* again, and not every batch is cut off before it resets a stale row or claims one.
Fairness ==
  /\ \A e \in Events : WF_vars(ClaimAges(e)) /\ WF_vars(RetryDue(e))
  /\ \A w \in Workers : WF_vars(BatchStep(w)) /\ SF_vars(ResetStale(w)) /\ SF_vars(Claim(w))

FairSpec == Spec /\ Fairness

-----------------------------------------------------------------------------
(* Properties *)

\* The shape of the state.
TypeOK ==
  /\ settings \in Settings
  /\ stored \subseteq Events
  /\ row \in [Events -> Rows]
  /\ decision \in [Events -> {"none", "defer", "blocked", "inline", "disabled"}]
  /\ head \in Nat
  /\ answered \subseteq Events
  /\ req \in {"idle", "enqueue", "route", "apply", "mark"}
  /\ pc \in [Workers -> {"idle", "reset", "loop", "claimed", "failed", "errors"}]
  /\ work \in [Workers -> Events \cup {0}]
  /\ healthy \in BOOLEAN
  /\ applied \in [Events -> 0..2]
  /\ reopened \subseteq Events
  /\ faults \in Nat

\* The gateway forgets an event once it is answered: it is then in the inbox, in
\* every configuration, whatever was deferred, blocked, repeated or cut off.
AnsweredEventInInbox == \A e \in answered : e \in stored /\ row[e].status # "NONE"

\* The request and several batches never apply an event twice, unless a failure
\* mark that came late has set its APPLIED row back (_mark_lifecycle_failure).
AppliedOnce == \A e \in Events : e \notin reopened => applied[e] <= 1

\* An event is applied only when every earlier row is resolved, except rows that a
\* late failure mark has reopened: neither a retry delay, nor a lost claim, nor a
\* decision that is repeated from an earlier request lets a later event overtake.
RowidOrder ==
  [][\A e \in Events : applied'[e] # applied[e] =>
       \A d \in Unresolved : d < e => d \in reopened]_vars

\* Where the request applies events and no worker runs (the default), an event that
\* was answered is applied, unless it or an earlier one failed or was never answered:
\* those wait for a worker.
InlineAnswerIsApplied ==
  settings.inline /\ ~settings.worker =>
    \A e \in answered :
      \/ row[e].status = "APPLIED"
      \/ \E d \in 1..e : d \notin answered \/ row[d].attempts > 0

\* Where the worker runs, a row is applied, or a dead letter at or before it holds the
\* inbox back: no claim that was abandoned and no order of crashes stalls the inbox.
InboxSettles ==
  \A e \in Events :
    settings.worker /\ row[e].status \in {"PENDING", "PROCESSING"} ~>
      row[e].status = "APPLIED" \/ \E d \in 1..e : row[d].status = "DEAD_LETTER"
=============================================================================
