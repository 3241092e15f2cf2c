------------------------ MODULE IncrementalEvaluation ------------------------
(***************************************************************************)
(* The incremental evaluation queue (services/runtime/                      *)
(* incremental_evaluation.py) and the ledger of its dead letters            *)
(* (incremental_evaluation_dead_letter_resolution.py).                      *)
(*                                                                         *)
(* An applied tick puts the candidates of its code into the queue, one row  *)
(* each.  A worker that holds the evaluation lock (EvaluationRunGuard)      *)
(* takes a chunk of rows in the order of updated_at; for each it refreshes  *)
(* the candidate, which commits, and then, in one fenced transaction,       *)
(* evaluates it and deletes its row.  The evaluation takes the price and    *)
(* the bars of the latest tick, but the candidate's state, tick age and     *)
(* readiness as the refresh has left them.  Rows that fail RetryLimit times *)
(* become dead letters, which block the candidate until an operator         *)
(* disposes of them or resets them.                                         *)
(*                                                                         *)
(* A queue is shorter than a chunk here, and all rows have one priority.    *)
(* Left out: the sweep of rows that are over a retry limit that was lowered, *)
(* RESET_BATCH, and what an evaluation computes.                            *)
(***************************************************************************)
EXTENDS Integers, Sequences, SequencesExt

CONSTANTS
  Cands,
  Enqueuers,    \* requests and cycles that enqueue, each on its own connection
  Workers,
  None,
  RetryLimit,   \* incremental_evaluation_retry_limit
  MaxTicks,     \* bound: ticks of a candidate
  MaxActions,   \* bound: dispositions an operator records
  MaxFaults     \* bound: enqueues that fail, leases that are lost

ASSUME IncrementalConstants ==
  /\ None \notin Workers /\ None \notin Cands
  /\ RetryLimit \in Nat \ {0}
  /\ MaxTicks \in Nat
  /\ MaxActions \in Nat
  /\ MaxFaults \in Nat

VARIABLES
  active,    \* candidates.state is not CLOSED
  tick,      \* market_ticks_latest: the number of the tick
  priced,    \* the tick whose price and bars the latest evaluation has read
  judged,    \* the tick of the candidate row (state, tick age, readiness) it went by
  slipped,   \* history: the latest tick applied between a refresh and its evaluation
  line,      \* incremental_evaluation_queue, oldest updated_at first
  attempts,
  dead,      \* dead letters of a candidate with their effective dispositions
  proven,    \* candidates evaluated since their latest RESET_CANARY
  dropped,   \* the latest tick of a candidate that was not enqueued, blocked or failed
  enq,       \* where each enqueuer is
  lock,      \* the worker that holds the evaluation lock
  run,       \* where each worker is
  actions,
  faults

vars == <<active, tick, priced, judged, slipped, line, attempts, dead, proven, dropped, enq, lock, run, actions, faults>>
queueVars == <<line, attempts>>
readVars == <<priced, judged, slipped>>

Idle == [at |-> "idle", rows |-> <<>>, read |-> 0]

Init ==
  /\ active = [c \in Cands |-> TRUE]
  /\ tick = [c \in Cands |-> 0]
  /\ priced = [c \in Cands |-> 0]
  /\ judged = [c \in Cands |-> 0]
  /\ slipped = [c \in Cands |-> 0]
  /\ line = <<>>
  /\ attempts = [c \in Cands |-> 0]
  /\ dead = [c \in Cands |-> <<>>]
  /\ proven = {}
  /\ dropped = [c \in Cands |-> 0]
  /\ enq = [e \in Enqueuers |-> [at |-> "idle", on |-> None]]
  /\ lock = None
  /\ run = [w \in Workers |-> Idle]
  /\ actions = 0
  /\ faults = 0

Queued(c) == Contains(line, c)
Without(c) == IF Queued(c) THEN RemoveAt(line, CHOOSE i \in DOMAIN line : line[i] = c) ELSE line

\* The row a worker is at.
Row(w) == Head(run[w].rows)

-----------------------------------------------------------------------------
(* Dead letters *)

\* _build_effective_row: the bucket of one dead letter.
Bucket(c, g) ==
  CASE dead[c][g] = "OPEN" -> IF active[c] THEN "ACTIVE_UNRESOLVED"
                              ELSE IF Queued(c) THEN "MANUAL_REVIEW"
                              ELSE "HISTORICAL_PENDING_DISPOSITION"
    [] dead[c][g] = "DISPOSED" -> IF active[c] \/ Queued(c) THEN "INVALID_DISPOSITION"
                                  ELSE "HISTORICAL_DISPOSED"
    [] dead[c][g] = "CANARY" -> "RECOVERY_PENDING"
    [] dead[c][g] = "VERIFIED" -> "RECOVERY_VERIFIED"

Blockers(c) == {Bucket(c, g) : g \in DOMAIN dead[c]} \ {"HISTORICAL_DISPOSED", "RECOVERY_VERIFIED"}

\* is_incremental_evaluation_candidate_blocked_by_dead_letter.
Blocked(c) == Blockers(c) # {}

\* can_append_incremental_evaluation_dead_letter_generation.
Appendable(c) == Blockers(c) \subseteq {"RECOVERY_PENDING"}

-----------------------------------------------------------------------------
(* enqueue_incremental_evaluation_for_code *)

\* A price tick is applied; enqueue_incremental_evaluation_for_event is next.
ApplyTick(e, c) ==
  /\ enq[e].at = "idle"
  /\ tick[c] < MaxTicks
  /\ tick' = [tick EXCEPT ![c] = @ + 1]
  /\ slipped' = [slipped EXCEPT ![c] =
                    IF \E w \in Workers : run[w].at = "refreshed" /\ Row(w) = c THEN tick[c] + 1 ELSE @]
  /\ enq' = [enq EXCEPT ![e] = [at |-> "check", on |-> c]]
  /\ UNCHANGED <<active, priced, judged, queueVars, dead, proven, dropped, lock, run, actions, faults>>

\* enqueue_incremental_evaluation_for_fresh_candidates: the latest evaluation is older than
\* the latest tick (evaluated_at < event_ts); the context it went by is not looked at.
Backfill(e, c) ==
  /\ enq[e].at = "idle"
  /\ active[c]
  /\ tick[c] > priced[c]
  /\ enq' = [enq EXCEPT ![e] = [at |-> "check", on |-> c]]
  /\ UNCHANGED <<active, tick, readVars, queueVars, dead, proven, dropped, lock, run, actions, faults>>

\* The candidate and its dead letters are read, outside any transaction.
Check(e) ==
  /\ enq[e].at = "check"
  /\ LET c == enq[e].on
     IN IF active[c] /\ ~Blocked(c)
        THEN enq' = [enq EXCEPT ![e].at = "insert"] /\ UNCHANGED dropped
        ELSE /\ enq' = [enq EXCEPT ![e] = [at |-> "idle", on |-> None]]
             /\ dropped' = [dropped EXCEPT ![c] = tick[c]]
  /\ UNCHANGED <<active, tick, readVars, queueVars, dead, proven, lock, run, actions, faults>>

\* Fault: a row that is there is not replaced.
InsertFault(e) ==
  /\ enq[e].at = "insert"
  /\ line' = Append(line, enq[e].on)
  /\ attempts' = [attempts EXCEPT ![enq[e].on] = 0]
  /\ enq' = [enq EXCEPT ![e] = [at |-> "idle", on |-> None]]
  /\ UNCHANGED <<active, tick, readVars, dead, proven, dropped, lock, run, actions, faults>>

\* The row is inserted; one that is there keeps its attempts and goes to the end.
Insert(e) ==
  /\ enq[e].at = "insert"
  /\ LET c == enq[e].on
     IN /\ line' = Append(Without(c), c)
        /\ attempts' = [attempts EXCEPT ![c] = IF Queued(c) THEN @ ELSE 0]
  /\ enq' = [enq EXCEPT ![e] = [at |-> "idle", on |-> None]]
  /\ UNCHANGED <<active, tick, readVars, dead, proven, dropped, lock, run, actions, faults>>

\* enqueue_incremental_for_price_tick_projection swallows the exception.
EnqueueFails(e) ==
  /\ enq[e].at # "idle"
  /\ faults < MaxFaults
  /\ faults' = faults + 1
  /\ dropped' = [dropped EXCEPT ![enq[e].on] = tick[enq[e].on]]
  /\ enq' = [enq EXCEPT ![e] = [at |-> "idle", on |-> None]]
  /\ UNCHANGED <<active, tick, readVars, queueVars, dead, proven, lock, run, actions>>

\* The candidate is closed, for good.
Close(c) ==
  /\ active[c]
  /\ active' = [active EXCEPT ![c] = FALSE]
  /\ UNCHANGED <<tick, readVars, queueVars, dead, proven, dropped, enq, lock, run, actions, faults>>

-----------------------------------------------------------------------------
(* process_incremental_evaluation_batch *)

NextRow(w) == run' = [run EXCEPT ![w] = [at |-> "row", rows |-> Tail(@.rows), read |-> 0]]
EndRun(w) ==
  /\ run' = [run EXCEPT ![w] = Idle]
  /\ lock' = IF lock = w THEN None ELSE lock

\* The lock is taken and a chunk of rows is read.
StartBatch(w) ==
  /\ run[w].at = "idle"
  /\ lock = None
  /\ line # <<>>
  /\ lock' = w
  /\ run' = [run EXCEPT ![w] = [at |-> "row", rows |-> line, read |-> 0]]
  /\ UNCHANGED <<active, tick, readVars, queueVars, dead, proven, dropped, enq, actions, faults>>

\* The candidate was closed: its row goes, in a transaction without the fence.
SkipClosed(w) ==
  /\ run[w].at \in {"row", "refreshed"} /\ run[w].rows # <<>>
  /\ run[w].at = "row" => lock = w
  /\ ~active[Row(w)]
  /\ line' = Without(Row(w))
  /\ NextRow(w)
  /\ UNCHANGED <<active, tick, readVars, attempts, dead, proven, dropped, enq, lock, actions, faults>>

\* refresh_candidate_context, which commits, or an error of it; a lost fence is one.
Refresh(w) ==
  /\ run[w].at = "row" /\ run[w].rows # <<>>
  /\ \E at \in {"refreshed", "error"} :
       /\ at = "refreshed" => lock = w
       /\ lock = w => active[Row(w)]
       /\ run' = [run EXCEPT ![w].at = at, ![w].read = tick[Row(w)]]
  /\ UNCHANGED <<active, tick, readVars, queueVars, dead, proven, dropped, enq, lock, actions, faults>>

\* Strategy, risk and entry timing from the prices of the latest tick and the candidate row
\* the refresh has committed; the queue row is deleted whoever has put it there.  One
\* transaction, under the fence.
Evaluate(w) ==
  /\ run[w].at = "refreshed"
  /\ lock = w
  /\ priced' = [priced EXCEPT ![Row(w)] = tick[Row(w)]]
  /\ judged' = [judged EXCEPT ![Row(w)] = run[w].read]
  /\ line' = Without(Row(w))
  /\ proven' = proven \cup {Row(w)}
  /\ NextRow(w)
  /\ UNCHANGED <<active, tick, slipped, attempts, dead, dropped, enq, lock, actions, faults>>

\* Fault: the row was deleted before the transaction that is rolled back.
EvaluateFailsFault(w) ==
  /\ run[w].at = "refreshed"
  /\ line' = Without(Row(w))
  /\ run' = [run EXCEPT ![w].at = "error"]
  /\ UNCHANGED <<active, tick, readVars, attempts, dead, proven, dropped, enq, lock, actions, faults>>

\* Any of it fails, or the fence is lost: the transaction is rolled back.
EvaluateFails(w) ==
  /\ run[w].at = "refreshed"
  /\ run' = [run EXCEPT ![w].at = "error"]
  /\ UNCHANGED <<active, tick, readVars, queueVars, dead, proven, dropped, enq, lock, actions, faults>>

\* Fault: the row keeps its place and its attempts.
CountAttemptFault(c) ==
  /\ UNCHANGED <<queueVars, dead>>

\* _mark_queue_error and _move_queue_row_to_dead_letter for a row that is there.
CountAttempt(c) ==
  IF attempts[c] + 1 >= RetryLimit
  THEN /\ Appendable(c)
       /\ dead' = [dead EXCEPT ![c] = Append(@, "OPEN")]
       /\ line' = Without(c)
       /\ UNCHANGED attempts
  ELSE /\ attempts' = [attempts EXCEPT ![c] = @ + 1]
       /\ line' = Append(Without(c), c)
       /\ UNCHANGED dead

\* The error is recorded under the fence and the next row follows.
MarkError(w) ==
  /\ run[w].at = "error"
  /\ lock = w
  /\ IF Queued(Row(w)) THEN CountAttempt(Row(w)) ELSE UNCHANGED <<queueVars, dead>>
  /\ NextRow(w)
  /\ UNCHANGED <<active, tick, readVars, proven, dropped, enq, lock, actions, faults>>

\* No fence, or a dead letter that cannot be appended: the exception ends the run.
MarkErrorRaises(w) ==
  /\ run[w].at = "error"
  /\ lock # w \/ (/\ Queued(Row(w))
                  /\ attempts[Row(w)] + 1 >= RetryLimit
                  /\ ~Appendable(Row(w)))
  /\ EndRun(w)
  /\ UNCHANGED <<active, tick, readVars, queueVars, dead, proven, dropped, enq, actions, faults>>

EndBatch(w) ==
  /\ run[w].at = "row" /\ run[w].rows = <<>>
  /\ EndRun(w)
  /\ UNCHANGED <<active, tick, readVars, queueVars, dead, proven, dropped, enq, actions, faults>>

\* The lease of a worker that stalls or has died expires.
LeaseLost(w) ==
  /\ lock = w
  /\ faults < MaxFaults
  /\ faults' = faults + 1
  /\ lock' = None
  /\ \E dies \in BOOLEAN : run' = IF dies THEN [run EXCEPT ![w] = Idle] ELSE run
  /\ UNCHANGED <<active, tick, readVars, queueVars, dead, proven, dropped, enq, actions>>

-----------------------------------------------------------------------------
(* The operator's commands; all of them need every lock to be free *)

Record(c, g, disposition) ==
  /\ lock = None
  /\ actions < MaxActions
  /\ actions' = actions + 1
  /\ dead' = [dead EXCEPT ![c][g] = disposition]
  /\ UNCHANGED <<active, tick, readVars, dropped, enq, lock, run, faults>>

\* DISPOSE_OBSOLETE_CLOSED_CANDIDATE.
Dispose(c, g) ==
  /\ Bucket(c, g) = "HISTORICAL_PENDING_DISPOSITION"
  /\ Record(c, g, "DISPOSED")
  /\ UNCHANGED <<queueVars, proven>>

\* RESET_CANARY puts the candidate back into the queue.
ResetCanary(c, g) ==
  /\ Bucket(c, g) = "ACTIVE_UNRESOLVED"
  /\ ~Queued(c)
  /\ Record(c, g, "CANARY")
  /\ line' = Append(line, c)
  /\ attempts' = [attempts EXCEPT ![c] = 0]
  /\ proven' = proven \ {c}

\* VERIFY_CANARY: evaluated since, not in the queue, and no newer dead letter.
VerifyCanary(c, g) ==
  /\ dead[c][g] = "CANARY"
  /\ ~Queued(c)
  /\ c \in proven
  /\ g = Len(dead[c])
  /\ Record(c, g, "VERIFIED")
  /\ UNCHANGED <<queueVars, proven>>

\* REVOKE takes back any effective disposition; the queue is not looked at.
Revoke(c, g) ==
  /\ dead[c][g] # "OPEN"
  /\ Record(c, g, "OPEN")
  /\ UNCHANGED <<queueVars, proven>>

-----------------------------------------------------------------------------
(* Specification *)

EnqueueStep ==
  \E e \in Enqueuers :
    \/ \E c \in Cands : ApplyTick(e, c) \/ Backfill(e, c)
    \/ Check(e) \/ Insert(e) \/ EnqueueFails(e)

WorkerStep(w) ==
  \/ StartBatch(w) \/ SkipClosed(w) \/ Refresh(w) \/ Evaluate(w) \/ EvaluateFails(w)
  \/ MarkError(w) \/ MarkErrorRaises(w) \/ EndBatch(w)

OperatorStep ==
  \E c \in Cands : \E g \in DOMAIN dead[c] :
    Dispose(c, g) \/ ResetCanary(c, g) \/ VerifyCanary(c, g) \/ Revoke(c, g)

Next ==
  \/ EnqueueStep
  \/ \E c \in Cands : Close(c)
  \/ \E w \in Workers : WorkerStep(w) \/ LeaseLost(w)
  \/ OperatorStep

Spec == Init /\ [][Next]_vars

\* _incremental_evaluation_loop runs the batch again and again, whatever it raised.
FairSpec == Spec /\ \A w \in Workers : WF_vars(WorkerStep(w))

-----------------------------------------------------------------------------
(* Properties *)

\* Each candidate has one row at most, rows have attempts left, and dead letters have a
\* disposition the ledger knows.
TypeOK ==
  /\ active \in [Cands -> BOOLEAN]
  /\ \A f \in {tick, priced, judged, slipped} : f \in [Cands -> 0..MaxTicks]
  /\ IsInjective(line) /\ \A i \in DOMAIN line : line[i] \in Cands
  /\ attempts \in [Cands -> 0..RetryLimit - 1]
  /\ \A c \in Cands : \A g \in DOMAIN dead[c] : dead[c][g] \in {"OPEN", "DISPOSED", "CANARY", "VERIFIED"}
  /\ lock \in Workers \cup {None}
  /\ \A w \in Workers : run[w].at \in {"idle", "row", "refreshed", "error"}

Enqueueing(c) == \E e \in Enqueuers : enq[e].on = c

\* The latest tick of a candidate is never forgotten: an evaluation has gone by a context
\* that knows it, or the candidate is in the queue, about to be, blocked by a dead letter or
\* closed, or the enqueue of that tick was refused.  One window is open and only one: of a
\* tick applied between refresh_candidate_context and the evaluation that deletes its row
\* (_delete_queue_row) the evaluation has read the price, but not the context.
NoTickForgotten ==
  \A c \in Cands :
    active[c] /\ tick[c] > judged[c] =>
      \/ Queued(c) \/ Enqueueing(c) \/ Blocked(c) \/ dropped[c] = tick[c]
      \/ slipped[c] = tick[c] /\ priced[c] = tick[c]

\* A queued candidate whose failures can no longer be recorded.
Stuck(c) == Queued(c) /\ ~Appendable(c)

\* Every row leaves the queue, by an evaluation, as a dead letter or because its candidate
\* is closed, unless a row is stuck beside an unresolved dead letter of its candidate
\* (process_incremental_evaluation_batch, _mark_queue_error).
QueueDrains ==
  \A c \in Cands : Queued(c) ~> ~Queued(c) \/ \E d \in Cands : Stuck(d)

=============================================================================
