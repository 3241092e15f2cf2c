-------------------------- MODULE EvaluationRunGuard --------------------------
(***************************************************************************)
(* The lock that keeps two evaluation runs apart                            *)
(* (services/runtime/evaluation_run_guard.py): a row in SQLite with an      *)
(* owner, a time to live and a fencing token, renewed by a heartbeat thread *)
(* and checked inside every write transaction of the run.                   *)
(*                                                                         *)
(* The runs are threads of processes that share the database.  A process    *)
(* may crash between any two transactions or inside one, which rolls it     *)
(* back; a heartbeat may stall for longer than the time to live.  Only one  *)
(* connection at a time is in a write transaction (BEGIN IMMEDIATE), so a   *)
(* transaction that does nothing but change the lock row is one action.     *)
(* The clock is abstracted to whether expires_at has passed.  The model has *)
(* one lock_name; rows of different names never meet.                       *)
(***************************************************************************)
EXTENDS Naturals

CONSTANTS
  Runs,         \* threads that start evaluation runs
  Procs,        \* process ids
  ProcOf,       \* the process of each thread
  Cores,        \* the processes that are Core, the others are operator tools
  Trusted,      \* the processes of which os.kill(pid, 0) fails only when they are dead
  None,
  MaxToken,     \* bound: acquisitions
  MaxCrashes    \* bound: crashes

ASSUME GuardConstants ==
  /\ ProcOf \in [Runs -> Procs]
  /\ Cores \subseteq Procs
  /\ Trusted \subseteq Procs
  /\ None \notin Runs
  /\ MaxToken \in Nat
  /\ MaxCrashes \in Nat

VARIABLES
  row,        \* runtime_execution_locks: owner (None: no row), token, expired
  lastToken,  \* runtime_execution_lock_fences.last_fencing_token
  writer,     \* the run that is in a write transaction, or None
  pc,         \* where each thread is
  lease,      \* fencing_token of the run's lease, 0 outside a run
  beats,      \* the heartbeat threads: their run, token and _stop_event
  lost,       \* tokens of the leases whose _lost_error is set
  written,    \* token of the last run that committed an immediate_transaction
  deleted,    \* token of the last run that deleted a closed candidate's queue row
  up,         \* whether each process is running
  crashes

vars == <<row, lastToken, writer, pc, lease, beats, lost, written, deleted, up, crashes>>

-----------------------------------------------------------------------------
(* State *)

NoRow == [owner |-> None, token |-> 0, expired |-> FALSE]

\* A run is in its body, in an immediate_transaction before and after the fence
\* check, between the check and the deletion of a queue row, or leaving:
\* body ended, lease found current, body raised.
InRun == {"body", "begun", "txn", "queue", "ended", "current", "failed"}

\* idle: between runs; gone: the thread has ended; dead: its process has.
Places == InRun \cup {"idle", "gone", "dead"}

ThreadAlive(r) == pc[r] \notin {"gone", "dead"}

\* The row is the one the lease was granted with.
Holds(r, t) == row.owner = r /\ row.token = t

\* RuntimeExecutionLease.assert_current.
Current(r) == lease[r] \notin lost /\ Holds(r, lease[r])

\* Fault: no process can tell that another one has died.
MayLookDeadFault(p, r) == ProcOf[r] = p /\ ~ThreadAlive(r)

\* The processes for which _lock_owner_is_alive may say no: it knows its own
\* threads, and asks os.kill about other processes, where an OSError other than
\* PermissionError counts as dead.  A process that got a dead one's id, or a
\* thread that got a dead one's, passes for it.
MayLookDead(p, r) ==
  IF ProcOf[r] = p THEN ~ThreadAlive(r) ELSE ~up[ProcOf[r]] \/ ProcOf[r] \notin Trusted

Init ==
  /\ row = NoRow
  /\ lastToken = 0
  /\ writer = None
  /\ pc = [r \in Runs |-> "idle"]
  /\ lease = [r \in Runs |-> 0]
  /\ beats = {}
  /\ lost = {}
  /\ written = 0
  /\ deleted = 0
  /\ up = [p \in Procs |-> TRUE]
  /\ crashes = 0

-----------------------------------------------------------------------------
(* A run *)

Goto(r, place) == pc' = [pc EXCEPT ![r] = place]

\* Fault: the time to live alone decides.
MayTakeFault(p) == row.owner # None => row.expired

\* _acquire_lock: no row, or one that has expired and whose owner looks dead.
MayTake(p) == row.owner # None => row.expired /\ MayLookDead(p, row.owner)

\* runtime_execution_lock up to the yield.  A refused run changes nothing.
Acquire(r) ==
  /\ pc[r] = "idle"
  /\ writer = None
  /\ MayTake(ProcOf[r])
  /\ lastToken < MaxToken
  /\ lastToken' = lastToken + 1
  /\ row' = [owner |-> r, token |-> lastToken + 1, expired |-> FALSE]
  /\ lease' = [lease EXCEPT ![r] = lastToken + 1]
  /\ beats' = beats \cup {[run |-> r, token |-> lastToken + 1, stop |-> FALSE]}
  /\ Goto(r, "body")
  /\ UNCHANGED <<writer, lost, written, deleted, up, crashes>>

\* immediate_transaction: BEGIN IMMEDIATE.
Begin(r) ==
  /\ pc[r] = "body"
  /\ writer = None
  /\ writer' = r
  /\ Goto(r, "begun")
  /\ UNCHANGED <<row, lastToken, lease, beats, lost, written, deleted, up, crashes>>

\* Fault: the check before BEGIN IMMEDIATE is thought to be enough.
FenceFault(r) ==
  /\ pc[r] = "begun"
  /\ Goto(r, "txn")
  /\ UNCHANGED <<row, lastToken, writer, lease, beats, lost, written, deleted, up, crashes>>

\* assert_runtime_execution_fence in the transaction.  What it renews is not
\* visible before the commit.
Fence(r) ==
  /\ pc[r] = "begun"
  /\ Current(r)
  /\ Goto(r, "txn")
  /\ UNCHANGED <<row, lastToken, writer, lease, beats, lost, written, deleted, up, crashes>>

\* The fence check raises, the transaction is rolled back and the error handler,
\* whose own transaction fails in the same way, leaves the run.
FenceLost(r) ==
  /\ pc[r] = "begun"
  /\ ~Current(r)
  /\ writer' = None
  /\ Goto(r, "failed")
  /\ UNCHANGED <<row, lastToken, lease, beats, lost, written, deleted, up, crashes>>

\* The transaction's results and the renewed lease become visible.
Commit(r) ==
  /\ pc[r] = "txn"
  /\ writer' = None
  /\ written' = lease[r]
  /\ row' = [row EXCEPT !.expired = FALSE]
  /\ Goto(r, "body")
  /\ UNCHANGED <<lastToken, lease, beats, lost, deleted, up, crashes>>

\* The work in the transaction raises: rollback.  The error ends the run, or is
\* caught and noted in a transaction of its own.
Rollback(r) ==
  /\ pc[r] = "txn"
  /\ writer' = None
  /\ \E place \in {"body", "failed"} : Goto(r, place)
  /\ UNCHANGED <<row, lastToken, lease, beats, lost, written, deleted, up, crashes>>

\* process_incremental_evaluation_batch, for every queued candidate: the fence is
\* checked and the lease renewed in a transaction of the check's own.
CheckCandidate(r) ==
  /\ pc[r] = "body"
  /\ writer = None
  /\ IF Current(r)
     THEN row' = [row EXCEPT !.expired = FALSE] /\ Goto(r, "queue")
     ELSE UNCHANGED row /\ Goto(r, "failed")
  /\ UNCHANGED <<lastToken, writer, lease, beats, lost, written, deleted, up, crashes>>

\* The candidate is closed: its queue row is deleted and the deletion committed.
DeleteClosed(r) ==
  /\ pc[r] = "queue"
  /\ writer = None
  /\ deleted' = lease[r]
  /\ Goto(r, "body")
  /\ UNCHANGED <<row, lastToken, writer, lease, beats, lost, written, up, crashes>>

\* The candidate is active, or the deletion failed.
KeepCandidate(r) ==
  /\ pc[r] = "queue"
  /\ Goto(r, "body")
  /\ UNCHANGED <<row, lastToken, writer, lease, beats, lost, written, deleted, up, crashes>>

\* The body is over, with or without an error; _stop_lease_heartbeat sets the
\* event and does not wait longer than a timeout for the thread.
EndBody(r) ==
  /\ pc[r] = "body"
  /\ \E place \in {"ended", "failed"} : Goto(r, place)
  /\ UNCHANGED <<row, lastToken, writer, lease, beats, lost, written, deleted, up, crashes>>

StopHeartbeat(r) ==
  {IF b.run = r THEN [b EXCEPT !.stop = TRUE] ELSE b : b \in beats}

\* assert_current(renew=False), a read; an error leaves without a release.
CheckAtEnd(r) ==
  /\ pc[r] = "ended"
  /\ beats' = StopHeartbeat(r)
  /\ IF Current(r)
     THEN Goto(r, "current") /\ UNCHANGED lease
     ELSE Goto(r, "idle") /\ lease' = [lease EXCEPT ![r] = 0]
  /\ UNCHANGED <<row, lastToken, writer, lost, written, deleted, up, crashes>>

\* _release_lock deletes the row with the lease's owner and token, if it is there.
Release(r) ==
  /\ pc[r] \in {"current", "failed"}
  /\ writer = None
  /\ beats' = StopHeartbeat(r)
  /\ row' = IF Holds(r, lease[r]) THEN NoRow ELSE row
  /\ lease' = [lease EXCEPT ![r] = 0]
  /\ Goto(r, "idle")
  /\ UNCHANGED <<lastToken, writer, lost, written, deleted, up, crashes>>

\* _release_lock gives up on a locked database: the row stays.
ReleaseFails(r) ==
  /\ pc[r] \in {"current", "failed"}
  /\ beats' = StopHeartbeat(r)
  /\ lease' = [lease EXCEPT ![r] = 0]
  /\ Goto(r, "idle")
  /\ UNCHANGED <<row, lastToken, writer, lost, written, deleted, up, crashes>>

-----------------------------------------------------------------------------
(* Heartbeats, time, threads and processes *)

\* Fault: a locked database counts as a lost lease.
HeartbeatFault(b) ==
  /\ b \in beats
  /\ IF Holds(b.run, b.token) /\ writer = None
     THEN /\ row' = [row EXCEPT !.expired = FALSE]
          /\ beats' = IF b.stop THEN beats \ {b} ELSE beats
          /\ UNCHANGED lost
     ELSE /\ lost' = lost \cup {b.token}
          /\ beats' = beats \ {b}
          /\ UNCHANGED row
  /\ UNCHANGED <<lastToken, writer, pc, lease, written, deleted, up, crashes>>

\* One turn of heartbeat_loop.  A lease that is no longer in the row ends it; so
\* does a set _stop_event, which a turn that has begun does not see.
Heartbeat(b) ==
  /\ b \in beats
  /\ writer = None
  /\ IF Holds(b.run, b.token)
     THEN /\ row' = [row EXCEPT !.expired = FALSE]
          /\ beats' = IF b.stop THEN beats \ {b} ELSE beats
          /\ UNCHANGED lost
     ELSE /\ lost' = lost \cup {b.token}
          /\ beats' = beats \ {b}
          /\ UNCHANGED row
  /\ UNCHANGED <<lastToken, writer, pc, lease, written, deleted, up, crashes>>

\* The loop sees _stop_event, or an OperationalError that is not a lock.
HeartbeatEnds(b) ==
  /\ b \in beats
  /\ beats' = beats \ {b}
  /\ UNCHANGED <<row, lastToken, writer, pc, lease, lost, written, deleted, up, crashes>>

\* ttl_sec pass without a renewal.
Expire ==
  /\ row.owner # None
  /\ ~row.expired
  /\ row' = [row EXCEPT !.expired = TRUE]
  /\ UNCHANGED <<lastToken, writer, pc, lease, beats, lost, written, deleted, up, crashes>>

\* A worker thread ends, or one with the same identifier starts.
ThreadTurn(r) ==
  /\ \/ pc[r] = "idle" /\ Goto(r, "gone")
     \/ pc[r] = "gone" /\ Goto(r, "idle")
  /\ UNCHANGED <<row, lastToken, writer, lease, beats, lost, written, deleted, up, crashes>>

\* SQLite rolls back the transaction the process was in.
Crash(p) ==
  /\ up[p]
  /\ crashes < MaxCrashes
  /\ crashes' = crashes + 1
  /\ up' = [up EXCEPT ![p] = FALSE]
  /\ pc' = [r \in Runs |-> IF ProcOf[r] = p THEN "dead" ELSE pc[r]]
  /\ lease' = [r \in Runs |-> IF ProcOf[r] = p THEN 0 ELSE lease[r]]
  /\ beats' = {b \in beats : ProcOf[b.run] # p}
  /\ writer' = IF writer # None /\ ProcOf[writer] = p THEN None ELSE writer
  /\ UNCHANGED <<row, lastToken, lost, written, deleted>>

\* clear_runtime_execution_locks: residual rows of this process id, and expired
\* rows of owners that look dead.
Clears(p) ==
  /\ row.owner # None
  /\ ProcOf[row.owner] = p \/ (row.expired /\ MayLookDead(p, row.owner))

\* A process starts; Core clears residual rows before it starts any run.
Start(p) ==
  /\ ~up[p]
  /\ writer = None
  /\ up' = [up EXCEPT ![p] = TRUE]
  /\ pc' = [r \in Runs |-> IF ProcOf[r] = p THEN "idle" ELSE pc[r]]
  /\ row' = IF p \in Cores /\ Clears(p) THEN NoRow ELSE row
  /\ UNCHANGED <<lastToken, writer, lease, beats, lost, written, deleted, crashes>>

Next ==
  \/ \E r \in Runs :
       \/ Acquire(r) \/ Begin(r) \/ Fence(r) \/ FenceLost(r) \/ Commit(r) \/ Rollback(r)
       \/ CheckCandidate(r) \/ DeleteClosed(r) \/ KeepCandidate(r)
       \/ EndBody(r) \/ CheckAtEnd(r) \/ Release(r) \/ ReleaseFails(r) \/ ThreadTurn(r)
  \/ \E b \in beats : Heartbeat(b) \/ HeartbeatEnds(b)
  \/ \E p \in Procs : Crash(p) \/ Start(p)
  \/ Expire

Spec == Init /\ [][Next]_vars

\* What a run does after its body, or once its fence check has failed.
Leave(r) == FenceLost(r) \/ CheckAtEnd(r) \/ Release(r) \/ ReleaseFails(r)

\* Time passes, and the worker loops of a process that runs (apps/core_api.py) call
\* runtime_execution_lock again and again: a process does not miss every
\* opportunity to take the lock.  A run's batch is finite: the run ends.
Fairness ==
  /\ WF_vars(Expire)
  /\ \A p \in Procs : WF_vars(\E r \in Runs : ProcOf[r] = p /\ pc[r] = "gone" /\ ThreadTurn(r))
  /\ \A p \in Procs : SF_vars(\E r \in Runs : ProcOf[r] = p /\ Acquire(r))
  /\ \A r \in Runs : SF_vars(EndBody(r)) /\ WF_vars(Leave(r))

FairSpec == Spec /\ Fairness

-----------------------------------------------------------------------------
(* Properties *)

\* The shape of the state; no token is in use that the fences table has not given
\* out.
TypeOK ==
  /\ row \in [owner : Runs \cup {None}, token : 0..lastToken, expired : BOOLEAN]
  /\ lastToken \in Nat
  /\ writer \in Runs \cup {None}
  /\ pc \in [Runs -> Places]
  /\ lease \in [Runs -> 0..lastToken]
  /\ beats \subseteq [run : Runs, token : 1..lastToken, stop : BOOLEAN]
  /\ lost \subseteq 1..lastToken
  /\ written \in 0..lastToken
  /\ deleted \in 0..lastToken
  /\ up \in [Procs -> BOOLEAN]
  /\ crashes \in Nat

\* The lock implements FencedLock: every immediate_transaction that commits is one
\* of the current holder, under the last token, whatever crashed, stalled, was
\* taken over or cleaned up before.
Lock == INSTANCE FencedLock WITH Clients <- Runs, holder <- row.owner, epoch <- lastToken

Fenced == Lock!Spec

\* The results of a newer run are never followed by those of an older one: the
\* tokens of the committed transactions do not decrease.
WritesInTokenOrder == [][written' >= written]_vars

\* A run that is not over has the lock, if os.kill tells the truth of its process, so
\* no two such runs are active at once: neither the time to live, nor a stalled
\* heartbeat, nor another process's startup cleanup takes the lock from a live owner.
RunHasLock ==
  \A r \in Runs : ProcOf[r] \in Trusted /\ pc[r] \in InRun => Holds(r, lease[r])

\* The deletion of a closed candidate's queue row, which follows the fence check in a
\* transaction of its own, is still the lock holder's, if os.kill tells the truth of
\* the deleting run's process.
DeletesAreFenced ==
  [][\A r \in Runs :
       ProcOf[r] \in Trusted /\ pc[r] = "queue" /\ deleted' # deleted /\ pc'[r] # pc[r] =>
         row.owner = r /\ deleted' = row.token]_vars

\* A heartbeat that gives up its lease does so for good reason: a lease marked lost
\* is not the one in the row, so a run never refuses its own valid lock.
LostLeaseIsGone == row.owner # None => row.token \notin lost

\* A row whose process has crashed does not block the pipeline for ever: another
\* process takes the lock over once it has expired, or a start clears it.
DeadOwnersRowGoes ==
  \A t \in 1..(MaxToken - 1) :
    (row.token = t /\ ~up[ProcOf[row.owner]]) ~> (row.token # t)
=============================================================================
