----------------------------- MODULE CoreIoWorker -----------------------------
(***************************************************************************)
(* The event buffer between the Gateway's threads and Core                 *)
(* (gateway/core_io_worker.py).  Producers put events into a deque under a  *)
(* lock; one worker thread copies a batch out, posts it without the lock    *)
(* and, when Core has answered, removes the posted events by identity.      *)
(* Meanwhile producers insert, replace and drop events in the same deque.   *)
(*                                                                         *)
(* Core (api/routes/gateway.py) commits a fast batch (price_tick,           *)
(* condition_event) in one transaction and any other batch one event at a   *)
(* time; it may answer 503 in the middle, and it goes on with a request the *)
(* worker has given up on.  It drops an event_id it knows.                  *)
(***************************************************************************)
EXTENDS Naturals, Sequences, SequencesExt

CONSTANTS
  Types,          \* the event types the producers use
  Keys,           \* stock or index codes
  CoalesceAfter,  \* coalesce_after_size
  MaxBuffer,      \* max_buffer_size
  BatchSize,      \* event_batch_size
  PriorityShare,  \* 16 in the code
  MarketShare,    \* market_batch_share
  MaxEvents,      \* bound: events produced
  MaxFailures     \* bound: failed or abandoned requests

ASSUME WorkerConstants ==
  /\ Types \subseteq {"command_event", "tr_response", "heartbeat", "market_index_tick", "price_tick",
                      "quote_tick", "condition_event", "gateway_log", "gateway_error"}
  /\ {CoalesceAfter, MaxBuffer, BatchSize, PriorityShare, MarketShare} \subseteq Nat \ {0}
  /\ MaxEvents \in Nat /\ MaxFailures \in Nat

VARIABLES
  produced,   \* every event ever enqueued, in order (history)
  events,     \* _events, the deque
  batch,      \* the batch being posted, <<>> while the worker is idle
  lastFast,   \* _last_successful_batch_fast
  todo,       \* what Core has still to commit of the request in flight
  late,       \* the same for requests the worker has given up on
  core,       \* the events Core has committed, in order
  dropped,    \* events deleted by the buffer limit
  failures

vars == <<produced, events, batch, lastFast, todo, late, core, dropped, failures>>

-----------------------------------------------------------------------------
(* Classes of events.  "command_event" stands for the ten command-critical   *)
(* types, which the worker does not tell apart.                              *)

Event(type, key, n) == [type |-> type, key |-> key, n |-> n]
Events == [type : Types, key : Keys, n : 1 .. MaxEvents]

Critical(e)      == e.type = "command_event"
DropProtected(e) == Critical(e) \/ e.type = "tr_response"
Priority(e)      == e.type \in {"heartbeat", "market_index_tick", "tr_response"}
MarketRefresh(e) == e.type \in {"price_tick", "quote_tick", "market_index_tick"}
Droppable(e)     == MarketRefresh(e) \/ e.type \in {"heartbeat", "gateway_log"}
Fast(e)          == e.type \in {"price_tick", "condition_event"}

\* _coalescing_key: heartbeats have one key, ticks one per code.
Coalescing(e) == MarketRefresh(e) \/ e.type = "heartbeat"
SameCoalescingKey(e, f) ==
  Coalescing(e) /\ e.type = f.type /\ (e.type = "heartbeat" \/ e.key = f.key)

-----------------------------------------------------------------------------
(* The deque *)

\* Keep(S)[s]: the elements of s that are in S, in order.
Keep(S) ==
  [s \in Seq(Events) |->
     LET kept[i \in 0 .. Len(s)] ==
           IF i = 0 THEN <<>> ELSE IF s[i] \in S THEN Append(kept[i - 1], s[i]) ELSE kept[i - 1]
     IN kept[Len(s)]]

\* The first index of s with property P, 0 if there is none.
FirstIndex(s, P(_)) ==
  IF \E i \in DOMAIN s : P(s[i])
  THEN CHOOSE i \in DOMAIN s : P(s[i]) /\ \A j \in 1 .. i - 1 : ~P(s[j])
  ELSE 0

\* Fault: the event is put in front of the waiting command events.
InsertAfterCommandCriticalFault(s, e) == <<e>> \o s

\* _insert_after_command_critical_locked: behind the last command event.
InsertAfterCommandCritical(s, e) ==
  LET last == IF \E i \in DOMAIN s : Critical(s[i])
              THEN CHOOSE i \in DOMAIN s : Critical(s[i]) /\ \A j \in i + 1 .. Len(s) : ~Critical(s[j])
              ELSE 0
  IN InsertAt(s, last + 1, e)

\* _enforce_buffer_limit_locked: the oldest low-value event goes first, then the
\* oldest unprotected one; 0 if every event is protected.
DropIndex(s) ==
  LET low == FirstIndex(s, Droppable)
      unprotected == FirstIndex(s, LAMBDA e : ~DropProtected(e))
  IN IF low # 0 THEN low ELSE unprotected

\* One event is added at a time, so at most one is over the limit; the deque
\* stays over it once it holds nothing but protected events.  A coalesced event
\* does not lengthen it: the limit, which the code skips there, changes nothing.
EnforceBufferLimit(s) ==
  IF Len(s) > MaxBuffer /\ DropIndex(s) # 0 THEN RemoveAt(s, DropIndex(s)) ELSE s

\* Fault: the queued event is kept, the new one is forgotten.
CoalesceEventFault(s, e) == s

\* _coalesce_event_locked: the new event takes the place of the first queued
\* one with its key.
CoalesceEvent(s, e) == ReplaceAt(s, FirstIndex(s, LAMBDA f : SameCoalescingKey(f, e)), e)

\* enqueue_event without the buffer limit.
Enqueued(s, e) ==
  LET same == FirstIndex(s, LAMBDA f : SameCoalescingKey(f, e)) IN
  IF Critical(e) THEN InsertAfterCommandCritical(s, e)
  ELSE IF Priority(e) THEN InsertAfterCommandCritical(IF same # 0 THEN RemoveAt(s, same) ELSE s, e)
  ELSE IF Len(s) >= CoalesceAfter /\ same # 0 THEN CoalesceEvent(s, e)
  ELSE Append(s, e)

-----------------------------------------------------------------------------
(* The choice of a batch *)

Some(P(_)) == \E i \in DOMAIN events : P(events[i])
FirstOf(P(_)) == events[FirstIndex(events, P)]

\* Fault: the groups alternate without a look at what is queued.
SelectBatchFastGroupFault == lastFast = "no"

\* _select_batch_fast_group_locked: a batch is all fast or all not.
SelectBatchFastGroup ==
  IF ~Some(Fast) THEN FALSE
  ELSE IF ~Some(LAMBDA e : ~Fast(e)) THEN TRUE
  ELSE IF Some(Critical) THEN Fast(FirstOf(Critical))
  ELSE IF lastFast # "none" THEN lastFast = "no"
  ELSE Fast(IF Some(Priority) THEN FirstOf(Priority)
            ELSE IF Some(MarketRefresh) THEN FirstOf(MarketRefresh)
            ELSE events[1])

Least(a, b) == IF a < b THEN a ELSE b

\* Fault: one event too many.
TakeFault(s, n) == SubSeq(s, 1, Least(n + 1, Len(s)))

\* The item_limit of add_matching.
Take(s, n) == SubSeq(s, 1, Least(n, Len(s)))

FastEvents     == {e \in Events : Fast(e)}
CriticalEvents == {e \in Events : Critical(e)}
PriorityEvents == {e \in Events : Priority(e) /\ ~Critical(e)}
MarketEvents   == {e \in Events : MarketRefresh(e)}

\* add_matching: the selected events and at most n more of the class, in deque
\* order, up to the limit.
AddMatching(pool, class, n) ==
  [selected \in Seq(Events) |->
     LET limit == Least(BatchSize, Len(events))
     IN selected \o Take(Keep(class \ Range(selected))[pool], Least(n, limit - Len(selected)))]

\* _select_event_batch_locked: command events, then some priority events, then
\* some market events, then whatever is left.
SelectEventBatch ==
  LET pool == Keep(IF SelectBatchFastGroup THEN FastEvents ELSE Events \ FastEvents)[events]
      critical == AddMatching(pool, CriticalEvents, BatchSize)[<<>>]
      priority == AddMatching(pool, PriorityEvents, PriorityShare)[critical]
      market == AddMatching(pool, MarketEvents, MarketShare)[priority]
  IN AddMatching(pool, Events, BatchSize)[market]

\* Fault: as many events as were posted are removed from the front.
RemovePostedFault(s, posted) == SubSeq(s, Len(posted) + 1, Len(s))

\* _remove_event_by_identity_locked, for every event of the batch.
RemovePosted(s, posted) == Keep(Range(s) \ Range(posted))[s]

-----------------------------------------------------------------------------
TypeOK ==
  /\ produced \in Seq(Events) /\ Len(produced) <= MaxEvents
  /\ events \in Seq(Events)
  /\ batch \in Seq(Events) /\ Len(batch) <= BatchSize
  /\ lastFast \in {"none", "yes", "no"}
  /\ todo \in Seq(Events)
  /\ \A r \in late : r \in Seq(Events)
  /\ core \in Seq(Events)
  /\ dropped \subseteq Events
  /\ failures \in 0 .. MaxFailures

Init ==
  /\ produced = <<>>
  /\ events = <<>>
  /\ batch = <<>>
  /\ lastFast = "none"
  /\ todo = <<>>
  /\ late = {}
  /\ core = <<>>
  /\ dropped = {}
  /\ failures = 0

\* A producer thread: enqueue_event, one critical section.
EnqueueEvent(type, key) ==
  LET e == Event(type, key, Len(produced) + 1)
      s == Enqueued(events, e)
  IN /\ Len(produced) < MaxEvents
     /\ produced' = Append(produced, e)
     /\ events' = EnforceBufferLimit(s)
     /\ dropped' = dropped \cup (Range(s) \ Range(EnforceBufferLimit(s)))
     /\ UNCHANGED <<batch, lastFast, todo, late, core, failures>>

\* The worker copies a batch out of the deque and sends the request.
SelectBatch ==
  /\ batch = <<>>
  /\ events # <<>>
  /\ batch' = SelectEventBatch
  /\ todo' = batch'
  /\ UNCHANGED <<produced, events, lastFast, late, core, dropped, failures>>

\* One transaction of Core: the whole request if it is fast, else its next
\* event.  A known event_id is not committed again.
Committing(request) == IF Fast(request[1]) THEN request ELSE <<request[1]>>
Committed(request) == core \o Keep(Range(request) \ Range(core))[Committing(request)]
Remaining(request) == SubSeq(request, Len(Committing(request)) + 1, Len(request))

CoreCommits ==
  /\ todo # <<>>
  /\ core' = Committed(todo)
  /\ todo' = Remaining(todo)
  /\ UNCHANGED <<produced, events, batch, lastFast, late, dropped, failures>>

CoreCommitsLate(request) ==
  /\ request \in late
  /\ core' = Committed(request)
  /\ late' = (late \ {request}) \cup ({Remaining(request)} \ {<<>>})
  /\ UNCHANGED <<produced, events, batch, lastFast, todo, dropped, failures>>

\* Core has answered: the posted events are removed, if they are still there.
BatchPosted ==
  /\ batch # <<>> /\ todo = <<>>
  /\ events' = RemovePosted(events, batch)
  /\ lastFast' = IF Fast(batch[1]) THEN "yes" ELSE "no"
  /\ batch' = <<>>
  /\ UNCHANGED <<produced, todo, late, core, dropped, failures>>

\* Core answers 503 in the middle of the request: nothing is removed and the
\* next attempt selects a batch again.
BatchRefused ==
  /\ batch # <<>> /\ todo # <<>>
  /\ failures < MaxFailures
  /\ failures' = failures + 1
  /\ batch' = <<>>
  /\ todo' = <<>>
  /\ UNCHANGED <<produced, events, lastFast, late, core, dropped>>

\* The worker gets no answer.  Core may still be working on the request.
BatchAbandoned ==
  /\ batch # <<>>
  /\ failures < MaxFailures
  /\ failures' = failures + 1
  /\ late' = late \cup ({todo} \ {<<>>})
  /\ batch' = <<>>
  /\ todo' = <<>>
  /\ UNCHANGED <<produced, events, lastFast, core, dropped>>

Next ==
  \/ \E type \in Types, key \in Keys : EnqueueEvent(type, key)
  \/ SelectBatch
  \/ CoreCommits
  \/ \E request \in late : CoreCommitsLate(request)
  \/ BatchPosted
  \/ BatchRefused
  \/ BatchAbandoned

Spec == Init /\ [][Next]_vars

\* The worker loop runs for ever and Core, once it is no longer failing,
\* answers: the number of failures is bounded, the retry delay is at most 5 s.
FairSpec == Spec /\ WF_vars(SelectBatch) /\ WF_vars(CoreCommits) /\ WF_vars(BatchPosted)

-----------------------------------------------------------------------------
(* Properties *)

\* An order-critical event or a TR response is never lost: not to the buffer
\* limit, not to coalescing, not to a batch that was posted while it changed.
ProtectedNeverLost ==
  \A e \in Range(produced) : DropProtected(e) => e \in Range(events) \cup Range(core)

\* Core commits command events in the order they were emitted, even when a
\* retried batch races the abandoned one.
CriticalInOrder ==
  \A i, j \in 1 .. Len(core) :
    i < j /\ Critical(core[i]) /\ Critical(core[j]) => core[i].n < core[j].n

\* The newest event of every coalescing key is still to be posted, or Core has
\* it, or the buffer limit dropped it: an older one never takes its place.
NewestSurvives ==
  \A e \in Range(produced) :
    Coalescing(e) /\ (\A f \in Range(produced) : SameCoalescingKey(e, f) => f.n <= e.n) =>
      e \in Range(events) \cup Range(core) \cup dropped

\* Once the producers pause and Core answers, the worker empties the deque: no choice of a
\* group or a class leaves an event behind for good (_select_batch_fast_group_locked, which
\* must not choose a group that is empty), and a protected event leaves it for Core only.
\* It says nothing of producers that never pause: a stream of command events that always
\* has one in the deque keeps the ticks waiting.
QueuedEventLeaves ==
  \A n \in 1 .. MaxEvents :
    (\E i \in DOMAIN events : events[i].n = n) ~>
      /\ ~\E i \in DOMAIN events : events[i].n = n
      /\ \A e \in Range(produced) : e.n = n /\ DropProtected(e) => e \in Range(core)
=============================================================================
