--------------------------- MODULE ProjectionOutbox ---------------------------
(***************************************************************************)
(* How a price tick gets into Core's market data tables.  Two parties may   *)
(* apply it:                                                                *)
(*                                                                         *)
(*   the gateway route, inline, when the event is posted                    *)
(*     (api/routes/gateway.py, one request at a time under the write lock), *)
(*   an outbox worker run, later, from the job the route has stored         *)
(*     (services/runtime/projection_outbox_worker.py); an operator may      *)
(*     start several runs at once, and a run may be slower than the time    *)
(*     after which its claims count as stale.                               *)
(*                                                                         *)
(* Both call process_gateway_event (services/market_data_service.py), which *)
(* looks for the tick before it opens its transaction.  Every action below  *)
(* is one transaction or one read; Core may crash between any two.          *)
(* The model has one stock, so market_ticks_latest has one row; the clock   *)
(* (min age, processing TTL, wall time limit) is abstracted.                *)
(***************************************************************************)
EXTENDS Naturals

CONSTANTS
  Events,      \* price_tick events, by event_id
  Ts,          \* event_ts of each
  Kind,        \* "valid", "invalid" (fails the quality check), "quote" (quote only)
  Workers,     \* worker runs that may be active at once
  Modes,       \* what the runs may do: "apply", "verify" or "disabled"
  RetryLimit,  \* projection_outbox_retry_limit
  MaxRuns,     \* bound: worker runs
  MaxFaults    \* bound: crashes, database locks and failed side effects

ASSUME OutboxConstants ==
  /\ Ts \in [Events -> Nat]
  /\ Kind \in [Events -> {"valid", "invalid", "quote"}]
  /\ Modes \subseteq {"apply", "verify", "disabled"}
  /\ {RetryLimit, MaxRuns, MaxFaults} \subseteq Nat
  /\ "none" \notin Events

VARIABLES
  stored,    \* gateway_events: the accepted events
  answered,  \* events whose sender has its answer
  job,       \* projection_outbox: status, locked_by and attempts per event
  routing,   \* effective_skip_inline of the routing decision: "none", "inline", "skip"
  market,    \* the market data tables, see Market
  queued,    \* events that enqueued an incremental evaluation
  route,     \* the request the gateway route is working on
  worker,    \* the worker runs
  runs, faults

vars == <<stored, answered, job, routing, market, queued, route, worker, runs, faults>>

-----------------------------------------------------------------------------
(* The market data tables *)

\* samples: market_tick_samples; latest: the event in market_ticks_latest;
\* bars: how often the event's volume was added to the minute bars;
\* errors: events with a row in market_projection_errors.
Market == [samples : SUBSET Events, latest : Events \cup {"none"},
           bars : [Events -> Nat], errors : SUBSET Events]

EmptyMarket == [samples |-> {}, latest |-> "none", bars |-> [e \in Events |-> 0], errors |-> {}]

\* Fault: the timestamps are not compared.
OlderThanLatestFault(m, e) == FALSE

\* _is_older_than_latest_price_tick
OlderThanLatest(m, e) == m.latest # "none" /\ Ts[e] < Ts[m.latest]

\* _projection_exists
ProjectionExists(m, e) == e \in m.samples \cup m.errors

\* Fault: the sample is inserted OR IGNORE and the bars are updated again.
ProcessPriceTickFault(m, e) ==
  IF Kind[e] # "valid" THEN m
  ELSE IF OlderThanLatest(m, e) THEN [m EXCEPT !.samples = @ \cup {e}]
  ELSE [m EXCEPT !.samples = @ \cup {e}, !.latest = e, !.bars[e] = @ + 1]

\* The transaction of process_gateway_event.  The primary key of
\* market_tick_samples refuses a second sample: the transaction is rolled back
\* and an error row is written.
ProcessPriceTick(m, e) ==
  IF Kind[e] = "quote" THEN m
  ELSE IF Kind[e] = "invalid" \/ e \in m.samples THEN [m EXCEPT !.errors = @ \cup {e}]
  ELSE IF OlderThanLatest(m, e) THEN [m EXCEPT !.samples = @ \cup {e}]
  ELSE [m EXCEPT !.samples = @ \cup {e}, !.latest = e, !.bars[e] = @ + 1]

\* Fault: any tick without a sample counts as overtaken.
VerifyMarketDataFault(m, e) ==
  IF ProjectionExists(m, e) THEN "APPLIED"
  ELSE IF Kind[e] = "quote" THEN "SKIPPED"
  ELSE IF m.latest # "none" THEN "OLDER"
  ELSE "ERROR"

\* _verify_market_data; "OLDER" is SKIPPED with reason OLDER_THAN_LATEST.
VerifyMarketData(m, e) ==
  IF ProjectionExists(m, e) THEN "APPLIED"
  ELSE IF Kind[e] = "quote" THEN "SKIPPED"
  ELSE IF OlderThanLatest(m, e) THEN "OLDER"
  ELSE "ERROR"

-----------------------------------------------------------------------------
(* Jobs, requests and runs *)

\* "REFUSED" is SKIPPED with the reason APPLY_DISABLED_BY_SETTINGS.
JobStatuses == {"NONE", "PENDING", "PROCESSING", "APPLIED", "SKIPPED", "REFUSED", "ERROR",
                "DEAD_LETTER"}
Jobs == [status : JobStatuses, owner : 0 .. MaxRuns, attempts : Nat]
Job(status, owner, attempts) == [status |-> status, owner |-> owner, attempts |-> attempts]
NoJob == Job("NONE", 0, 0)
Terminal == {"APPLIED", "SKIPPED", "REFUSED", "ERROR", "DEAD_LETTER"}

NoRequest == [event |-> "none", stage |-> "idle"]
Request(e, stage) == [event |-> e, stage |-> stage]
RouteStages == {"duplicate", "new", "route", "check", "project", "evaluate"}

\* A run: its number is the owner of its claims; todo are the claimed jobs it
\* has not finished; outcome is what it is going to mark.
NoRun == [run |-> 0, mode |-> "none", todo |-> {}, event |-> "none",
          stage |-> "idle", outcome |-> "none"]
Run(run, mode, claim) == [run |-> run, mode |-> mode, todo |-> claim, event |-> "none",
                          stage |-> "next", outcome |-> "none"]
RunStages == {"next", "check", "project", "evaluate", "confirm", "mark"}
Outcomes == {"APPLIED", "SKIPPED", "REFUSED", "ERROR"}
Runs == {NoRun} \cup
  [run : 1 .. MaxRuns, mode : Modes, todo : SUBSET Events, event : Events \cup {"none"},
   stage : RunStages, outcome : Outcomes \cup {"none"}]

TypeOK ==
  /\ stored \subseteq Events
  /\ answered \subseteq stored
  /\ job \in [Events -> Jobs]
  /\ routing \in [Events -> {"none", "inline", "skip"}]
  /\ market \in Market
  /\ queued \subseteq Events
  /\ route \in {NoRequest} \cup [event : Events, stage : RouteStages]
  /\ worker \in [Workers -> Runs]
  /\ runs \in 0 .. MaxRuns
  /\ faults \in 0 .. MaxFaults

Init ==
  /\ stored = {}
  /\ answered = {}
  /\ job = [e \in Events |-> NoJob]
  /\ routing = [e \in Events |-> "none"]
  /\ market = EmptyMarket
  /\ queued = {}
  /\ route = NoRequest
  /\ worker = [w \in Workers |-> NoRun]
  /\ runs = 0
  /\ faults = 0

\* ON CONFLICT (projection_name, event_id) DO NOTHING
Enqueued(j) == IF j.status = "NONE" THEN Job("PENDING", 0, 0) ELSE j

-----------------------------------------------------------------------------
(* The gateway route, one event per request *)

AppendEvent(e) ==
  /\ route = NoRequest
  /\ stored' = stored \cup {e}
  /\ route' = Request(e, IF e \in stored THEN "duplicate" ELSE "new")
  /\ UNCHANGED <<answered, job, routing, market, queued, worker, runs, faults>>

\* Fault: a duplicate is answered at once.
EnqueueProjectionJobFault(e) ==
  /\ route.event = e /\ route.stage \in {"duplicate", "new"}
  /\ IF route.stage = "duplicate"
     THEN /\ answered' = answered \cup {e}
          /\ route' = NoRequest
          /\ UNCHANGED job
     ELSE /\ job' = [job EXCEPT ![e] = Enqueued(@)]
          /\ route' = Request(e, "route")
          /\ UNCHANGED answered
  /\ UNCHANGED <<stored, routing, market, queued, worker, runs, faults>>

\* The enqueue is repeated for a duplicate, and that is all a duplicate does.
EnqueueProjectionJob(e) ==
  /\ route.event = e /\ route.stage \in {"duplicate", "new"}
  /\ job' = [job EXCEPT ![e] = Enqueued(@)]
  /\ IF route.stage = "duplicate"
     THEN answered' = answered \cup {e} /\ route' = NoRequest
     ELSE UNCHANGED answered /\ route' = Request(e, "route")
  /\ UNCHANGED <<stored, routing, market, queued, worker, runs, faults>>

\* decide_market_data_projection_routing: settings, budget, reconcile state and
\* controller decide; the job exists, so the decision may be to skip.
DecideRouting(e, decision) ==
  /\ route = Request(e, "route")
  /\ routing' = [routing EXCEPT ![e] = decision]
  /\ IF decision = "skip"
     THEN answered' = answered \cup {e} /\ route' = NoRequest
     ELSE UNCHANGED answered /\ route' = Request(e, "check")
  /\ UNCHANGED <<stored, job, market, queued, worker, runs, faults>>

InlineCheck(e) ==
  /\ route = Request(e, "check")
  /\ IF ProjectionExists(market, e)
     THEN answered' = answered \cup {e} /\ route' = NoRequest
     ELSE UNCHANGED answered /\ route' = Request(e, "project")
  /\ UNCHANGED <<stored, job, routing, market, queued, worker, runs, faults>>

\* Only an applied tick goes on to the incremental evaluation.
InlineProject(e) ==
  /\ route = Request(e, "project")
  /\ market' = ProcessPriceTick(market, e)
  /\ IF e \in market'.samples \ market.samples
     THEN UNCHANGED answered /\ route' = Request(e, "evaluate")
     ELSE answered' = answered \cup {e} /\ route' = NoRequest
  /\ UNCHANGED <<stored, job, routing, queued, worker, runs, faults>>

\* A failing enqueue is logged and reported, not raised.
InlineEvaluate(e, succeeds) ==
  /\ route = Request(e, "evaluate")
  /\ succeeds \/ faults < MaxFaults
  /\ queued' = IF succeeds THEN queued \cup {e} ELSE queued
  /\ faults' = IF succeeds THEN faults ELSE faults + 1
  /\ answered' = answered \cup {e}
  /\ route' = NoRequest
  /\ UNCHANGED <<stored, job, routing, market, worker, runs>>

\* The database is locked: 503, and the Gateway posts the event again.
RouteLocked ==
  /\ route # NoRequest
  /\ faults < MaxFaults
  /\ faults' = faults + 1
  /\ route' = NoRequest
  /\ UNCHANGED <<stored, answered, job, routing, market, queued, worker, runs>>

\* Fault: the status of the inline result is stored as it is.
InlineTerminalFault(e) == IF Kind[e] = "valid" THEN "DUPLICATE" ELSE "IGNORED"

\* _inline_outbox_terminal_status: an invalid or quote-only tick is IGNORED.
InlineTerminal(e) == IF Kind[e] = "valid" THEN "APPLIED" ELSE "SKIPPED"

\* A fast batch does all of this in one transaction, and retires the job of a
\* tick it has applied inline.
PostFastBatch(e, decision) ==
  /\ route = NoRequest
  /\ stored' = stored \cup {e}
  /\ answered' = answered \cup {e}
  /\ IF e \in stored
     THEN /\ job' = [job EXCEPT ![e] = Enqueued(@)]
          /\ UNCHANGED <<routing, market, queued>>
     ELSE /\ routing' = [routing EXCEPT ![e] = decision]
          /\ IF decision = "skip"
             THEN /\ job' = [job EXCEPT ![e] = Enqueued(@)]
                  /\ UNCHANGED <<market, queued>>
             ELSE /\ job' = [job EXCEPT ![e] = [Enqueued(@) EXCEPT !.status = InlineTerminal(e)]]
                  /\ market' = ProcessPriceTick(market, e)
                  /\ queued' = IF Kind[e] = "valid" THEN queued \cup {e} ELSE queued
  /\ UNCHANGED <<route, worker, runs, faults>>

-----------------------------------------------------------------------------
(* Worker runs *)

\* SELECT ... FROM projection_outbox WHERE status = ?
WithStatus(s) == {e \in Events : job[e].status = s}

\* reset_stale_projection_outbox_processing: the owner may still be running.
\* claim_projection_outbox_jobs: which pending jobs depends on age and limit.
StartRun(w, mode, stale, claim) ==
  /\ worker[w] = NoRun
  /\ runs < MaxRuns
  /\ runs' = runs + 1
  /\ stale \subseteq WithStatus("PROCESSING")
  /\ claim # {}
  /\ claim \subseteq stale \cup WithStatus("PENDING")
  /\ job' = [e \in Events |->
               IF e \in claim THEN Job("PROCESSING", runs + 1, job[e].attempts)
               ELSE IF e \in stale THEN Job("PENDING", 0, job[e].attempts)
               ELSE job[e]]
  /\ worker' = [worker EXCEPT ![w] = Run(runs + 1, mode, claim)]
  /\ UNCHANGED <<stored, answered, routing, market, queued, route, faults>>

To(w, e, stage, outcome) ==
  worker' = [worker EXCEPT ![w].event = e, ![w].stage = stage, ![w].outcome = outcome]

\* The next job: apply_projection_outbox_job up to its first verification,
\* verify_projection_outbox_job, or the refusal of a disabled apply.
TakeJob(w, e) ==
  LET seen == VerifyMarketData(market, e)
      verdict == IF seen = "OLDER" THEN "SKIPPED" ELSE seen
      mode == worker[w].mode
  IN /\ worker[w].stage = "next"
     /\ e \in worker[w].todo
     /\ IF mode = "disabled" THEN To(w, e, "mark", "REFUSED")
        ELSE IF mode = "verify" THEN To(w, e, "mark", verdict)
        ELSE IF \/ seen \in {"APPLIED", "SKIPPED"}
                \/ seen = "OLDER" /\ routing[e] # "skip"
        THEN To(w, e, "mark", verdict)
        ELSE To(w, e, "check", "none")
     /\ UNCHANGED <<stored, answered, job, routing, market, queued, route, runs, faults>>

WorkerCheck(w, e) ==
  /\ worker[w].event = e /\ worker[w].stage = "check"
  /\ To(w, e, IF ProjectionExists(market, e) THEN "confirm" ELSE "project", "none")
  /\ UNCHANGED <<stored, answered, job, routing, market, queued, route, runs, faults>>

\* Fault: a run evaluates only the ticks whose route left them to it.
WorkerProjectFault(w, e) ==
  /\ worker[w].event = e /\ worker[w].stage = "project"
  /\ market' = ProcessPriceTick(market, e)
  /\ IF e \in market.samples THEN To(w, e, "mark", "ERROR")
     ELSE IF e \in market'.samples /\ routing[e] = "skip" THEN To(w, e, "evaluate", "none")
     ELSE To(w, e, "confirm", "none")
  /\ UNCHANGED <<stored, answered, job, routing, queued, route, runs, faults>>

\* A second sample makes the result ERROR; an invalid tick is only IGNORED.
WorkerProject(w, e) ==
  /\ worker[w].event = e /\ worker[w].stage = "project"
  /\ market' = ProcessPriceTick(market, e)
  /\ IF e \in market.samples THEN To(w, e, "mark", "ERROR")
     ELSE IF e \in market'.samples THEN To(w, e, "evaluate", "none")
     ELSE To(w, e, "confirm", "none")
  /\ UNCHANGED <<stored, answered, job, routing, queued, route, runs, faults>>

\* BEGIN IMMEDIATE raises: MARKET_DATA_APPLY_EXCEPTION, not retryable.
WorkerLocked(w, e) ==
  /\ worker[w].event = e /\ worker[w].stage = "project"
  /\ faults < MaxFaults
  /\ faults' = faults + 1
  /\ To(w, e, "mark", "ERROR")
  /\ UNCHANGED <<stored, answered, job, routing, market, queued, route, runs>>

WorkerEvaluate(w, e, succeeds) ==
  /\ worker[w].event = e /\ worker[w].stage = "evaluate"
  /\ succeeds \/ faults < MaxFaults
  /\ queued' = IF succeeds THEN queued \cup {e} ELSE queued
  /\ faults' = IF succeeds THEN faults ELSE faults + 1
  /\ To(w, e, "confirm", "none")
  /\ UNCHANGED <<stored, answered, job, routing, market, route, runs>>

WorkerConfirm(w, e) ==
  LET seen == VerifyMarketData(market, e) IN
  /\ worker[w].event = e /\ worker[w].stage = "confirm"
  /\ To(w, e, "mark", IF seen = "OLDER" THEN "SKIPPED" ELSE seen)
  /\ UNCHANGED <<stored, answered, job, routing, market, queued, route, runs, faults>>

Rest(r) ==
  IF r.todo = {r.event} THEN NoRun
  ELSE Run(r.run, r.mode, r.todo \ {r.event})

\* Fault: the owner is not checked.
MarkedFault(j, r) == Job(r.outcome, 0, j.attempts)

\* mark_projection_outbox_applied, _skipped and _error: WHERE locked_by = owner.
Marked(j, r) ==
  IF j.owner # r.run THEN j
  ELSE IF r.outcome # "ERROR" THEN Job(r.outcome, 0, j.attempts)
  ELSE Job(IF j.attempts + 1 >= RetryLimit THEN "DEAD_LETTER" ELSE "ERROR", 0, j.attempts + 1)

MarkJob(w, e) ==
  /\ worker[w].event = e /\ worker[w].stage = "mark"
  /\ job' = [job EXCEPT ![e] = Marked(@, worker[w])]
  /\ worker' = [worker EXCEPT ![w] = Rest(@)]
  /\ UNCHANGED <<stored, answered, routing, market, queued, route, runs, faults>>

\* The wall time limit: the rest of the claims is left to become stale.
StopRun(w) ==
  /\ worker[w].stage = "next"
  /\ worker' = [worker EXCEPT ![w] = NoRun]
  /\ UNCHANGED <<stored, answered, job, routing, market, queued, route, runs, faults>>

\* The process with the route and the runs dies.
CoreCrashes ==
  /\ faults < MaxFaults
  /\ faults' = faults + 1
  /\ route' = NoRequest
  /\ worker' = [w \in Workers |-> NoRun]
  /\ UNCHANGED <<stored, answered, job, routing, market, queued, runs>>

-----------------------------------------------------------------------------
RouteStep(e) ==
  \/ AppendEvent(e)
  \/ EnqueueProjectionJob(e)
  \/ \E decision \in {"inline", "skip"} : DecideRouting(e, decision) \/ PostFastBatch(e, decision)
  \/ InlineCheck(e)
  \/ InlineProject(e)
  \/ \E succeeds \in BOOLEAN : InlineEvaluate(e, succeeds)

WorkerStep(w, e) ==
  \/ TakeJob(w, e)
  \/ WorkerCheck(w, e)
  \/ WorkerProject(w, e)
  \/ WorkerLocked(w, e)
  \/ \E succeeds \in BOOLEAN : WorkerEvaluate(w, e, succeeds)
  \/ WorkerConfirm(w, e)
  \/ MarkJob(w, e)

Next ==
  \/ \E e \in Events : RouteStep(e)
  \/ RouteLocked
  \/ \E w \in Workers : \/ \E mode \in Modes, stale \in SUBSET WithStatus("PROCESSING") :
                             \E claim \in SUBSET (stale \cup WithStatus("PENDING")) : StartRun(w, mode, stale, claim)
                        \/ \E e \in Events : WorkerStep(w, e)
                        \/ StopRun(w)
  \/ CoreCrashes

Spec == Init /\ [][Next]_vars

-----------------------------------------------------------------------------
(* Properties *)

\* The volume of a tick is added to the minute bars at most once, although the
\* route and any number of runs may apply it after each found it missing.
VolumeCountedOnce ==
  \A e \in Events : /\ market.bars[e] <= 1
                    /\ market.bars[e] = 1 => e \in market.samples

\* The latest tick is the newest of all applied ticks, in whatever order the
\* route and the runs apply them.
LatestIsNewest ==
  \A e \in market.samples : market.latest # "none" /\ Ts[e] <= Ts[market.latest]

\* An event whose sender has its answer has its job, even if the first request
\* died between the event's commit and the job's.
AnsweredEventHasJob == \A e \in answered : job[e].status # "NONE"

\* A job counts as applied only when the tick left a sample or an error row; a
\* tick with a price is skipped without one only when a newer one is in place,
\* or when the apply settings refused the run.
SettledJobLeavesTrace ==
  \A e \in Events :
    /\ job[e].status = "APPLIED" => ProjectionExists(market, e)
    /\ job[e].status = "SKIPPED" /\ Kind[e] # "quote" =>
         \/ ProjectionExists(market, e)
         \/ market.latest # "none" /\ Ts[e] < Ts[market.latest]

\* A settled job stays as it is: a run whose claim was reset, and given to
\* another run, cannot mark it any more.
SettledJobStays ==
  [][\A e \in Events : job[e].status \in Terminal => job'[e] = job[e]]_vars

\* Every tick in the tables goes to the incremental evaluation, whoever applied it first:
\* the party that did has queued it or is about to (_enqueue_incremental_evaluation_for_price_tick,
\* _enqueue_deferred_incremental_evaluation_for_price_tick).  The queue is written after the
\* tables, so a crash or a failing enqueue in between loses it.
AppliedTickIsEvaluated ==
  faults = 0 => \A e \in market.samples :
    \/ e \in queued
    \/ route = Request(e, "evaluate")
    \/ \E w \in Workers : worker[w].event = e /\ worker[w].stage = "evaluate"
=============================================================================
