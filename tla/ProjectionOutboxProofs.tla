------------------------ MODULE ProjectionOutboxProofs ------------------------
(***************************************************************************)
(* The market data tables, the outbox jobs and the evaluation queue stay    *)
(* right for any number of ticks, runs and faults.                          *)
(*                                                                         *)
(* The tables change in process_gateway_event only, so their part is one    *)
(* lemma about ProcessPriceTick and one step per action.  A job moves in a   *)
(* few ways (JobMoves) that its owner check confines, and what a run has     *)
(* verified stays true until its mark because the tables only grow.         *)
(***************************************************************************)
EXTENDS ProjectionOutbox, TLAPS

\* The tables are well formed, every tick is counted at most once and with a
\* sample, and the latest tick is the newest.
Good(m) ==
  /\ m \in Market
  /\ \A e \in Events : m.bars[e] <= 1 /\ (m.bars[e] = 1 => e \in m.samples)
  /\ \A e \in m.samples : m.latest # "none" /\ Ts[e] <= Ts[m.latest]

\* Applying a tick keeps the tables right, whether it is new, applied before,
\* older than the latest, invalid or a quote (process_gateway_event).
LEMMA ProcessKeepsGood ==
  ASSUME NEW m, Good(m), NEW e \in Events
  PROVE  Good(ProcessPriceTick(m, e))
<1> DEFINE n == ProcessPriceTick(m, e)
<1> USE OutboxConstants
<1>1. CASE Kind[e] = "quote"
  BY <1>1 DEF ProcessPriceTick
<1>2. CASE Kind[e] # "quote" /\ (Kind[e] = "invalid" \/ e \in m.samples)
  <2>1. n = [m EXCEPT !.errors = @ \cup {e}]
    BY <1>2 DEF ProcessPriceTick
  <2>2. n \in Market /\ n.bars = m.bars /\ n.samples = m.samples /\ n.latest = m.latest
    BY <2>1 DEF Good, Market
  <2> QED  BY <2>2 DEF Good
<1>3. CASE Kind[e] # "quote" /\ ~(Kind[e] = "invalid" \/ e \in m.samples) /\ OlderThanLatest(m, e)
  <2>1. n = [m EXCEPT !.samples = @ \cup {e}]
    BY <1>3 DEF ProcessPriceTick
  <2>2. n \in Market /\ n.bars = m.bars /\ n.samples = m.samples \cup {e} /\ n.latest = m.latest
    BY <2>1 DEF Good, Market
  <2>3. m.latest \in Events \cup {"none"}
    BY DEF Good, Market
  <2>4. n.latest # "none" /\ Ts[e] <= Ts[n.latest]
    BY <1>3, <2>2, <2>3 DEF OlderThanLatest
  <2> QED  BY <2>2, <2>4 DEF Good
<1>4. CASE Kind[e] # "quote" /\ ~(Kind[e] = "invalid" \/ e \in m.samples) /\ ~OlderThanLatest(m, e)
  <2>1. n = [m EXCEPT !.samples = @ \cup {e}, !.latest = e, !.bars[e] = @ + 1]
    BY <1>4 DEF ProcessPriceTick
  <2>2. /\ m.bars \in [Events -> Nat] /\ m.samples \subseteq Events
        /\ m.latest \in Events \cup {"none"}
    BY DEF Good, Market
  <2>3. /\ n \in Market /\ n.samples = m.samples \cup {e} /\ n.latest = e
        /\ n.bars = [m.bars EXCEPT ![e] = @ + 1]
    <3>1. m = [samples |-> m.samples, latest |-> m.latest, bars |-> m.bars, errors |-> m.errors]
      BY DEF Good, Market
    <3>2. m.errors \subseteq Events
      BY DEF Good, Market
    <3>3. n = [samples |-> m.samples \cup {e}, latest |-> e,
               bars |-> [m.bars EXCEPT ![e] = @ + 1], errors |-> m.errors]
      BY <2>1, <3>1
    <3>4. [m.bars EXCEPT ![e] = @ + 1] \in [Events -> Nat]
      BY <2>2
    <3> HIDE DEF n
    <3> QED  BY <2>2, <3>2, <3>3, <3>4 DEF Market
  <2>4. m.bars[e] = 0
    BY <1>4, <2>2 DEF Good
  <2>5. \A f \in Events : n.bars[f] <= 1 /\ (n.bars[f] = 1 => f \in n.samples)
    BY <2>2, <2>3, <2>4 DEF Good
  <2>6. e # "none"
    OBVIOUS
  <2>7. ASSUME NEW f \in n.samples
        PROVE  Ts[f] <= Ts[e]
    <3>1. CASE f = e
      BY <3>1
    <3>2. CASE f # e
      <4>1. f \in m.samples /\ m.latest # "none" /\ Ts[f] <= Ts[m.latest]
        BY <2>3, <3>2 DEF Good
      <4>2. Ts[m.latest] <= Ts[e]
        BY <1>4, <2>2, <4>1 DEF OlderThanLatest
      <4>3. Ts[f] \in Nat /\ Ts[e] \in Nat /\ Ts[m.latest] \in Nat
        BY <2>2, <4>1
      <4> QED  BY <4>1, <4>2, <4>3
    <3> QED  BY <3>1, <3>2
  <2> QED  BY <2>3, <2>5, <2>6, <2>7 DEF Good
<1> QED  BY <1>1, <1>2, <1>3, <1>4

\* The inline path, the fast batch and the worker's apply are the only writers.
LEMMA MarketStep ==
  ASSUME [Next]_vars
  PROVE  market' = market \/ \E e \in Events : market' = ProcessPriceTick(market, e)
<1>1. ASSUME NEW e \in Events, RouteStep(e)
      PROVE  market' = market \/ market' = ProcessPriceTick(market, e)
  BY <1>1 DEF RouteStep, AppendEvent, EnqueueProjectionJob, DecideRouting, PostFastBatch,
              InlineCheck, InlineProject, InlineEvaluate
<1>2. ASSUME NEW w \in Workers, NEW e \in Events, WorkerStep(w, e)
      PROVE  market' = market \/ market' = ProcessPriceTick(market, e)
  BY <1>2 DEF WorkerStep, TakeJob, WorkerCheck, WorkerProject, WorkerLocked, WorkerEvaluate,
              WorkerConfirm, MarkJob
<1>3. CASE \/ RouteLocked
           \/ CoreCrashes
           \/ \E w \in Workers : StopRun(w)
           \/ \E w \in Workers, mode \in Modes : \E stale, claim :
                StartRun(w, mode, stale, claim)
           \/ UNCHANGED vars
  BY <1>3 DEF RouteLocked, CoreCrashes, StopRun, StartRun, vars
<1> QED  BY <1>1, <1>2, <1>3 DEF Next

LEMMA GoodAlways == Spec => []Good(market)
<1>1. Init => Good(market)
  BY OutboxConstants DEF Init, EmptyMarket, Good, Market
<1>2. Good(market) /\ [Next]_vars => Good(market)'
  BY MarketStep, ProcessKeepsGood
<1> QED  BY <1>1, <1>2, PTL DEF Spec

\* A tick's volume is added to the minute bars at most once, whoever applies it
\* and however often: the primary key of market_tick_samples and the one
\* transaction of process_gateway_event see to it, not the check before it.
THEOREM CountedOnce == Spec => []VolumeCountedOnce
<1>1. Good(market) => VolumeCountedOnce
  BY DEF Good, VolumeCountedOnce
<1> QED  BY <1>1, GoodAlways, PTL

\* The row of market_ticks_latest is the newest applied tick in every
\* interleaving of inline and deferred projection.
THEOREM NewestIsLatest == Spec => []LatestIsNewest
<1>1. Good(market) => LatestIsNewest
  BY DEF Good, LatestIsNewest
<1> QED  BY <1>1, GoodAlways, PTL

-----------------------------------------------------------------------------
(* Types: what the request and the runs hold *)

\* The event of the request in hand has been stored (append_gateway_event comes first).
RequestIsStored == route # NoRequest => route.event \in stored

\* A run that is about to mark a job has an outcome to mark it with.
MarkHasOutcome == \A w \in Workers : worker[w].stage = "mark" => worker[w].outcome \in Outcomes

TypeInv == TypeOK /\ RequestIsStored /\ MarkHasOutcome

\* What a step of a run within its job leaves: the run itself, at its new stage.
LEMMA ToStep ==
  ASSUME worker \in [Workers -> Runs], NEW w \in Workers, worker[w] # NoRun,
         NEW e \in Events, NEW stage \in RunStages, NEW outcome \in Outcomes \cup {"none"},
         To(w, e, stage, outcome)
  PROVE  /\ worker' \in [Workers -> Runs]
         /\ worker'[w].run = worker[w].run /\ worker'[w].todo = worker[w].todo
         /\ worker'[w].event = e /\ worker'[w].stage = stage /\ worker'[w].outcome = outcome
         /\ \A v \in Workers : v # w => worker'[v] = worker[v]
<1> DEFINE r == worker[w]
           q == [r EXCEPT !.event = e, !.stage = stage, !.outcome = outcome]
<1>1. worker' = [worker EXCEPT ![w] = q]
  BY DEF To
<1>2. r \in [run : 1 .. MaxRuns, mode : Modes, todo : SUBSET Events, event : Events \cup {"none"},
             stage : RunStages, outcome : Outcomes \cup {"none"}]
  BY DEF Runs
<1>3. q \in Runs /\ q.run = r.run /\ q.todo = r.todo /\ q.event = e /\ q.stage = stage /\ q.outcome = outcome
  BY <1>2 DEF Runs
<1> HIDE DEF q
<1> QED  BY <1>1, <1>3

\* A request of a known event and stage is well formed, and not the idle one.
LEMMA RequestType ==
  ASSUME NEW e \in Events, NEW stage \in RouteStages
  PROVE  /\ Request(e, stage) \in [event : Events, stage : RouteStages]
         /\ Request(e, stage) # NoRequest
         /\ Request(e, stage).event = e /\ Request(e, stage).stage = stage
BY OutboxConstants DEF Request, NoRequest, RouteStages

\* Enqueueing leaves a job that exists, and changes none that does.
LEMMA EnqueuedJob ==
  ASSUME NEW j \in Jobs
  PROVE  /\ Enqueued(j) \in Jobs
         /\ Enqueued(j).status # "NONE"
         /\ j.status # "NONE" => Enqueued(j) = j
         /\ j.status = "NONE" => Enqueued(j).status = "PENDING" /\ Enqueued(j).owner = 0
BY OutboxConstants DEF Enqueued, Job, Jobs, JobStatuses

\* Marking leaves a job that exists, and changes only a job its run owns.
LEMMA MarkedJob ==
  ASSUME NEW j \in Jobs, NEW r \in Runs, r.outcome \in Outcomes
  PROVE  /\ Marked(j, r) \in Jobs
         /\ j.owner # r.run => Marked(j, r) = j
         /\ j.owner = r.run => /\ Marked(j, r).owner = 0
                               /\ Marked(j, r).status \in Terminal
                               /\ Marked(j, r).status \in {"APPLIED", "SKIPPED"} =>
                                    Marked(j, r).status = r.outcome
<1>1. CASE j.owner # r.run
  BY <1>1 DEF Marked
<1>2. CASE j.owner = r.run /\ r.outcome # "ERROR"
  BY <1>2, OutboxConstants DEF Marked, Job, Jobs, JobStatuses, Outcomes, Terminal
<1>3. CASE j.owner = r.run /\ r.outcome = "ERROR"
  BY <1>3, OutboxConstants DEF Marked, Job, Jobs, JobStatuses, Outcomes, Terminal
<1> QED  BY <1>1, <1>2, <1>3

\* A run that has finished a job is idle or goes on with the jobs it has left.
LEMMA RestRun ==
  ASSUME NEW r \in Runs, r # NoRun
  PROVE  Rest(r) \in Runs /\ Rest(r).stage \in {"idle", "next"}
<1>1. r \in [run : 1 .. MaxRuns, mode : Modes, todo : SUBSET Events, event : Events \cup {"none"},
             stage : RunStages, outcome : Outcomes \cup {"none"}]
  BY DEF Runs
<1>2. CASE r.todo = {r.event}
  BY <1>2 DEF Rest, Runs, NoRun
<1>3. CASE r.todo # {r.event}
  BY <1>1, <1>3 DEF Rest, Run, Runs, RunStages
<1> QED  BY <1>2, <1>3

\* The types, one step per action of the route and of the runs: the sender's answer,
\* the status and owner of a job, the stage of the request and of the runs.
LEMMA TypeStep ==
  ASSUME TypeInv, Good(market'), [Next]_vars
  PROVE  TypeInv'
<1> USE DEF TypeInv, TypeOK, RequestIsStored, MarkHasOutcome
<1>1. market' \in Market
  BY DEF Good
<1>2. ASSUME NEW e \in Events, RouteStep(e)
      PROVE  TypeInv'
  <2> USE OutboxConstants, <1>1
  <2>1. CASE AppendEvent(e)
    BY <2>1, RequestType DEF AppendEvent, RouteStages
  <2>2. CASE EnqueueProjectionJob(e)
    <3>1. Enqueued(job[e]) \in Jobs
      BY EnqueuedJob
    <3>2. e \in stored
      BY <2>2 DEF EnqueueProjectionJob, NoRequest
    <3> QED  BY <2>2, <3>1, <3>2, RequestType DEF EnqueueProjectionJob, RouteStages
  <2>3. ASSUME NEW decision \in {"inline", "skip"}, DecideRouting(e, decision)
        PROVE  TypeInv'
    <3>1. e \in stored
      BY <2>3, RequestType DEF DecideRouting, RouteStages
    <3> QED  BY <2>3, <3>1, RequestType DEF DecideRouting, RouteStages
  <2>4. ASSUME NEW decision \in {"inline", "skip"}, PostFastBatch(e, decision)
        PROVE  TypeInv'
    <3>1. Enqueued(job[e]) \in Jobs
      BY EnqueuedJob
    <3>2. [Enqueued(job[e]) EXCEPT !.status = InlineTerminal(e)] \in Jobs
      BY <3>1 DEF Jobs, JobStatuses, InlineTerminal
    <3>3. job' \in [Events -> Jobs]
      BY <2>4, <3>1, <3>2 DEF PostFastBatch
    <3>4. routing' \in [Events -> {"none", "inline", "skip"}] /\ queued' \subseteq Events
      BY <2>4 DEF PostFastBatch
    <3> QED  BY <2>4, <3>3, <3>4 DEF PostFastBatch
  <2>5. CASE InlineCheck(e)
    <3>1. e \in stored
      BY <2>5, RequestType DEF InlineCheck, RouteStages
    <3> QED  BY <2>5, <3>1, RequestType DEF InlineCheck, RouteStages
  <2>6. CASE InlineProject(e)
    <3>1. e \in stored
      BY <2>6, RequestType DEF InlineProject, RouteStages
    <3> QED  BY <2>6, <3>1, RequestType DEF InlineProject, RouteStages
  <2>7. ASSUME NEW succeeds \in BOOLEAN, InlineEvaluate(e, succeeds)
        PROVE  TypeInv'
    <3>1. e \in stored
      BY <2>7, RequestType DEF InlineEvaluate, RouteStages
    <3>2. queued' \subseteq Events /\ faults' \in 0 .. MaxFaults
      BY <2>7 DEF InlineEvaluate
    <3> QED  BY <2>7, <3>1, <3>2 DEF InlineEvaluate
  <2> QED  BY <1>2, <2>1, <2>2, <2>3, <2>4, <2>5, <2>6, <2>7 DEF RouteStep
<1>3. ASSUME NEW w \in Workers, NEW e \in Events, WorkerStep(w, e)
      PROVE  TypeInv'
  <2>1. worker[w] # NoRun
    BY <1>3, OutboxConstants DEF WorkerStep, TakeJob, WorkerCheck, WorkerProject, WorkerLocked,
       WorkerEvaluate, WorkerConfirm, MarkJob, NoRun
  <2>2. ASSUME NEW stage \in RunStages, NEW outcome \in Outcomes \cup {"none"},
               To(w, e, stage, outcome), stage = "mark" => outcome \in Outcomes
        PROVE  (worker \in [Workers -> Runs] /\ MarkHasOutcome)'
    BY <2>1, <2>2, ToStep
  <2>3. CASE TakeJob(w, e)
    BY <1>1, <2>2, <2>3 DEF TakeJob, VerifyMarketData, RunStages, Outcomes
  <2>4. CASE WorkerCheck(w, e)
    BY <1>1, <2>2, <2>4 DEF WorkerCheck, RunStages
  <2>5. CASE WorkerProject(w, e)
    BY <1>1, <2>2, <2>5 DEF WorkerProject, RunStages, Outcomes
  <2>6. CASE WorkerLocked(w, e)
    BY <1>1, <2>2, <2>6, OutboxConstants DEF WorkerLocked, RunStages, Outcomes
  <2>7. ASSUME NEW succeeds \in BOOLEAN, WorkerEvaluate(w, e, succeeds)
        PROVE  TypeInv'
    <3>1. queued' \subseteq Events /\ faults' \in 0 .. MaxFaults
      BY <2>7, OutboxConstants DEF WorkerEvaluate
    <3> QED  BY <1>1, <2>2, <2>7, <3>1 DEF WorkerEvaluate, RunStages
  <2>8. CASE WorkerConfirm(w, e)
    BY <1>1, <2>2, <2>8 DEF WorkerConfirm, VerifyMarketData, RunStages, Outcomes
  <2>9. CASE MarkJob(w, e)
    <3>1. Marked(job[e], worker[w]) \in Jobs
      BY <2>9, MarkedJob DEF MarkJob
    <3>2. Rest(worker[w]) \in Runs /\ Rest(worker[w]).stage # "mark"
      BY <2>1, RestRun
    <3> QED  BY <1>1, <2>9, <3>1, <3>2 DEF MarkJob
  <2> QED  BY <1>3, <2>3, <2>4, <2>5, <2>6, <2>7, <2>8, <2>9 DEF WorkerStep
<1>4. ASSUME NEW w \in Workers, NEW mode \in Modes, NEW stale, NEW claim,
             StartRun(w, mode, stale, claim)
      PROVE  TypeInv'
  <2>1. runs + 1 \in 0 .. MaxRuns /\ runs + 1 \in 1 .. MaxRuns
    BY <1>4, OutboxConstants DEF StartRun
  <2>2. job' \in [Events -> Jobs]
    <3>1. \A e \in Events : /\ Job("PROCESSING", runs + 1, job[e].attempts) \in Jobs
                           /\ Job("PENDING", 0, job[e].attempts) \in Jobs
      BY <2>1, OutboxConstants DEF Job, Jobs, JobStatuses
    <3> QED  BY <1>4, <3>1 DEF StartRun
  <2>3. /\ Run(runs + 1, mode, claim) \in Runs
        /\ Run(runs + 1, mode, claim).stage = "next"
    BY <1>4, <2>1 DEF StartRun, WithStatus, Run, Runs, RunStages
  <2> QED  BY <1>1, <1>4, <2>1, <2>2, <2>3 DEF StartRun
<1>5. ASSUME NEW w \in Workers, StopRun(w)
      PROVE  TypeInv'
  BY <1>1, <1>5 DEF StopRun, Runs, NoRun
<1>6. CASE RouteLocked
  BY <1>1, <1>6, OutboxConstants DEF RouteLocked
<1>7. CASE CoreCrashes
  BY <1>1, <1>7, OutboxConstants DEF CoreCrashes, Runs, NoRun
<1>8. CASE UNCHANGED vars
  BY <1>8 DEF vars
<1> QED  BY <1>2, <1>3, <1>4, <1>5, <1>6, <1>7, <1>8 DEF Next

LEMMA TypeInvAlways == Spec => []TypeInv
<1>1. Init => TypeInv
  <2> SUFFICES ASSUME Init PROVE TypeInv
    OBVIOUS
  <2> USE OutboxConstants DEF Init
  <2>1. job \in [Events -> Jobs]
    BY DEF NoJob, Job, Jobs, JobStatuses
  <2>2. market \in Market
    BY DEF EmptyMarket, Market
  <2>3. worker \in [Workers -> Runs] /\ MarkHasOutcome
    BY DEF Runs, NoRun, MarkHasOutcome
  <2>4. /\ routing \in [Events -> {"none", "inline", "skip"}]
        /\ runs \in 0 .. MaxRuns /\ faults \in 0 .. MaxFaults
    OBVIOUS
  <2> QED  BY <2>1, <2>2, <2>3, <2>4 DEF TypeInv, TypeOK, RequestIsStored
<1>2. TypeInv /\ Good(market)' /\ [Next]_vars => TypeInv'
  BY TypeStep
<1> QED  BY <1>1, <1>2, GoodAlways, PTL DEF Spec

-----------------------------------------------------------------------------
(* Jobs: a job exists before its event is answered, and is settled once *)

\* Past the enqueue, the request's event has its job.
RequestHasJob ==
  route.stage \in {"route", "check", "project", "evaluate"} => job[route.event].status # "NONE"

\* Only stored events have jobs: the enqueue follows the append.
JobIsStored == \A e \in Events : job[e].status # "NONE" => e \in stored

\* Only a claimed job has an owner, so the mark of no run fits a settled one.
OwnedIsProcessing == \A e \in Events : job[e].owner # 0 => job[e].status = "PROCESSING"

JobInv == RequestHasJob /\ AnsweredEventHasJob /\ JobIsStored /\ OwnedIsProcessing

\* What a step may do to the job of e: nothing, create it, or move one that is not settled.
JobMoves(e) ==
  \/ job'[e] = job[e]
  \/ /\ job[e].status = "NONE" /\ e \in stored' /\ job'[e].owner = 0
     /\ job'[e].status \in {"PENDING", "APPLIED", "SKIPPED"}
  \/ /\ job[e].status \in {"PENDING", "PROCESSING"} /\ job'[e].status # "NONE"
     /\ job'[e].owner # 0 => job'[e].status = "PROCESSING"

\* No action does more: the insert is ON CONFLICT DO NOTHING, a claim takes what is pending
\* or stale, and a mark asks for the owner.
LEMMA JobStep ==
  ASSUME TypeInv, JobInv, [Next]_vars, NEW k \in Events
  PROVE  JobMoves(k)
<1> USE OutboxConstants DEF JobMoves
<1>0. job \in [Events -> Jobs] /\ worker \in [Workers -> Runs]
  BY DEF TypeInv, TypeOK
<1>1. ASSUME NEW e \in Events, RouteStep(e)
      PROVE  JobMoves(k)
  <2>1. CASE EnqueueProjectionJob(e)
    <3>1. e \in stored /\ stored' = stored
      BY <2>1 DEF EnqueueProjectionJob, TypeInv, RequestIsStored, NoRequest
    <3>2. job' = [job EXCEPT ![e] = Enqueued(job[e])]
      BY <2>1 DEF EnqueueProjectionJob
    <3> QED  BY <1>0, <3>1, <3>2, EnqueuedJob
  <2>2. ASSUME NEW decision \in {"inline", "skip"}, PostFastBatch(e, decision)
        PROVE  JobMoves(k)
    <3>1. CASE job' = [job EXCEPT ![e] = Enqueued(job[e])]
      BY <1>0, <2>2, <3>1, EnqueuedJob DEF PostFastBatch
    <3>2. CASE /\ e \notin stored
               /\ job' = [job EXCEPT ![e] = [Enqueued(job[e]) EXCEPT !.status = InlineTerminal(e)]]
      <4>1. job[e].status = "NONE"
        BY <3>2 DEF JobInv, JobIsStored
      <4> DEFINE n == [Enqueued(job[e]) EXCEPT !.status = InlineTerminal(e)]
      <4>2. Enqueued(job[e]) \in Jobs /\ Enqueued(job[e]).owner = 0
        BY <1>0, <4>1, EnqueuedJob
      <4>3. n.owner = 0 /\ n.status \in {"APPLIED", "SKIPPED"}
        BY <4>2 DEF Jobs, InlineTerminal
      <4> HIDE DEF n
      <4>4. job' = [job EXCEPT ![e] = n] /\ e \in stored'
        BY <2>2, <3>2 DEF PostFastBatch, n
      <4> QED  BY <1>0, <4>1, <4>3, <4>4
    <3> QED  BY <2>2, <3>1, <3>2 DEF PostFastBatch
  <2>3. CASE job' = job
    BY <2>3
  <2> QED  BY <1>1, <2>1, <2>2, <2>3 DEF RouteStep, AppendEvent, DecideRouting, InlineCheck,
                InlineProject, InlineEvaluate
<1>2. ASSUME NEW w \in Workers, NEW e \in Events, WorkerStep(w, e)
      PROVE  JobMoves(k)
  <2>1. CASE MarkJob(w, e)
    <3>1. worker[w] # NoRun /\ worker[w].outcome \in Outcomes
      BY <2>1 DEF MarkJob, NoRun, TypeInv, MarkHasOutcome
    <3>2. worker[w].run \in 1 .. MaxRuns
      BY <1>0, <3>1 DEF Runs
    <3>3. job' = [job EXCEPT ![e] = Marked(job[e], worker[w])]
      BY <2>1 DEF MarkJob
    <3>4. CASE job[e].owner # worker[w].run
      BY <1>0, <3>1, <3>3, <3>4, MarkedJob
    <3>5. CASE job[e].owner = worker[w].run
      <4>1. job[e].status = "PROCESSING"
        BY <3>2, <3>5 DEF JobInv, OwnedIsProcessing
      <4>2. Marked(job[e], worker[w]).owner = 0 /\ Marked(job[e], worker[w]).status \in Terminal
        BY <1>0, <3>1, <3>5, MarkedJob
      <4> QED  BY <1>0, <3>3, <4>1, <4>2 DEF Terminal
    <3> QED  BY <3>4, <3>5
  <2>2. CASE job' = job
    BY <2>2
  <2> QED  BY <1>2, <2>1, <2>2 DEF WorkerStep, TakeJob, WorkerCheck, WorkerProject, WorkerLocked,
                WorkerEvaluate, WorkerConfirm
<1>3. ASSUME NEW w \in Workers, NEW mode \in Modes, NEW stale, NEW claim,
             StartRun(w, mode, stale, claim)
      PROVE  JobMoves(k)
  <2>1. job'[k] = IF k \in claim THEN Job("PROCESSING", runs + 1, job[k].attempts)
                  ELSE IF k \in stale THEN Job("PENDING", 0, job[k].attempts) ELSE job[k]
    BY <1>3 DEF StartRun
  <2>2. k \in claim \cup stale => job[k].status \in {"PENDING", "PROCESSING"}
    BY <1>3 DEF StartRun, WithStatus
  <2> QED  BY <2>1, <2>2 DEF Job
<1>4. CASE \/ RouteLocked
           \/ CoreCrashes
           \/ \E w \in Workers : StopRun(w)
           \/ UNCHANGED vars
  BY <1>4 DEF RouteLocked, CoreCrashes, StopRun, vars
<1> QED  BY <1>1, <1>2, <1>3, <1>4 DEF Next

\* So a job exists, with its owner, wherever the route and the runs rely on it.
LEMMA JobInvStep ==
  ASSUME TypeInv, JobInv, [Next]_vars
  PROVE  JobInv'
<1>1. stored \subseteq stored'
  BY DEF Next, vars, RouteStep, AppendEvent, EnqueueProjectionJob, DecideRouting, PostFastBatch,
         InlineCheck, InlineProject, InlineEvaluate, RouteLocked, StartRun, WorkerStep, TakeJob,
         WorkerCheck, WorkerProject, WorkerLocked, WorkerEvaluate, WorkerConfirm, MarkJob, StopRun,
         CoreCrashes
<1>2. \A k \in Events : job[k].status # "NONE" => job'[k].status # "NONE"
  BY JobStep DEF JobMoves
<1>3. JobIsStored'
  BY <1>1, JobStep DEF JobMoves, JobInv, JobIsStored
<1>4. OwnedIsProcessing'
  BY JobStep DEF JobMoves, JobInv, OwnedIsProcessing
<1>5. /\ answered \subseteq Events
      /\ route # NoRequest => route.event \in Events
  BY DEF TypeInv, TypeOK
<1>6. ASSUME answered' = answered
      PROVE  AnsweredEventHasJob'
  BY <1>2, <1>5, <1>6 DEF JobInv, AnsweredEventHasJob
<1>7. ASSUME route' = route \/ route' = NoRequest
      PROVE  RequestHasJob'
  <2>1. CASE route' = route
    <3>1. route.stage \in {"route", "check", "project", "evaluate"} => route.event \in Events
      BY <1>5 DEF NoRequest
    <3> QED  BY <1>2, <2>1, <3>1 DEF JobInv, RequestHasJob
  <2>2. CASE route' = NoRequest
    BY <2>2 DEF RequestHasJob, NoRequest
  <2> QED  BY <1>7, <2>1, <2>2
<1>8. ASSUME NEW e \in Events, RouteStep(e)
      PROVE  AnsweredEventHasJob' /\ RequestHasJob'
  <2>1. ASSUME job'[e].status # "NONE", answered' = answered \cup {e}
        PROVE  AnsweredEventHasJob'
    BY <1>2, <1>5, <2>1 DEF JobInv, AnsweredEventHasJob
  <2>2. ASSUME job'[e].status # "NONE", NEW stage \in RouteStages, route' = Request(e, stage)
        PROVE  RequestHasJob'
    BY <2>2, RequestType DEF RequestHasJob
  <2>3. CASE AppendEvent(e)
    BY <1>6, <2>3, RequestType DEF AppendEvent, RequestHasJob, RouteStages
  <2>4. CASE EnqueueProjectionJob(e)
    <3>1. job'[e].status # "NONE"
      BY <2>4, EnqueuedJob DEF EnqueueProjectionJob, TypeInv, TypeOK
    <3> QED  BY <1>6, <1>7, <2>1, <2>2, <2>4, <3>1 DEF EnqueueProjectionJob, RouteStages
  <2>5. ASSUME NEW decision \in {"inline", "skip"}, PostFastBatch(e, decision)
        PROVE  AnsweredEventHasJob' /\ RequestHasJob'
    <3>1. job'[e].status # "NONE"
      <4>1. Enqueued(job[e]) \in Jobs /\ Enqueued(job[e]).status # "NONE"
        BY EnqueuedJob DEF TypeInv, TypeOK
      <4>2. [Enqueued(job[e]) EXCEPT !.status = InlineTerminal(e)].status # "NONE"
        BY <4>1 DEF Jobs, InlineTerminal
      <4> QED  BY <2>5, <4>1, <4>2 DEF PostFastBatch, TypeInv, TypeOK
    <3> QED  BY <1>7, <2>1, <2>5, <3>1 DEF PostFastBatch
  <2>6. CASE /\ job' = job /\ \E stage \in {"route", "check", "project", "evaluate"} : route = Request(e, stage)
             /\ answered' \in {answered, answered \cup {e}}
             /\ route' = NoRequest \/ \E stage \in RouteStages : route' = Request(e, stage)
    <3>1. job'[e].status # "NONE"
      BY <2>6, RequestType DEF JobInv, RequestHasJob, RouteStages
    <3> QED  BY <1>6, <1>7, <2>1, <2>2, <2>6, <3>1
  <2>7. ASSUME NEW decision \in {"inline", "skip"}, DecideRouting(e, decision)
        PROVE  AnsweredEventHasJob' /\ RequestHasJob'
    BY <2>6, <2>7 DEF DecideRouting, RouteStages
  <2>8. CASE InlineCheck(e)
    BY <2>6, <2>8 DEF InlineCheck, RouteStages
  <2>9. CASE InlineProject(e)
    BY <2>6, <2>9 DEF InlineProject, RouteStages
  <2>10. ASSUME NEW succeeds \in BOOLEAN, InlineEvaluate(e, succeeds)
         PROVE  AnsweredEventHasJob' /\ RequestHasJob'
    BY <2>6, <2>10 DEF InlineEvaluate, RouteStages
  <2> QED  BY <1>8, <2>3, <2>4, <2>5, <2>7, <2>8, <2>9, <2>10 DEF RouteStep
<1>9. CASE /\ answered' = answered
           /\ route' = route \/ route' = NoRequest
  BY <1>3, <1>4, <1>6, <1>7, <1>9 DEF JobInv
<1>10. CASE \E e \in Events : RouteStep(e)
  BY <1>3, <1>4, <1>8, <1>10 DEF JobInv
<1> QED  BY <1>9, <1>10 DEF Next, vars, RouteLocked, StartRun, WorkerStep, TakeJob, WorkerCheck,
            WorkerProject, WorkerLocked, WorkerEvaluate, WorkerConfirm, MarkJob, StopRun, CoreCrashes

LEMMA JobInvAlways == Spec => []JobInv
<1>1. Init => JobInv
  BY DEF Init, JobInv, RequestHasJob, AnsweredEventHasJob, JobIsStored, OwnedIsProcessing, NoJob,
         Job, NoRequest
<1>2. TypeInv /\ JobInv /\ [Next]_vars => JobInv'
  BY JobInvStep
<1> QED  BY <1>1, <1>2, TypeInvAlways, PTL DEF Spec

\* Every table, job, request and run is well formed in every state, whatever the
\* routes, the runs and the faults do.
THEOREM TypeCorrect == Spec => []TypeOK
<1>1. TypeInv => TypeOK
  BY DEF TypeInv
<1> QED  BY <1>1, TypeInvAlways, PTL

\* An answered event has its job: the route answers after the enqueue, and repeats the
\* enqueue for a duplicate, so a request that died in between costs nothing.
THEOREM AnsweredHasJob == Spec => []AnsweredEventHasJob
<1>1. JobInv => AnsweredEventHasJob
  BY DEF JobInv
<1> QED  BY <1>1, JobInvAlways, PTL

\* A settled job is never changed again: no run owns it, and neither a claim nor the reset
\* of stale claims nor a repeated enqueue takes it up (projection_outbox.py).
THEOREM SettledStays == Spec => SettledJobStays
<1>1. TypeInv /\ JobInv /\ [Next]_vars
        => [\A e \in Events : job[e].status \in Terminal => job'[e] = job[e]]_vars
  BY JobStep DEF JobMoves, Terminal
<1> QED  BY <1>1, TypeInvAlways, JobInvAlways, PTL DEF Spec, SettledJobStays

-----------------------------------------------------------------------------
(* What the tables keep: verdicts of the runs stay true until they are marked *)

\* What a status says of the tables: APPLIED has left a row; SKIPPED too, or the tick
\* was overtaken or a quote.
Traced(status, m, e) ==
  /\ status = "APPLIED" => ProjectionExists(m, e)
  /\ status = "SKIPPED" /\ Kind[e] # "quote" => ProjectionExists(m, e) \/ OlderThanLatest(m, e)

\* Rows are only added and the latest tick only gets newer (ON CONFLICT ... DO UPDATE
\* after the comparison of timestamps), so a verdict once right stays right.
LEMMA ProcessKeepsTraces ==
  ASSUME NEW m, Good(m), NEW e \in Events
  PROVE  /\ Kind[e] # "quote" => ProjectionExists(ProcessPriceTick(m, e), e)
         /\ Kind[e] \in {"invalid", "quote"} => ProcessPriceTick(m, e).samples = m.samples
         /\ m.samples \subseteq ProcessPriceTick(m, e).samples
         /\ ProcessPriceTick(m, e).samples \subseteq m.samples \cup {e}
         /\ \A f \in Events : ProjectionExists(m, f) => ProjectionExists(ProcessPriceTick(m, e), f)
         /\ \A f \in Events : OlderThanLatest(m, f) => OlderThanLatest(ProcessPriceTick(m, e), f)
<1> DEFINE n == ProcessPriceTick(m, e)
<1> USE OutboxConstants DEF ProjectionExists
<1>0. /\ m.latest \in Events \cup {"none"} /\ m.samples \subseteq Events /\ m.errors \subseteq Events
      /\ m.bars \in [Events -> Nat]
      /\ m = [samples |-> m.samples, latest |-> m.latest, bars |-> m.bars, errors |-> m.errors]
  BY DEF Good, Market
<1>1. CASE Kind[e] = "quote"
  BY <1>1 DEF ProcessPriceTick
<1>2. CASE Kind[e] # "quote" /\ (Kind[e] = "invalid" \/ e \in m.samples)
  <2>1. n = [m EXCEPT !.errors = @ \cup {e}]
    BY <1>2 DEF ProcessPriceTick
  <2>2. n.samples = m.samples /\ n.latest = m.latest /\ n.errors = m.errors \cup {e}
    BY <1>0, <2>1
  <2> HIDE DEF n
  <2>3. \A f \in Events : OlderThanLatest(m, f) => OlderThanLatest(n, f)
    BY <2>2 DEF OlderThanLatest
  <2> QED  BY <2>2, <2>3 DEF n
<1>3. CASE Kind[e] # "quote" /\ ~(Kind[e] = "invalid" \/ e \in m.samples) /\ OlderThanLatest(m, e)
  <2>1. n = [m EXCEPT !.samples = @ \cup {e}]
    BY <1>3 DEF ProcessPriceTick
  <2>2. n.samples = m.samples \cup {e} /\ n.latest = m.latest /\ n.errors = m.errors
    BY <1>0, <2>1
  <2> HIDE DEF n
  <2>3. \A f \in Events : OlderThanLatest(m, f) => OlderThanLatest(n, f)
    BY <2>2 DEF OlderThanLatest
  <2> QED  BY <1>3, <2>2, <2>3 DEF n
<1>4. CASE Kind[e] # "quote" /\ ~(Kind[e] = "invalid" \/ e \in m.samples) /\ ~OlderThanLatest(m, e)
  <2>1. n = [m EXCEPT !.samples = @ \cup {e}, !.latest = e, !.bars[e] = @ + 1]
    BY <1>4 DEF ProcessPriceTick
  <2>2. n = [samples |-> m.samples \cup {e}, latest |-> e,
             bars |-> [m.bars EXCEPT ![e] = @ + 1], errors |-> m.errors]
    BY <1>0, <2>1
  <2> HIDE DEF n
  <2>3. n.samples = m.samples \cup {e} /\ n.latest = e /\ n.errors = m.errors
    BY <2>2
  <2>4. ASSUME NEW f \in Events, OlderThanLatest(m, f)
        PROVE  OlderThanLatest(n, f)
    <3>1. m.latest \in Events /\ Ts[f] < Ts[m.latest] /\ ~(Ts[e] < Ts[m.latest])
      BY <1>0, <1>4, <2>4 DEF OlderThanLatest
    <3>2. Ts[f] \in Nat /\ Ts[e] \in Nat /\ Ts[m.latest] \in Nat
      BY <3>1
    <3> QED  BY <2>3, <3>1, <3>2 DEF OlderThanLatest
  <2> QED  BY <1>4, <2>3, <2>4 DEF n
<1> QED  BY <1>1, <1>2, <1>3, <1>4

LEMMA TracesStay ==
  ASSUME Good(market), [Next]_vars, NEW status, NEW f \in Events, Traced(status, market, f)
  PROVE  Traced(status, market', f)
<1>1. CASE market' = market
  BY <1>1
<1>2. ASSUME NEW e \in Events, market' = ProcessPriceTick(market, e)
      PROVE  /\ ProjectionExists(market, f) => ProjectionExists(market', f)
             /\ OlderThanLatest(market, f) => OlderThanLatest(market', f)
  <2>1. /\ ProjectionExists(market, f) => ProjectionExists(ProcessPriceTick(market, e), f)
        /\ OlderThanLatest(market, f) => OlderThanLatest(ProcessPriceTick(market, e), f)
    BY ProcessKeepsTraces
  <2> QED  BY <1>2, <2>1
<1> QED  BY <1>1, <1>2, MarketStep DEF Traced

\* A run's outcome is true of the tables from the verification to the mark, although
\* the route and other runs write in between.
MarkIsTrue ==
  \A w \in Workers : worker[w].stage = "mark" =>
    worker[w].event \in Events /\ Traced(worker[w].outcome, market, worker[w].event)

TraceInv == MarkIsTrue /\ SettledJobLeavesTrace

\* A verdict is true when it is given (verify_projection_outbox_job).
LEMMA VerdictIsTrue ==
  ASSUME NEW m, NEW e \in Events
  PROVE  /\ VerifyMarketData(m, e) \in {"APPLIED", "SKIPPED", "OLDER", "ERROR"}
         /\ Traced(IF VerifyMarketData(m, e) = "OLDER" THEN "SKIPPED" ELSE VerifyMarketData(m, e), m, e)
BY DEF VerifyMarketData, Traced

LEMMA TraceStep ==
  ASSUME TypeInv, Good(market), JobInv, TraceInv, [Next]_vars
  PROVE  TraceInv'
<1> USE OutboxConstants
<1>0. job \in [Events -> Jobs] /\ worker \in [Workers -> Runs]
  BY DEF TypeInv, TypeOK
<1>1. \A e \in Events : Traced(job[e].status, market, e)
  BY DEF TraceInv, SettledJobLeavesTrace, Traced, OlderThanLatest
<1>2. ASSUME \A e \in Events : Traced(job'[e].status, market', e)
      PROVE  SettledJobLeavesTrace'
  BY <1>2 DEF SettledJobLeavesTrace, Traced, OlderThanLatest
<1>3. ASSUME job' = job
      PROVE  SettledJobLeavesTrace'
  BY <1>1, <1>2, <1>3, TracesStay
<1>4. ASSUME NEW v \in Workers, worker'[v] = worker[v], worker[v].stage = "mark"
      PROVE  worker'[v].event \in Events /\ Traced(worker'[v].outcome, market', worker'[v].event)
  BY <1>4, TracesStay DEF TraceInv, MarkIsTrue
<1>5. ASSUME NEW e \in Events, RouteStep(e)
      PROVE  TraceInv'
  <2>1. worker' = worker
    BY <1>5 DEF RouteStep, AppendEvent, EnqueueProjectionJob, DecideRouting, PostFastBatch,
                InlineCheck, InlineProject, InlineEvaluate
  <2>2. MarkIsTrue'
    BY <1>4, <2>1 DEF MarkIsTrue
  <2>3. CASE job' = job \/ job' = [job EXCEPT ![e] = Enqueued(job[e])]
    <3>1. Enqueued(job[e]).status \in {"PENDING", job[e].status}
      BY <1>0, EnqueuedJob
    <3>2. Traced("PENDING", market', e)
      BY DEF Traced
    <3>3. \A f \in Events : Traced(job'[f].status, market', f)
      BY <1>0, <1>1, <2>3, <3>1, <3>2, TracesStay
    <3> QED  BY <1>2, <2>2, <3>3 DEF TraceInv
  <2>4. ASSUME NEW decision \in {"inline", "skip"}, PostFastBatch(e, decision),
               job' = [job EXCEPT ![e] = [Enqueued(job[e]) EXCEPT !.status = InlineTerminal(e)]],
               market' = ProcessPriceTick(market, e)
        PROVE  TraceInv'
    <3> DEFINE n == [Enqueued(job[e]) EXCEPT !.status = InlineTerminal(e)]
    <3>1. Enqueued(job[e]) \in Jobs
      BY <1>0, EnqueuedJob
    <3>2. n.status = InlineTerminal(e)
      BY <3>1 DEF Jobs
    <3> HIDE DEF n
    <3>3. job' = [job EXCEPT ![e] = n]
      BY <2>4 DEF n
    <3>4. Kind[e] # "quote" => ProjectionExists(market', e)
      BY <2>4, ProcessKeepsTraces
    <3>5. Traced(InlineTerminal(e), market', e)
      BY <3>4 DEF Traced, InlineTerminal
    <3>6. \A f \in Events : Traced(job'[f].status, market', f)
      BY <1>0, <1>1, <3>2, <3>3, <3>5, TracesStay
    <3> QED  BY <1>2, <2>2, <3>6 DEF TraceInv
  <2> QED  BY <1>5, <2>3, <2>4 DEF RouteStep, AppendEvent, EnqueueProjectionJob, DecideRouting,
                PostFastBatch, InlineCheck, InlineProject, InlineEvaluate
<1>6. ASSUME NEW w \in Workers, NEW e \in Events, WorkerStep(w, e)
      PROVE  TraceInv'
  <2>1. worker[w] # NoRun
    BY <1>6 DEF WorkerStep, TakeJob, WorkerCheck, WorkerProject, WorkerLocked, WorkerEvaluate,
                WorkerConfirm, MarkJob, NoRun
  <2>2. ASSUME NEW stage \in RunStages, NEW outcome \in Outcomes \cup {"none"}, job' = job,
               To(w, e, stage, outcome), stage = "mark" => Traced(outcome, market', e)
        PROVE  TraceInv'
    <3>1. /\ worker'[w].event = e /\ worker'[w].stage = stage /\ worker'[w].outcome = outcome
          /\ \A v \in Workers : v # w => worker'[v] = worker[v]
      BY <1>0, <2>1, <2>2, ToStep
    <3> QED  BY <1>3, <1>4, <2>2, <3>1 DEF TraceInv, MarkIsTrue
  <2>3. Traced("ERROR", market', e) /\ Traced("REFUSED", market', e)
    BY DEF Traced
  <2> DEFINE seen == VerifyMarketData(market, e)
             verdict == IF seen = "OLDER" THEN "SKIPPED" ELSE seen
  <2>4. verdict \in Outcomes /\ Traced(verdict, market, e)
    BY VerdictIsTrue DEF Outcomes
  <2>5. CASE TakeJob(w, e)
    <3>1. \/ To(w, e, "mark", "REFUSED")
          \/ To(w, e, "mark", verdict)
          \/ To(w, e, "check", "none")
      BY <2>5 DEF TakeJob
    <3>2. market' = market /\ job' = job
      BY <2>5 DEF TakeJob
    <3> HIDE DEF verdict
    <3> QED  BY <2>2, <2>3, <2>4, <3>1, <3>2 DEF RunStages, Outcomes
  <2>6. CASE WorkerCheck(w, e)
    BY <2>2, <2>6 DEF WorkerCheck, RunStages
  <2>7. CASE WorkerProject(w, e)
    BY <2>2, <2>3, <2>7 DEF WorkerProject, RunStages, Outcomes
  <2>8. CASE WorkerLocked(w, e)
    BY <2>2, <2>3, <2>8 DEF WorkerLocked, RunStages, Outcomes
  <2>9. ASSUME NEW succeeds \in BOOLEAN, WorkerEvaluate(w, e, succeeds)
        PROVE  TraceInv'
    BY <2>2, <2>9 DEF WorkerEvaluate, RunStages
  <2>10. CASE WorkerConfirm(w, e)
    <3>1. To(w, e, "mark", verdict) /\ market' = market /\ job' = job
      BY <2>10 DEF WorkerConfirm
    <3> HIDE DEF verdict
    <3> QED  BY <2>2, <2>4, <3>1 DEF RunStages
  <2>11. CASE MarkJob(w, e)
    <3> DEFINE n == Marked(job[e], worker[w])
    <3>1. job' = [job EXCEPT ![e] = n] /\ worker' = [worker EXCEPT ![w] = Rest(worker[w])]
      BY <2>11 DEF MarkJob
    <3>2. worker[w].event = e /\ worker[w].stage = "mark" /\ worker[w].outcome \in Outcomes
      BY <2>11 DEF MarkJob, TypeInv, MarkHasOutcome
    <3>3. Traced(worker[w].outcome, market, e)
      BY <3>2 DEF TraceInv, MarkIsTrue
    <3>4. \/ n = job[e]
          \/ n.status \in {"APPLIED", "SKIPPED"} => n.status = worker[w].outcome
      BY <1>0, <3>2, MarkedJob
    <3>5. Traced(n.status, market, e)
      BY <1>1, <3>3, <3>4 DEF Traced
    <3> HIDE DEF n
    <3>6. \A f \in Events : Traced(job'[f].status, market', f)
      BY <1>0, <1>1, <3>1, <3>5, TracesStay
    <3>7. Rest(worker[w]).stage # "mark"
      BY <1>0, <2>1, RestRun
    <3>8. MarkIsTrue'
      BY <1>0, <1>4, <3>1, <3>7 DEF MarkIsTrue
    <3> QED  BY <1>2, <3>6, <3>8 DEF TraceInv
  <2> QED  BY <1>6, <2>5, <2>6, <2>7, <2>8, <2>9, <2>10, <2>11 DEF WorkerStep
<1>7. ASSUME NEW w \in Workers, NEW mode \in Modes, NEW stale, NEW claim,
             StartRun(w, mode, stale, claim)
      PROVE  TraceInv'
  <2>1. \A f \in Events : job'[f] = job[f] \/ job'[f].status \in {"PENDING", "PROCESSING"}
    BY <1>7 DEF StartRun, Job
  <2>2. \A f \in Events : Traced(job'[f].status, market', f)
    <3>1. \A f \in Events : Traced("PENDING", market', f) /\ Traced("PROCESSING", market', f)
      BY DEF Traced
    <3> QED  BY <1>1, <2>1, <3>1, TracesStay
  <2>3. MarkIsTrue'
    <3>1. worker' = [worker EXCEPT ![w] = Run(runs + 1, mode, claim)]
      BY <1>7 DEF StartRun
    <3>2. Run(runs + 1, mode, claim).stage = "next"
      BY DEF Run
    <3> QED  BY <1>0, <1>4, <3>1, <3>2 DEF MarkIsTrue
  <2> QED  BY <1>2, <2>2, <2>3 DEF TraceInv
<1>8. CASE \/ RouteLocked
           \/ CoreCrashes
           \/ \E w \in Workers : StopRun(w)
           \/ UNCHANGED vars
  <2>1. job' = job
    BY <1>8 DEF RouteLocked, CoreCrashes, StopRun, vars
  <2>2. \A v \in Workers : worker'[v] = worker[v] \/ worker'[v] = NoRun
    BY <1>0, <1>8 DEF RouteLocked, CoreCrashes, StopRun, vars
  <2> QED  BY <1>3, <1>4, <2>1, <2>2 DEF TraceInv, MarkIsTrue, NoRun
<1> QED  BY <1>5, <1>6, <1>7, <1>8 DEF Next

\* A settled job has left its trace in the tables: the verdict of a run stays true until
\* it is marked, since rows are never removed and the latest tick only gets newer.
THEOREM SettledLeavesTrace == Spec => []SettledJobLeavesTrace
<1>1. Init => TraceInv
  BY DEF Init, TraceInv, MarkIsTrue, SettledJobLeavesTrace, NoJob, Job, NoRun
<1>2. TypeInv /\ Good(market) /\ JobInv /\ TraceInv /\ [Next]_vars => TraceInv'
  BY TraceStep
<1>3. TraceInv => SettledJobLeavesTrace
  BY DEF TraceInv
<1> QED  BY <1>1, <1>2, <1>3, TypeInvAlways, GoodAlways, JobInvAlways, PTL DEF Spec

-----------------------------------------------------------------------------
(* Evaluation: who puts a tick into the tables evaluates it *)

\* Someone who applied e is about to queue its evaluation.
InHand(e) ==
  \/ route = Request(e, "evaluate")
  \/ \E w \in Workers : worker[w].event = e /\ worker[w].stage = "evaluate"

\* As long as nothing fails, a step keeps a tick evaluated or in hand, and the step that
\* applies one takes it in hand.
LEMMA EvaluatedStep ==
  ASSUME TypeInv, Good(market), AppliedTickIsEvaluated, [Next]_vars
  PROVE  AppliedTickIsEvaluated'
<1> USE OutboxConstants
<1>0. worker \in [Workers -> Runs] /\ faults \in Nat /\ market.samples \subseteq Events
  BY DEF TypeInv, TypeOK, Good, Market
<1> SUFFICES ASSUME faults' = 0, NEW k \in market'.samples
             PROVE  k \in queued' \/ InHand(k)'
  BY DEF AppliedTickIsEvaluated, InHand
<1>1. ASSUME faults = 0, k \in market.samples
      PROVE  k \in queued \/ InHand(k)
  BY <1>1 DEF AppliedTickIsEvaluated, InHand
<1>2. ASSUME NEW e \in Events, RouteStep(e)
      PROVE  k \in queued' \/ InHand(k)'
  <2>1. worker' = worker
    BY <1>2 DEF RouteStep, AppendEvent, EnqueueProjectionJob, DecideRouting, PostFastBatch,
                InlineCheck, InlineProject, InlineEvaluate
  <2>2. CASE /\ market' = market /\ queued' = queued /\ faults' = faults
             /\ route # Request(k, "evaluate")
    BY <1>1, <2>1, <2>2 DEF InHand
  <2>3. \A stage \in RouteStages : Request(e, stage).event = e /\ Request(e, stage).stage = stage
    BY RequestType
  <2>4. ASSUME route = Request(k, "evaluate")
        PROVE  route.event = k /\ route.stage = "evaluate"
    BY <2>4 DEF Request
  <2>5. CASE AppendEvent(e) \/ EnqueueProjectionJob(e)
    BY <2>2, <2>4, <2>5 DEF AppendEvent, EnqueueProjectionJob, NoRequest
  <2>6. CASE (\E decision \in {"inline", "skip"} : DecideRouting(e, decision)) \/ InlineCheck(e)
    BY <2>2, <2>3, <2>4, <2>6 DEF DecideRouting, InlineCheck, RouteStages
  <2>7. ASSUME NEW decision \in {"inline", "skip"}, PostFastBatch(e, decision)
        PROVE  k \in queued' \/ InHand(k)'
    <3>1. route' = route /\ faults' = faults /\ queued \subseteq queued'
      BY <2>7 DEF PostFastBatch
    <3>2. CASE k \in market.samples
      BY <1>1, <2>1, <3>1, <3>2 DEF InHand
    <3>3. CASE k \notin market.samples
      <4>1. market' = ProcessPriceTick(market, e)
        BY <2>7, <3>3 DEF PostFastBatch
      <4>2. k = e /\ Kind[e] = "valid"
        BY <3>3, <4>1, ProcessKeepsTraces
      <4> QED  BY <2>7, <3>3, <4>2 DEF PostFastBatch
    <3> QED  BY <3>2, <3>3
  <2>8. CASE InlineProject(e)
    <3>1. /\ route = Request(e, "project") /\ faults' = faults /\ queued' = queued
          /\ market' = ProcessPriceTick(market, e)
          /\ e \in market'.samples \ market.samples => route' = Request(e, "evaluate")
      BY <2>8 DEF InlineProject
    <3>2. CASE k \in market.samples
      BY <1>1, <2>1, <2>3, <2>4, <3>1, <3>2 DEF InHand, RouteStages
    <3>3. CASE k \notin market.samples
      <4>1. k = e
        BY <3>1, <3>3, ProcessKeepsTraces
      <4> QED  BY <3>1, <3>3, <4>1 DEF InHand
    <3> QED  BY <3>2, <3>3
  <2>9. ASSUME NEW succeeds \in BOOLEAN, InlineEvaluate(e, succeeds)
        PROVE  k \in queued' \/ InHand(k)'
    <3>1. succeeds /\ faults = 0
      BY <1>0, <2>9 DEF InlineEvaluate
    <3>2. market' = market /\ queued' = queued \cup {e} /\ route = Request(e, "evaluate")
      BY <2>9, <3>1 DEF InlineEvaluate
    <3>3. route = Request(k, "evaluate") => k = e
      BY <2>3, <2>4, <3>2 DEF RouteStages
    <3> QED  BY <1>1, <2>1, <3>1, <3>2, <3>3 DEF InHand
  <2> QED  BY <1>2, <2>5, <2>6, <2>7, <2>8, <2>9 DEF RouteStep
<1>3. ASSUME NEW w \in Workers, NEW e \in Events, WorkerStep(w, e)
      PROVE  k \in queued' \/ InHand(k)'
  <2>1. route' = route
    BY <1>3 DEF WorkerStep, TakeJob, WorkerCheck, WorkerProject, WorkerLocked, WorkerEvaluate,
                WorkerConfirm, MarkJob
  <2>2. worker[w] # NoRun
    BY <1>3 DEF WorkerStep, TakeJob, WorkerCheck, WorkerProject, WorkerLocked, WorkerEvaluate,
                WorkerConfirm, MarkJob, NoRun
  <2>3. ASSUME NEW stage \in RunStages, NEW outcome \in Outcomes \cup {"none"},
               To(w, e, stage, outcome)
        PROVE  /\ worker'[w].event = e /\ worker'[w].stage = stage
               /\ \A v \in Workers : v # w => worker'[v] = worker[v]
    BY <1>0, <2>2, <2>3, ToStep
  <2>4. ASSUME worker[w].stage # "evaluate", \A v \in Workers : v # w => worker'[v] = worker[v],
               faults = 0, k \in market.samples, queued' = queued
        PROVE  k \in queued' \/ InHand(k)'
    BY <1>1, <2>1, <2>4 DEF InHand
  <2>5. \A v \in Workers : v # w => worker'[v] = worker[v]
    <3>1. CASE MarkJob(w, e)
      BY <1>0, <3>1 DEF MarkJob
    <3>2. CASE \E stage, outcome : To(w, e, stage, outcome)
      BY <1>0, <3>2 DEF To
    <3> QED  BY <1>3, <3>1, <3>2 DEF WorkerStep, TakeJob, WorkerCheck, WorkerProject, WorkerLocked,
                WorkerEvaluate, WorkerConfirm
  <2>6. CASE TakeJob(w, e) \/ WorkerCheck(w, e) \/ WorkerConfirm(w, e) \/ MarkJob(w, e)
    BY <2>4, <2>5, <2>6 DEF TakeJob, WorkerCheck, WorkerConfirm, MarkJob
  <2>7. CASE WorkerProject(w, e)
    <3>1. /\ worker[w].stage = "project" /\ faults' = faults /\ queued' = queued
          /\ market' = ProcessPriceTick(market, e)
      BY <2>7 DEF WorkerProject
    <3>2. CASE k \in market.samples
      BY <2>4, <2>5, <3>1, <3>2
    <3>3. CASE k \notin market.samples
      <4>1. k = e
        BY <3>1, <3>3, ProcessKeepsTraces
      <4>2. To(w, e, "evaluate", "none")
        BY <2>7, <3>3, <4>1 DEF WorkerProject
      <4> QED  BY <2>3, <4>1, <4>2 DEF InHand, RunStages
    <3> QED  BY <3>2, <3>3
  <2>8. CASE WorkerLocked(w, e)
    BY <1>0, <2>8 DEF WorkerLocked
  <2>9. ASSUME NEW succeeds \in BOOLEAN, WorkerEvaluate(w, e, succeeds)
        PROVE  k \in queued' \/ InHand(k)'
    <3>1. succeeds /\ faults = 0
      BY <1>0, <2>9 DEF WorkerEvaluate
    <3>2. /\ market' = market /\ queued' = queued \cup {e}
          /\ worker[w].event = e
      BY <2>9, <3>1 DEF WorkerEvaluate
    <3> QED  BY <1>1, <2>1, <2>5, <3>1, <3>2 DEF InHand
  <2> QED  BY <1>3, <2>6, <2>7, <2>8, <2>9 DEF WorkerStep
<1>4. CASE RouteLocked \/ CoreCrashes
  BY <1>0, <1>4 DEF RouteLocked, CoreCrashes
<1>5. ASSUME NEW w \in Workers,
             \/ StopRun(w)
             \/ \E mode \in Modes : \E stale, claim : StartRun(w, mode, stale, claim)
      PROVE  k \in queued' \/ InHand(k)'
  <2>1. /\ route' = route /\ market' = market /\ queued' = queued /\ faults' = faults
        /\ worker[w].stage # "evaluate"
    BY <1>5 DEF StopRun, StartRun, NoRun
  <2>2. \A v \in Workers : v # w => worker'[v] = worker[v]
    BY <1>0, <1>5 DEF StopRun, StartRun
  <2> QED  BY <1>1, <2>1, <2>2 DEF InHand
<1>6. CASE UNCHANGED vars
  <2>1. /\ route' = route /\ market' = market /\ queued' = queued /\ faults' = faults
        /\ worker' = worker
    BY <1>6 DEF vars
  <2> QED  BY <1>1, <2>1 DEF InHand
<1> QED  BY <1>2, <1>3, <1>4, <1>5, <1>6 DEF Next

\* As long as nothing crashed or failed, every tick in the tables was queued for the
\* incremental evaluation, or whoever applied it is about to queue it.
THEOREM AppliedIsEvaluated == Spec => []AppliedTickIsEvaluated
<1>1. Init => AppliedTickIsEvaluated
  <2>1. Init => market.samples = {}
    BY DEF Init, EmptyMarket
  <2> QED  BY <2>1 DEF AppliedTickIsEvaluated
<1>2. TypeInv /\ Good(market) /\ AppliedTickIsEvaluated /\ [Next]_vars => AppliedTickIsEvaluated'
  BY EvaluatedStep
<1> QED  BY <1>1, <1>2, TypeInvAlways, GoodAlways, PTL DEF Spec
=============================================================================
