---------------------------- MODULE GatewayOrders ----------------------------
(***************************************************************************)
(* The path of an order command through the three parties that handle it:  *)
(*                                                                         *)
(*   Core     the SQLite command queue, the broker-boundary rows and the   *)
(*            deduplicated event store; every action is one transaction;   *)
(*   Gateway  the single-threaded Kiwoom process: the commands it polled,  *)
(*            the handler, the FIFO of events it still has to post, the    *)
(*            registry of accepted orders and the durable pre-ack journal; *)
(*   broker   Kiwoom's SendOrder (external): it accepts, refuses, or       *)
(*            raises without telling whether it accepted.                  *)
(*                                                                         *)
(* HTTP requests and responses may be lost, a timed-out pre-ack request    *)
(* may still be committed later, and the Gateway may crash at any step.    *)
(* Clocks are abstracted: any claimed command may be found past its        *)
(* dispatch timeout, any command may pass its expires_at.                  *)
(***************************************************************************)
EXTENDS OrderBoundary, FiniteSets, Sequences

CONSTANTS
  Commands,          \* order commands, by command_id
  SendOrders,        \* the send_order ones; the others are cancel_order
  KeyOf,             \* idempotency key of each command
  MaxAttempts,       \* bound: how often a command is claimed
  MaxCrashes,        \* bound: Gateway crashes
  MaxJournalFaults   \* bound: failing journal writes

ASSUME ConstantsAssumption ==
  /\ SendOrders \subseteq Commands
  /\ IsFiniteSet(Commands)
  /\ MaxAttempts \in Nat /\ MaxCrashes \in Nat /\ MaxJournalFaults \in Nat
  /\ "none" \notin Commands

VARIABLES
  \* Core
  status,     \* gateway_commands.status, "NONE" before the enqueue
  attempts,   \* gateway_commands.attempts
  expired,    \* expires_at has passed
  boundary,   \* gateway_order_broker_boundaries
  seen,       \* raw_events: the events Core has recorded
  \* the wire
  response,   \* commands of a poll response on its way to the Gateway
  latePreAck, \* pre-ack requests the Gateway gave up on, still to be committed
  \* Gateway, lost in a crash
  inbox,      \* polled commands not handled yet
  hand,       \* the command being handled and how far its handler is
  outbox,     \* events to post, first in first out
  pending,    \* PendingOrderRegistry
  \* Gateway, durable
  journal,    \* last status in the pre-ack journal, per command
  crashes, faults,
  \* broker
  calls,      \* SendOrder calls made for the command
  accepted    \* commands the broker has accepted

coreVars   == <<status, attempts, expired, boundary, seen>>
wireVars   == <<response, latePreAck>>
gatewayVars == <<inbox, hand, outbox, pending>>
durableVars == <<journal, crashes, faults>>
brokerVars == <<calls, accepted>>
vars == <<status, attempts, expired, boundary, seen, response, latePreAck,
          inbox, hand, outbox, pending, journal, crashes, faults, calls, accepted>>

-----------------------------------------------------------------------------
\* An event is identified by its type, its command and the attempt (the
\* restart, for a journal replay) that created it: a retry posts the same
\* event_id again, every new event has a new one.
Events == [type : EventTypes, cmd : Commands, n : Nat]

Event(type, c, n) == [type |-> type, cmd |-> c, n |-> n]

\* The sequences that list every element of a set once.
Arrangements(S) ==
  {seq \in [1 .. Cardinality(S) -> S] :
     \A i, j \in 1 .. Cardinality(S) : seq[i] = seq[j] => i = j}

\* How far the handler of a command is, and what the broker call returned.
Stages == {"started", "journaled", "confirmed", "called"}
Results == {"none", "ok", "refused", "raised"}
Idle == [cmd |-> "none", stage |-> "idle", result |-> "none"]
Hands == {Idle} \cup [cmd : Commands, stage : Stages, result : Results]
At(c, stage) == [cmd |-> c, stage |-> stage, result |-> "none"]

JournalStatuses == {"NONE", "PRE_ACK", "SEND_FAILED", "BROKER_ACCEPTED",
                    "BROKER_REJECTED", "UNCONFIRMED"}

\* Fault: the timeout forgets the orders whose pre-ack is recorded.
InFlightFault == {"CLAIMED", "GATEWAY_STARTED"}

\* The statuses the dispatch timeout applies to.
InFlight == {"CLAIMED", "GATEWAY_STARTED", "PRE_ACK_RECORDED"}

\* Within the attempt that runs now; the handler's events carry its number.
EventOf(type, c) == Event(type, c, attempts[c])

TypeOK ==
  /\ status \in [Commands -> Statuses \cup {"NONE"}]
  /\ attempts \in [Commands -> Nat]
  /\ expired \in [Commands -> BOOLEAN]
  /\ boundary \in [Commands -> Boundaries]
  /\ seen \subseteq Events
  /\ response \subseteq Commands
  /\ latePreAck \subseteq {e \in Events : e.type = "order_pre_ack"}
  /\ inbox \in Seq(Commands)
  /\ hand \in Hands
  /\ outbox \in Seq(Events)
  /\ pending \subseteq Commands
  /\ journal \in [Commands -> JournalStatuses]
  /\ crashes \in 0 .. MaxCrashes
  /\ faults \in 0 .. MaxJournalFaults
  /\ calls \in [Commands -> Nat]
  /\ accepted \subseteq Commands

Init ==
  /\ status = [c \in Commands |-> "NONE"]
  /\ attempts = [c \in Commands |-> 0]
  /\ expired = [c \in Commands |-> FALSE]
  /\ boundary = [c \in Commands |-> NoBoundary]
  /\ seen = {}
  /\ response = {}
  /\ latePreAck = {}
  /\ inbox = <<>>
  /\ hand = Idle
  /\ outbox = <<>>
  /\ pending = {}
  /\ journal = [c \in Commands |-> "NONE"]
  /\ crashes = 0
  /\ faults = 0
  /\ calls = [c \in Commands |-> 0]
  /\ accepted = {}

-----------------------------------------------------------------------------
(* Core *)

\* The dedupe row of an idempotency key is retained until the expires_at of
\* the command that holds it; after that the key may be used again.
KeyRetained(c) ==
  \E d \in Commands : d # c /\ KeyOf[d] = KeyOf[c] /\ status[d] # "NONE" /\ ~expired[d]

EnqueueCommand(c) ==
  /\ status[c] = "NONE"
  /\ ~KeyRetained(c)
  /\ status' = [status EXCEPT ![c] = "QUEUED"]
  /\ UNCHANGED <<attempts, expired, boundary, seen>>
  /\ UNCHANGED <<wireVars, gatewayVars, durableVars, brokerVars>>

\* The clock passes the expires_at of a command.
PassExpiry(c) ==
  /\ status[c] # "NONE"
  /\ ~expired[c]
  /\ expired' = [expired EXCEPT ![c] = TRUE]
  /\ UNCHANGED <<status, attempts, boundary, seen>>
  /\ UNCHANGED <<wireVars, gatewayVars, durableVars, brokerVars>>

\* The first transaction of a poll: every queued command past its expires_at
\* is EXPIRED, every claimed one past the dispatch timeout UNCONFIRMED.
ExpireStaleGatewayCommands(stale) ==
  LET queuedExpired == {c \in Commands : status[c] = "QUEUED" /\ expired[c]} IN
  /\ stale \subseteq {c \in Commands : status[c] \in InFlight}
  /\ stale \cup queuedExpired # {}
  /\ status' = [c \in Commands |-> IF c \in queuedExpired THEN "EXPIRED"
                                   ELSE IF c \in stale THEN "UNCONFIRMED"
                                   ELSE status[c]]
  /\ boundary' = [c \in Commands |->
                    IF c \in stale THEN UpsertBoundary(boundary[c], "UNCONFIRMED", FALSE)
                    ELSE boundary[c]]
  /\ UNCHANGED <<attempts, expired, seen>>
  /\ UNCHANGED <<wireVars, gatewayVars, durableVars, brokerVars>>

RoutingBlocked == \E c \in Commands : Fences(status[c], attempts[c], boundary[c])

\* What a poll may hand out: queued, not expired, and no new order while the
\* boundary fences routing (a cancel passes the fence).
Dispatchable(c) ==
  /\ status[c] = "QUEUED"
  /\ ~expired[c]
  /\ RoutingBlocked => c \notin SendOrders

\* Fault: the unique index is missing.
ClaimsKeepKeysUniqueFault(batch) == TRUE

\* uq_gateway_order_boundary_idempotency: no two boundary rows share a key.
\* A claim that would break it fails the transaction, and with it the poll.
ClaimsKeepKeysUnique(batch) ==
  \A c \in batch, d \in Commands :
    c # d /\ KeyOf[c] = KeyOf[d] => boundary[d].state = "NONE" /\ d \notin batch

\* The second transaction of a poll.  Which of the dispatchable commands it
\* takes depends on available_at, on the sort order and on the limit.
DispatchReadyCommands(batch) ==
  LET expiring == {c \in Commands : status[c] = "QUEUED" /\ expired[c]} IN
  /\ response = {}
  /\ batch # {}
  /\ \A c \in batch : Dispatchable(c) /\ attempts[c] < MaxAttempts
  /\ ClaimsKeepKeysUnique(batch)
  /\ status' = [c \in Commands |-> IF c \in batch THEN "CLAIMED"
                                   ELSE IF c \in expiring THEN "EXPIRED"
                                   ELSE status[c]]
  /\ attempts' = [c \in Commands |-> IF c \in batch THEN attempts[c] + 1 ELSE attempts[c]]
  /\ boundary' = [c \in Commands |->
                    IF c \in batch THEN UpsertBoundary(boundary[c], "CLAIMED", FALSE)
                    ELSE boundary[c]]
  /\ response' = batch
  /\ UNCHANGED <<expired, seen, latePreAck>>
  /\ UNCHANGED <<gatewayVars, durableVars, brokerVars>>

\* _append_gateway_event_once deduplicates by event_id.
IsDuplicate(e) == e \in seen

\* Core records an event; record_command_event is part of the transaction.
Record(e) ==
  /\ seen' = seen \cup {e}
  /\ IF IsDuplicate(e)
     THEN UNCHANGED <<status, boundary>>
     ELSE LET b == BoundaryAfterEvent(boundary[e.cmd], e.type) IN
          /\ boundary' = [boundary EXCEPT ![e.cmd] = b]
          /\ status' = [status EXCEPT ![e.cmd] = StatusAfterEvent(status[e.cmd], e.type, b)]

-----------------------------------------------------------------------------
(* The wire *)

\* The poll response reaches the Gateway, in the order Core sorted it.
DeliverResponse(order) ==
  /\ response # {}
  /\ order \in Arrangements(response)
  /\ inbox' = inbox \o order
  /\ response' = {}
  /\ UNCHANGED <<latePreAck, hand, outbox, pending>>
  /\ UNCHANGED <<coreVars, durableVars, brokerVars>>

\* The response is lost: Core never hands the same claim out again.
LoseResponse ==
  /\ response # {}
  /\ response' = {}
  /\ UNCHANGED <<latePreAck, gatewayVars, coreVars, durableVars, brokerVars>>

\* Core commits a pre-ack request whose sender has already given up.
CommitLatePreAck(e) ==
  /\ e \in latePreAck
  /\ latePreAck' = latePreAck \ {e}
  /\ Record(e)
  /\ UNCHANGED <<attempts, expired, response>>
  /\ UNCHANGED <<gatewayVars, durableVars, brokerVars>>

\* The oldest event is posted.  Without the answer it stays in the queue and
\* the same event_id is posted again.
PostEvent(answered) ==
  /\ outbox # <<>>
  /\ answered \/ ~IsDuplicate(Head(outbox))
  /\ Record(Head(outbox))
  /\ outbox' = IF answered THEN Tail(outbox) ELSE outbox
  /\ UNCHANGED <<attempts, expired, inbox, hand, pending>>
  /\ UNCHANGED <<wireVars, durableVars, brokerVars>>

-----------------------------------------------------------------------------
(* Gateway *)

Emit(e) == outbox' = Append(outbox, e)

\* A handler that ends with one event.
Finish(e) == hand' = Idle /\ Emit(e)

TakeCommand(c) ==
  /\ hand = Idle
  /\ inbox # <<>>
  /\ c = Head(inbox)
  /\ inbox' = Tail(inbox)

\* Expired before execution, refused by the safety checks, or connected to
\* something that is not the simulation server: command_failed.
RefuseCommand(c) ==
  /\ TakeCommand(c)
  /\ Finish(EventOf("command_failed", c))
  /\ UNCHANGED pending
  /\ UNCHANGED <<coreVars, wireVars, durableVars, brokerVars>>

\* Fault: no return after the denial, the handler goes on to the broker.
RateLimitCommandFault(c) ==
  /\ TakeCommand(c)
  /\ ~expired[c]
  /\ hand' = At(c, "started")
  /\ outbox' = outbox \o <<EventOf("command_started", c), EventOf("rate_limited", c)>>
  /\ UNCHANGED pending
  /\ UNCHANGED <<coreVars, wireVars, durableVars, brokerVars>>

\* The rate limit governor denies: the broker is not called.
RateLimitCommand(c) ==
  /\ TakeCommand(c)
  /\ ~expired[c]
  /\ hand' = Idle
  /\ outbox' = outbox \o <<EventOf("command_started", c), EventOf("rate_limited", c)>>
  /\ UNCHANGED pending
  /\ UNCHANGED <<coreVars, wireVars, durableVars, brokerVars>>

StartCommand(c) ==
  /\ TakeCommand(c)
  /\ ~expired[c]
  /\ hand' = At(c, "started")
  /\ Emit(EventOf("command_started", c))
  /\ UNCHANGED pending
  /\ UNCHANGED <<coreVars, wireVars, durableVars, brokerVars>>

JournalPreAck(c) ==
  /\ hand = At(c, "started")
  /\ journal' = [journal EXCEPT ![c] = "PRE_ACK"]
  /\ hand' = At(c, "journaled")
  /\ UNCHANGED <<inbox, outbox, pending, crashes, faults>>
  /\ UNCHANGED <<coreVars, wireVars, brokerVars>>

\* A failing journal write escapes the handler: handle_commands reports it.
JournalPreAckFails(c) ==
  /\ hand = At(c, "started")
  /\ faults < MaxJournalFaults
  /\ faults' = faults + 1
  /\ Finish(EventOf("command_failed", c))
  /\ UNCHANGED <<inbox, pending, journal, crashes>>
  /\ UNCHANGED <<coreVars, wireVars, brokerVars>>

\* The synchronous POST of order_pre_ack: Core commits and its answer arrives
\* with durable_pre_ack_recorded.
PreAckConfirmed(c) ==
  /\ hand = At(c, "journaled")
  /\ Record(EventOf("order_pre_ack", c))
  /\ boundary'[c].preAck
  /\ hand' = At(c, "confirmed")
  /\ UNCHANGED <<attempts, expired, inbox, outbox, pending>>
  /\ UNCHANGED <<wireVars, durableVars, brokerVars>>

\* Fault: a pre-ack without an answer counts as recorded.
PreAckUnansweredFault(c, fate, written) ==
  /\ hand = At(c, "journaled")
  /\ hand' = At(c, "confirmed")
  /\ UNCHANGED <<inbox, outbox, pending>>
  /\ UNCHANGED <<coreVars, wireVars, durableVars, brokerVars>>

\* No answer: SEND_FAILED in the journal, command_failed, no broker call.  The
\* request is lost, was committed all the same, or will be committed later.
\* If the journal cannot be written, handle_commands reports the same failure
\* and the journal keeps PRE_ACK.
PreAckUnanswered(c, fate, written) ==
  LET e == EventOf("order_pre_ack", c) IN
  /\ hand = At(c, "journaled")
  /\ Finish(EventOf("command_failed", c))
  /\ written \/ faults < MaxJournalFaults
  /\ journal' = IF written THEN [journal EXCEPT ![c] = "SEND_FAILED"] ELSE journal
  /\ faults' = IF written THEN faults ELSE faults + 1
  /\ \/ fate = "lost" /\ UNCHANGED <<status, boundary, seen, latePreAck>>
     \/ fate = "committed" /\ Record(e) /\ UNCHANGED latePreAck
     \/ fate = "late" /\ latePreAck' = latePreAck \cup {e} /\ UNCHANGED <<status, boundary, seen>>
  /\ UNCHANGED <<attempts, expired, response, inbox, pending, crashes>>
  /\ UNCHANGED brokerVars

\* SendOrder (external).  When it raises, the order may be accepted or not.
BrokerCall(c, result, accepts) ==
  /\ hand = At(c, "confirmed")
  /\ result = "ok" => accepts
  /\ result = "refused" => ~accepts
  /\ calls' = [calls EXCEPT ![c] = @ + 1]
  /\ accepted' = IF accepts THEN accepted \cup {c} ELSE accepted
  /\ hand' = [cmd |-> c, stage |-> "called", result |-> result]
  /\ UNCHANGED <<inbox, outbox, pending>>
  /\ UNCHANGED <<coreVars, wireVars, durableVars>>

\* mark_broker_result succeeds: the answer of the broker is reported.
ReportResult(c) ==
  /\ hand.stage = "called" /\ hand.cmd = c /\ hand.result \in {"ok", "refused"}
  /\ journal' = [journal EXCEPT ![c] = IF hand.result = "ok" THEN "BROKER_ACCEPTED"
                                                             ELSE "BROKER_REJECTED"]
  /\ pending' = IF hand.result = "ok" /\ c \in SendOrders THEN pending \cup {c} ELSE pending
  /\ Finish(EventOf(IF hand.result = "ok" THEN "command_ack" ELSE "command_failed", c))
  /\ UNCHANGED <<inbox, crashes, faults>>
  /\ UNCHANGED <<coreVars, wireVars, brokerVars>>

\* mark_broker_result cannot be written: the except branch takes the order
\* for unconfirmed, as if the broker had raised.
ResultWriteFails(c) ==
  /\ hand.stage = "called" /\ hand.cmd = c /\ hand.result \in {"ok", "refused"}
  /\ faults < MaxJournalFaults
  /\ faults' = faults + 1
  /\ hand' = [cmd |-> c, stage |-> "called", result |-> "raised"]
  /\ UNCHANGED <<inbox, outbox, pending, journal, crashes>>
  /\ UNCHANGED <<coreVars, wireVars, brokerVars>>

\* Fault: a broker exception is reported as a failed command.
ReportUnconfirmedFault(c) ==
  /\ hand.stage = "called" /\ hand.cmd = c /\ hand.result = "raised"
  /\ journal' = [journal EXCEPT ![c] = "UNCONFIRMED"]
  /\ Finish(EventOf("command_failed", c))
  /\ UNCHANGED <<inbox, pending, crashes, faults>>
  /\ UNCHANGED <<coreVars, wireVars, brokerVars>>

\* The broker raised: whether it has the order is unknown.
ReportUnconfirmed(c) ==
  /\ hand.stage = "called" /\ hand.cmd = c /\ hand.result = "raised"
  /\ journal' = [journal EXCEPT ![c] = "UNCONFIRMED"]
  /\ Finish(EventOf("order_broker_unconfirmed", c))
  /\ UNCHANGED <<inbox, pending, crashes, faults>>
  /\ UNCHANGED <<coreVars, wireVars, brokerVars>>

\* mark_unconfirmed cannot be written either: the exception escapes the
\* handler and handle_commands reports command_failed.
UnconfirmedWriteFails(c) ==
  /\ hand.stage = "called" /\ hand.cmd = c /\ hand.result = "raised"
  /\ faults < MaxJournalFaults
  /\ faults' = faults + 1
  /\ Finish(EventOf("command_failed", c))
  /\ UNCHANGED <<inbox, pending, journal, crashes>>
  /\ UNCHANGED <<coreVars, wireVars, brokerVars>>

\* A chejan callback that the registry links to the command.  (One that it
\* cannot link carries no command_id and changes no command.)
LinkedChejan(c) ==
  /\ c \in pending
  /\ pending' = pending \ {c}
  /\ Emit(EventOf("chejan", c))
  /\ UNCHANGED <<inbox, hand>>
  /\ UNCHANGED <<coreVars, wireVars, durableVars, brokerVars>>

\* The Kiwoom session drops: every polled, unstarted command is reported failed.
SessionDisconnected ==
  /\ hand = Idle
  /\ inbox # <<>>
  /\ outbox' = outbox \o [i \in 1 .. Len(inbox) |-> EventOf("command_failed", inbox[i])]
  /\ inbox' = <<>>
  /\ UNCHANGED <<hand, pending>>
  /\ UNCHANGED <<coreVars, wireVars, durableVars, brokerVars>>

\* replay_order_pre_ack_journal: new events for the commands whose last
\* journal status is PRE_ACK or BROKER_ACCEPTED, in the journal's order.
RecoveryEvent(c, n) ==
  Event(IF journal[c] = "BROKER_ACCEPTED" THEN "order_pre_ack_accepted" ELSE "order_pre_ack",
        c, MaxAttempts + n)

Replayed == {c \in Commands : journal[c] \in {"PRE_ACK", "BROKER_ACCEPTED"}}

\* The Gateway dies and is started again.  A pre-ack request being sent may
\* still reach Core.
CrashAndRestart(order, inTransit) ==
  /\ crashes < MaxCrashes
  /\ crashes' = crashes + 1
  /\ order \in Arrangements(Replayed)
  /\ inTransit => hand.stage = "journaled"
  /\ latePreAck' = IF inTransit THEN latePreAck \cup {EventOf("order_pre_ack", hand.cmd)}
                   ELSE latePreAck
  /\ outbox' = [i \in 1 .. Len(order) |-> RecoveryEvent(order[i], crashes + 1)]
  /\ response' = {}
  /\ inbox' = <<>>
  /\ hand' = Idle
  /\ pending' = {}
  /\ UNCHANGED <<journal, faults>>
  /\ UNCHANGED <<coreVars, brokerVars>>

-----------------------------------------------------------------------------
CoreStep ==
  \/ \E c \in Commands : EnqueueCommand(c) \/ PassExpiry(c)
  \/ \E S \in SUBSET Commands : ExpireStaleGatewayCommands(S) \/ DispatchReadyCommands(S)

WireStep ==
  \/ \E order \in Arrangements(response) : DeliverResponse(order)
  \/ LoseResponse
  \/ \E e \in latePreAck : CommitLatePreAck(e)
  \/ \E answered \in BOOLEAN : PostEvent(answered)

HandlerStep(c) ==
  \/ RefuseCommand(c)
  \/ RateLimitCommand(c)
  \/ StartCommand(c)
  \/ JournalPreAck(c)
  \/ JournalPreAckFails(c)
  \/ PreAckConfirmed(c)
  \/ \E fate \in {"lost", "committed", "late"}, written \in BOOLEAN : PreAckUnanswered(c, fate, written)
  \/ \E result \in {"ok", "refused", "raised"}, accepts \in BOOLEAN : BrokerCall(c, result, accepts)
  \/ ReportResult(c)
  \/ ResultWriteFails(c)
  \/ ReportUnconfirmed(c)
  \/ UnconfirmedWriteFails(c)
  \/ LinkedChejan(c)

GatewayStep ==
  \/ \E c \in Commands : HandlerStep(c)
  \/ SessionDisconnected
  \/ \E order \in Arrangements(Replayed), inTransit \in BOOLEAN : CrashAndRestart(order, inTransit)

Next == CoreStep \/ WireStep \/ GatewayStep

Spec == Init /\ [][Next]_vars

\* Every poll that finds a claim past its timeout settles it, and the Gateway
\* polls for ever: the timeout of each claim is served eventually.  Nothing
\* else is assumed: events and answers may be lost, handlers may hang.
TimeoutServed(c) ==
  \E S \in SUBSET Commands : c \in S /\ ExpireStaleGatewayCommands(S)

FairSpec == Spec /\ \A c \in Commands : WF_vars(TimeoutServed(c))

-----------------------------------------------------------------------------
(* Properties *)

\* For one idempotency key SendOrder is called at most once, whatever is
\* lost, retried, replayed or enqueued again (queue claim, event dedupe,
\* rate-limit requeue rule and the unique key index together).
AtMostOneCallPerKey ==
  \A c, d \in Commands :
    KeyOf[c] = KeyOf[d] /\ calls[c] > 0 => calls[c] = 1 /\ (d # c => calls[d] = 0)

\* The broker is called only for an order whose pre-ack Core has committed
\* (_record_durable_pre_ack), even if the answer to it arrives late or never.
CallOnlyAfterDurablePreAck ==
  \A c \in Commands : calls[c] > 0 => boundary[c].preAck

\* An order the broker has accepted never looks finished, unsent or queued to
\* Core: it is pre-acked, unconfirmed, accepted or confirmed.  (If the journal
\* cannot be written after the broker raised, it is reported as failed.)
AcceptedOrderStaysVisible ==
  faults = 0 => \A c \in accepted :
    status[c] \in {"PRE_ACK_RECORDED", "UNCONFIRMED", "BROKER_ACCEPTED", "CHEJAN_CONFIRMED"}

\* The counts that the boundary status reports as structural faults stay 0:
\* no claim without a row, no broker progress without a durable pre-ack, no
\* two rows with one key.
BoundaryRowsComplete ==
  /\ \A c \in Commands : /\ ~MissingBoundary(attempts[c], boundary[c])
                         /\ ~DurablePreAckGap(status[c], boundary[c])
  /\ \A c, d \in Commands : c # d /\ KeyOf[c] = KeyOf[d] =>
        boundary[c].state = "NONE" \/ boundary[d].state = "NONE"

\* Late and reordered events never move a boundary row back, and a recorded
\* pre-ack or start is never forgotten (_resolve_state, COALESCE).
BoundaryNeverRegresses ==
  [][\A c \in Commands :
       /\ Rank(boundary[c].state) <= Rank(boundary'[c].state)
       /\ boundary[c].preAck => boundary'[c].preAck
       /\ boundary[c].started => boundary'[c].started]_vars

\* An order accepted by the broker is eventually confirmed, or fences new
\* orders as UNCONFIRMED: a lost answer never leaves it unnoticed.
AcceptedOrderSurfaces ==
  \A c \in Commands :
    c \in accepted ~>
      faults > 0 \/ boundary[c].state \in {"UNCONFIRMED", "BROKER_ACCEPTED", "CHEJAN_CONFIRMED"}

-----------------------------------------------------------------------------
(* The invariants the proofs rest on *)

InInbox(c) == \E i \in 1 .. Len(inbox) : inbox[i] = c

\* A rate_limited event that Core has still to record will re-queue its command.
Unrequeued(c) ==
  \E i \in 1 .. Len(outbox) :
    outbox[i].type = "rate_limited" /\ outbox[i].cmd = c /\ outbox[i] \notin seen

\* No command is in the inbox twice.
InboxDistinct == \A i, j \in 1 .. Len(inbox) : inbox[i] = inbox[j] => i = j

\* A rate_limited event that Core has still to record is of the latest attempt.
RateLimitedCurrent ==
  \A i \in 1 .. Len(outbox) :
    outbox[i].type = "rate_limited" /\ outbox[i] \notin seen => outbox[i].n = attempts[outbox[i].cmd]

Unclaimed(c) == status[c] \in {"NONE", "QUEUED"}

\* The permission to call the broker is in one place at a time: the queue, a
\* poll response, the inbox, the handler, or an unrecorded rate_limited event;
\* once the broker is called it is nowhere (poll claim, event dedupe and the
\* rate-limit requeue of record_command_event).
SingleClaim ==
  /\ InboxDistinct
  /\ RateLimitedCurrent
  /\ \A c \in Commands :
       /\ Unclaimed(c) => c \notin response /\ ~InInbox(c) /\ ~Unrequeued(c) /\ hand.cmd # c
       /\ c \in response => ~InInbox(c) /\ ~Unrequeued(c) /\ hand.cmd # c
       /\ InInbox(c) => ~Unrequeued(c) /\ hand.cmd # c
       /\ Unrequeued(c) => hand.cmd # c
       /\ Unclaimed(c) \/ c \in response \/ InInbox(c) \/ Unrequeued(c) => calls[c] = 0
       /\ hand.cmd = c => calls[c] = IF hand.stage = "called" THEN 1 ELSE 0
       /\ calls[c] <= 1

HasRow(c) == boundary[c].state # "NONE"

\* Anything on its way, or remembered, about a command that was claimed.
Traced(c) ==
  \/ c \in response \/ InInbox(c) \/ hand.cmd = c \/ c \in pending
  \/ journal[c] # "NONE" \/ calls[c] > 0 \/ status[c] \in InFlight

\* Whatever is on its way about a command, its boundary row exists: no event
\* creates a row, so a key can only be taken by a claim.
RowBeforeAnyTrace ==
  /\ \A c \in Commands : Traced(c) => HasRow(c)
  /\ \A i \in 1 .. Len(outbox) : HasRow(outbox[i].cmd)
  /\ \A e \in latePreAck : HasRow(e.cmd)

\* The unique index holds because only a claim creates a row.
OneRowPerKey ==
  \A c, d \in Commands : c # d /\ KeyOf[c] = KeyOf[d] => ~(HasRow(c) /\ HasRow(d))

\* The handler calls the broker only after Core has committed the pre-ack.
PreAckBeforeCall ==
  \A c \in Commands :
    calls[c] > 0 \/ (hand.cmd = c /\ hand.stage \in {"confirmed", "called"}) => boundary[c].preAck
=============================================================================
