---------------------------- MODULE OrderBoundary ----------------------------
(***************************************************************************)
(* The pure rules of Core's order path: which status an order command has  *)
(* and which state its broker-boundary row has after an event.             *)
(*                                                                         *)
(*   storage/gateway_command_store.py           command statuses           *)
(*   storage/gateway_order_broker_boundary.py   boundary states            *)
(*                                                                         *)
(* A row that does not exist is written "NONE" (SQL: no row; Python: None).*)
(***************************************************************************)
EXTENDS Naturals

\* Every event type that record_command_event handles for an order command.
\* order_pre_ack is split by its payload: a journal replay may carry the
\* status RECOVERED_BROKER_ACCEPTED.  execution_event and kiwoom_order_chejan
\* have the same effect on an order command and are one type, "chejan".
EventTypes == {"command_started", "rate_limited", "order_pre_ack",
               "order_pre_ack_accepted", "order_broker_unconfirmed",
               "command_ack", "command_failed", "chejan"}

BoundaryStates == {"CLAIMED", "GATEWAY_STARTED", "PRE_ACK_RECORDED",
                   "UNCONFIRMED", "BROKER_ACCEPTED", "CHEJAN_CONFIRMED"}

\* The statuses an order command can have (DISPATCHED and ACKED are those of
\* the other command types; REJECTED and CANCELLED are never stored).
Statuses == BoundaryStates \cup {"QUEUED", "FAILED", "EXPIRED"}

\* _STATE_RANK; a missing row, and a status that is no boundary state, rank 0.
Rank(state) ==
  IF      state = "CLAIMED"          THEN 10
  ELSE IF state = "GATEWAY_STARTED"  THEN 20
  ELSE IF state = "PRE_ACK_RECORDED" THEN 30
  ELSE IF state = "UNCONFIRMED"      THEN 35
  ELSE IF state = "BROKER_ACCEPTED"  THEN 40
  ELSE IF state = "CHEJAN_CONFIRMED" THEN 50
  ELSE 0

\* Fault: broker acceptance overrides even a Chejan confirmation.
ResolveStateFault(current, proposed) ==
  IF proposed = "BROKER_ACCEPTED" \/ Rank(proposed) >= Rank(current) THEN proposed ELSE current

\* _resolve_state: CHEJAN_CONFIRMED is final, broker evidence always wins,
\* UNCONFIRMED gives way to broker evidence only, otherwise the higher rank.
ResolveState(current, proposed) ==
  IF \/ proposed = "CHEJAN_CONFIRMED"
     \/ proposed = "BROKER_ACCEPTED" /\ current # "CHEJAN_CONFIRMED"
     \/ current \notin {"CHEJAN_CONFIRMED", "UNCONFIRMED"} /\ Rank(proposed) >= Rank(current)
  THEN proposed
  ELSE current

\* _state_for_event: command_failed and rate_limited propose no state.
StateForEvent(type) ==
  IF      type = "command_started"                           THEN "GATEWAY_STARTED"
  ELSE IF type = "order_pre_ack"                             THEN "PRE_ACK_RECORDED"
  ELSE IF type \in {"order_pre_ack_accepted", "command_ack"} THEN "BROKER_ACCEPTED"
  ELSE IF type = "order_broker_unconfirmed"                  THEN "UNCONFIRMED"
  ELSE IF type = "chejan"                                    THEN "CHEJAN_CONFIRMED"
  ELSE "NONE"

PreAckEvent(type) == type \in {"order_pre_ack", "order_pre_ack_accepted"}

\* A row of gateway_order_broker_boundaries.  Of its sticky timestamps the two
\* that its state does not determine are kept: gateway_started_at and
\* pre_ack_recorded_at (TRUE: not NULL).
Boundaries == [state : BoundaryStates \cup {"NONE"}, started : BOOLEAN, preAck : BOOLEAN]

NoBoundary == [state |-> "NONE", started |-> FALSE, preAck |-> FALSE]

\* Fault: the pre-ack timestamp is overwritten instead of COALESCEd.
UpsertBoundaryFault(b, proposed, preAckObserved) ==
  [state   |-> ResolveState(b.state, proposed),
   started |-> b.started \/ (Rank(proposed) >= 20 /\ proposed # "UNCONFIRMED"),
   preAck  |-> preAckObserved]

\* _upsert_boundary with _state_timestamps: COALESCE keeps the first timestamp.
UpsertBoundary(b, proposed, preAckObserved) ==
  [state   |-> ResolveState(b.state, proposed),
   started |-> b.started \/ (Rank(proposed) >= 20 /\ proposed # "UNCONFIRMED"),
   preAck  |-> b.preAck \/ preAckObserved]

\* record_order_broker_event; without a proposed state only the payload
\* columns of the row change (_update_latest_boundary_payload).
BoundaryAfterEvent(b, type) ==
  IF StateForEvent(type) = "NONE" THEN b
  ELSE UpsertBoundary(b, StateForEvent(type), PreAckEvent(type))

TerminalStatuses == {"FAILED", "EXPIRED"}

\* _effective_order_command_status
EffectiveOrderCommandStatus(current, proposed) ==
  IF current = "CHEJAN_CONFIRMED" THEN current
  ELSE IF proposed \in {"CHEJAN_CONFIRMED", "BROKER_ACCEPTED"} THEN proposed
  ELSE IF current = "BROKER_ACCEPTED" THEN current
  ELSE IF proposed \in TerminalStatuses THEN proposed
  ELSE IF current \in TerminalStatuses THEN current
  ELSE IF Rank(proposed) >= Rank(current) THEN proposed
  ELSE current

\* A rate_limited event never re-queues a command that may be at the broker.
RateLimitIgnored == {"PRE_ACK_RECORDED", "BROKER_ACCEPTED", "CHEJAN_CONFIRMED", "UNCONFIRMED"}

\* record_command_event: the command's status after an event, where b is the
\* boundary row the same event has just produced.
StatusAfterEvent(current, type, b) ==
  IF type = "rate_limited" THEN IF current \in RateLimitIgnored THEN current ELSE "QUEUED"
  ELSE IF type = "command_failed" THEN EffectiveOrderCommandStatus(current, "FAILED")
  ELSE IF type = "order_broker_unconfirmed" THEN EffectiveOrderCommandStatus(current, "UNCONFIRMED")
  ELSE b.state

\* command_state_mismatch_count counts the rows with this property.
StateMismatch(status, b) == status \in BoundaryStates /\ b.state # "NONE" /\ b.state # status

\* missing_boundary_count: a command that was ever dispatched has a row.
MissingBoundary(attempts, b) == attempts > 0 /\ b.state = "NONE"

\* durable_pre_ack_gap_count: broker progress without a committed pre-ack.
DurablePreAckStates == {"PRE_ACK_RECORDED", "BROKER_ACCEPTED", "CHEJAN_CONFIRMED"}
DurablePreAckGap(status, b) ==
  /\ b.state # "NONE" /\ ~b.preAck
  /\ b.state \in DurablePreAckStates \/ status \in DurablePreAckStates

\* What makes get_order_broker_boundary_status fence new send_order routing
\* for one command, before any operator resolution.
Fences(status, attempts, b) ==
  \/ b.state = "UNCONFIRMED"
  \/ StateMismatch(status, b)
  \/ MissingBoundary(attempts, b)
  \/ DurablePreAckGap(status, b)
=============================================================================
