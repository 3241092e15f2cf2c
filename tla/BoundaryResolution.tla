-------------------------- MODULE BoundaryResolution --------------------------
(***************************************************************************)
(* How operators take an order out of doubt: the resolution ledger and the   *)
(* fence ledger of storage/gateway_order_broker_boundary.py.                 *)
(*                                                                         *)
(* An order whose fate is unknown is UNCONFIRMED and fences new orders.  An  *)
(* operator may record that it never reached the broker (RESOLVE), take that *)
(* back (REVOKE), and open the fence that a resolution leaves (RELEASE,      *)
(* REINSTATE).  Both ledgers are append-only.  A request is prepared from a  *)
(* read-only preview and applied later, perhaps more than once, while other  *)
(* operators apply theirs, the gateway wakes up and goes on with the order,  *)
(* and its events reach Core late and in any order.                          *)
(*                                                                         *)
(* Every order here starts UNCONFIRMED by the dispatch timeout, before any   *)
(* event of the gateway (GatewayOrders has the way to it).                   *)
(***************************************************************************)
EXTENDS OrderBoundary, Sequences

CONSTANTS
  Orders,      \* order commands in doubt
  Operators,
  MaxAsked,    \* bound: requests prepared
  MaxVersion,  \* bound: changes of the other order
  MaxDay       \* bound: trading days

ASSUME ResolutionConstants == {MaxAsked, MaxVersion, MaxDay} \subseteq Nat

VARIABLES
  \* Core's tables
  status,     \* gateway_commands.status of each order
  boundary,   \* gateway_order_broker_boundaries
  evidence,   \* types of the events stored for the order that show the broker was reached
  ledger,     \* gateway_order_broker_boundary_resolutions of each order
  fence,      \* gateway_order_broker_boundary_fence_events of each order
  other,      \* another send_order command: "none", "queued", "active"
  version,    \* counts the changes of gateway_commands: its full-state fingerprint
  \* gateway and broker
  gw,         \* how far the gateway is with the order it was given
  pending,    \* its events on their way to Core
  reached,    \* orders that are at the broker
  \* operators and time
  request,    \* what each operator has prepared
  asked,      \* number of requests prepared, the last request_id
  day         \* market_today()

core == <<status, boundary, evidence>>
ledgers == <<ledger, fence>>
gateway == <<gw, pending, reached>>
asking == <<request, asked>>
vars == <<core, ledgers, other, version, gateway, asking, day>>

-----------------------------------------------------------------------------
(* What the tables say of an order *)

\* broker_reach_reason_codes: any trace of the gateway's or the broker's work.
Reach(c) == boundary[c].started \/ boundary[c].preAck \/ evidence[c] # {}

\* source_boundary_fingerprint: the order's command, row and evidence.
Fingerprint(c) == [status |-> status[c], row |-> boundary[c], evidence |-> evidence[c]]

\* _validate_resolution_chain: the rows alternate, and a revocation names the
\* resolution before it.  A row is known by its place in the ledger.
ResolutionChainValid(rows) ==
  \A i \in DOMAIN rows :
    IF i % 2 = 1 THEN rows[i].action = "RESOLVE" /\ rows[i].supersedes = 0
    ELSE rows[i].action = "REVOKE" /\ rows[i].supersedes = i - 1

\* _validate_fence_event_chain: also bound to the same resolution and fingerprint.
FenceChainValid(rows) ==
  \A i \in DOMAIN rows :
    /\ rows[i].supersedes = i - 1
    /\ IF i % 2 = 1 THEN rows[i].action = "RELEASE"
       ELSE /\ rows[i].action = "REINSTATE"
            /\ rows[i].res = rows[i - 1].res
            /\ rows[i].fp = rows[i - 1].fp

\* The place of the last row if it is in force, or 0: active_resolution, active_release.
InForce(rows, action) ==
  IF rows # <<>> /\ rows[Len(rows)].action = action THEN Len(rows) ELSE 0

Active(c) == InForce(ledger[c], "RESOLVE")

ActiveRelease(c) == InForce(fence[c], "RELEASE")

\* _resolution_projection says EFFECTIVE: nothing has become known of the order since.
Effective(c) ==
  /\ Active(c) # 0
  /\ boundary[c].state = "UNCONFIRMED"
  /\ ~Reach(c)
  /\ ledger[c][Active(c)].fp = Fingerprint(c)

\* Fault: the release is not compared with the resolution in force.
ReleasedFault(c) ==
  /\ ActiveRelease(c) # 0
  /\ Effective(c)
  /\ LET release == fence[c][ActiveRelease(c)]
     IN release.day = day /\ release.fp = Fingerprint(c)

\* _fence_event_projection says released: today's approval of this very resolution.
Released(c) ==
  /\ ActiveRelease(c) # 0
  /\ Effective(c)
  /\ LET release == fence[c][ActiveRelease(c)]
     IN release.day = day /\ release.res = Active(c) /\ release.fp = Fingerprint(c)

\* Fault: an order with a resolution and a release does not block, whatever became
\* known of it afterwards.
BlocksFault(c) ==
  IF Active(c) # 0 THEN ActiveRelease(c) = 0 ELSE boundary[c].state = "UNCONFIRMED"

\* get_order_broker_boundary_status: the order counts as unconfirmed, its resolution is
\* invalidated, a maintenance fence is up, or its rows disagree.
Blocks(c) ==
  \/ boundary[c].state = "UNCONFIRMED" /\ ~Effective(c)
  \/ Active(c) # 0 /\ ~Effective(c)
  \/ Active(c) # 0 /\ ~Released(c)
  \/ Active(c) = 0 /\ ActiveRelease(c) # 0
  \/ StateMismatch(status[c], boundary[c])
  \/ DurablePreAckGap(status[c], boundary[c])
  \/ ~ResolutionChainValid(ledger[c]) \/ ~FenceChainValid(fence[c])

\* _resolution_quiescence_reason_codes is empty.  Its remaining conditions (no gateway
\* activity for 120 s, no evaluation run) hold again after a while whatever was done: a
\* request is applied when they do.
Quiescent(c) ==
  /\ status[c] \in {"UNCONFIRMED", "FAILED", "EXPIRED"}
  /\ other = "none"

\* The row of an order that timed out before any event of the gateway.
InDoubt == [state |-> "UNCONFIRMED", started |-> FALSE, preAck |-> FALSE]

Init ==
  /\ status = [c \in Orders |-> "UNCONFIRMED"]
  /\ boundary = [c \in Orders |-> InDoubt]
  /\ evidence = [c \in Orders |-> {}]
  /\ ledger = [c \in Orders |-> <<>>]
  /\ fence = [c \in Orders |-> <<>>]
  /\ other = "none"
  /\ version = 0
  /\ gw = [c \in Orders |-> "held"]
  /\ pending = [c \in Orders |-> {}]
  /\ reached = {}
  /\ request = [o \in Operators |-> [action |-> "none"]]
  /\ asked = 0
  /\ day = 1

-----------------------------------------------------------------------------
(* Operators *)

\* What the previews call eligible (release also wants quiescence, as its apply does).
Eligible(c, action) ==
  CASE action = "RESOLVE"   -> Active(c) = 0 /\ boundary[c].state = "UNCONFIRMED" /\ ~Reach(c)
    [] action = "REVOKE"    -> Active(c) # 0
    [] action = "RELEASE"   -> Effective(c) /\ ActiveRelease(c) = 0 /\ Quiescent(c)
    [] action = "REINSTATE" -> ActiveRelease(c) # 0

\* An operator puts what an eligible preview read into the request
\* (tools/resolve_order_broker_boundary.py, tools/release_order_broker_boundary_fence.py).
Prepare(o, c, action) ==
  LET release == fence[c][ActiveRelease(c)] IN
  /\ asked < MaxAsked
  /\ Eligible(c, action)
  /\ asked' = asked + 1
  /\ request' = [request EXCEPT ![o] =
       [action |-> action, id |-> asked + 1, order |-> c, version |-> version, day |-> day,
        prev |-> Len(fence[c]),
        res |-> IF action = "REINSTATE" THEN release.res ELSE Active(c),
        fp |-> IF action = "REINSTATE" THEN release.fp ELSE Fingerprint(c)]]
  /\ UNCHANGED <<core, ledgers, other, version, gateway, day>>

\* A request_id that is in a ledger is answered from it and changes nothing.
Recorded(r) ==
  \E c \in Orders : \/ \E i \in DOMAIN ledger[c] : ledger[c][i].id = r.id
                    \/ \E i \in DOMAIN fence[c] : fence[c][i].id = r.id

AppendResolution(r, supersedes) ==
  /\ ledger' = [ledger EXCEPT ![r.order] = Append(@,
       [action |-> r.action, id |-> r.id, supersedes |-> supersedes, fp |-> Fingerprint(r.order)])]
  /\ UNCHANGED <<core, fence, other, version, gateway, asking, day>>

\* record_order_broker_boundary_resolution.
Resolve(o) ==
  LET r == request[o] IN
  /\ r.action = "RESOLVE"
  /\ ~Recorded(r)
  /\ ResolutionChainValid(ledger[r.order])
  /\ r.fp = Fingerprint(r.order)
  /\ Active(r.order) = 0
  /\ Quiescent(r.order)
  /\ boundary[r.order].state = "UNCONFIRMED"
  /\ ~Reach(r.order)
  /\ AppendResolution(r, 0)

\* Fault: the resolution that is revoked need not be the one in force.
RevokeFault(o) ==
  LET r == request[o] IN
  /\ r.action = "REVOKE"
  /\ ~Recorded(r)
  /\ r.fp = Fingerprint(r.order)
  /\ AppendResolution(r, r.res)

\* revoke_order_broker_boundary_resolution: also when the resolution is invalidated.
Revoke(o) ==
  LET r == request[o] IN
  /\ r.action = "REVOKE"
  /\ ~Recorded(r)
  /\ ResolutionChainValid(ledger[r.order])
  /\ r.fp = Fingerprint(r.order)
  /\ Active(r.order) # 0
  /\ r.res = Active(r.order)
  /\ AppendResolution(r, r.res)

\* The approval binds the command table, the day and the last fence event.
ApprovalFresh(r) ==
  /\ r.version = version
  /\ r.day = day
  /\ FenceChainValid(fence[r.order])
  /\ r.prev = Len(fence[r.order])

AppendFenceEvent(r) ==
  /\ fence' = [fence EXCEPT ![r.order] = Append(@,
       [action |-> r.action, id |-> r.id, supersedes |-> r.prev, res |-> r.res, fp |-> r.fp,
        day |-> r.day])]
  /\ UNCHANGED <<core, ledger, other, version, gateway, asking, day>>

\* release_order_broker_boundary_maintenance_fence.
Release(o) ==
  LET r == request[o] IN
  /\ r.action = "RELEASE"
  /\ ~Recorded(r)
  /\ ApprovalFresh(r)
  /\ ResolutionChainValid(ledger[r.order])
  /\ Effective(r.order)
  /\ ActiveRelease(r.order) = 0
  /\ r.res = Active(r.order)
  /\ r.fp = Fingerprint(r.order)
  /\ Quiescent(r.order)
  /\ AppendFenceEvent(r)

\* reinstate_order_broker_boundary_maintenance_fence: bound to the release in force.
Reinstate(o) ==
  LET r == request[o] IN
  /\ r.action = "REINSTATE"
  /\ ~Recorded(r)
  /\ ApprovalFresh(r)
  /\ ActiveRelease(r.order) # 0
  /\ r.res = fence[r.order][ActiveRelease(r.order)].res
  /\ r.fp = fence[r.order][ActiveRelease(r.order)].fp
  /\ AppendFenceEvent(r)

-----------------------------------------------------------------------------
(* The gateway goes on with the order *)

Goto(c, place) == gw' = [gw EXCEPT ![c] = place]

Send(c, types) == pending' = [pending EXCEPT ![c] = @ \cup types]

\* The types in _BROKER_REACH_EVENT_TYPES; command_failed is not one of them.
ReachTypes == EventTypes \ {"command_failed", "rate_limited"}

\* append_gateway_event with record_command_event and record_order_broker_event.
Record(c, type) ==
  /\ boundary' = [boundary EXCEPT ![c] = BoundaryAfterEvent(@, type)]
  /\ status' = [status EXCEPT ![c] = StatusAfterEvent(@, type, boundary'[c])]
  /\ evidence' = [evidence EXCEPT ![c] = @ \cup ({type} \cap ReachTypes)]
  /\ version' = version + 1

StartCommand(c) ==
  /\ gw[c] = "held"
  /\ Goto(c, "started")
  /\ Send(c, {"command_started"})
  /\ UNCHANGED <<core, ledgers, other, version, reached, asking, day>>

\* The synchronous pre-ack is committed by Core before the broker is called.
PreAck(c) ==
  /\ gw[c] = "started"
  /\ Goto(c, "preacked")
  /\ Record(c, "order_pre_ack")
  /\ UNCHANGED <<ledgers, other, pending, reached, asking, day>>

\* The broker accepts, refuses, or raises without saying which.
CallBroker(c) ==
  /\ gw[c] = "preacked"
  /\ Goto(c, "done")
  /\ \/ reached' = reached \cup {c} /\ Send(c, {"command_ack", "chejan"})
     \/ UNCHANGED reached /\ Send(c, {"command_failed"})
     \/ reached' = reached \cup {c} /\ Send(c, {"order_broker_unconfirmed", "chejan"})
     \/ UNCHANGED reached /\ Send(c, {"order_broker_unconfirmed"})
  /\ UNCHANGED <<core, ledgers, other, version, asking, day>>

\* The gateway refuses the order before any pre-ack.
FailCommand(c) ==
  /\ gw[c] \in {"held", "started"}
  /\ Goto(c, "done")
  /\ Send(c, {"command_failed"})
  /\ UNCHANGED <<core, ledgers, other, version, reached, asking, day>>

\* Its events arrive once, in any order, or are lost with the gateway.
Deliver(c, type) ==
  /\ type \in pending[c]
  /\ pending' = [pending EXCEPT ![c] = @ \ {type}]
  /\ Record(c, type)
  /\ UNCHANGED <<ledgers, other, gw, reached, asking, day>>

LoseGateway(c) ==
  /\ Goto(c, "done")
  /\ pending' = [pending EXCEPT ![c] = {}]
  /\ UNCHANGED <<core, ledgers, other, version, reached, asking, day>>

-----------------------------------------------------------------------------
(* Another order, and time *)

ChangeOther(from, to) ==
  /\ other = from
  /\ other' = to
  /\ version < MaxVersion
  /\ version' = version + 1
  /\ UNCHANGED <<core, ledgers, gateway, asking, day>>

Enqueue == ChangeOther("none", "queued")

\* _dispatch_ready_commands reads the status in the transaction of the claim.
Claim ==
  /\ \A c \in Orders : ~Blocks(c)
  /\ ChangeOther("queued", "active")

\* The other order has its answer, or expires in the queue.
Finish == ChangeOther("active", "none") \/ ChangeOther("queued", "none")

NextDay ==
  /\ day < MaxDay
  /\ day' = day + 1
  /\ UNCHANGED <<core, ledgers, other, version, gateway, asking>>

Next ==
  \/ \E o \in Operators :
       \/ \E c \in Orders, action \in {"RESOLVE", "REVOKE", "RELEASE", "REINSTATE"} :
            Prepare(o, c, action)
       \/ Resolve(o) \/ Revoke(o) \/ Release(o) \/ Reinstate(o)
  \/ \E c \in Orders :
       \/ StartCommand(c) \/ PreAck(c) \/ CallBroker(c) \/ FailCommand(c) \/ LoseGateway(c)
       \/ \E type \in EventTypes : Deliver(c, type)
  \/ Enqueue \/ Claim \/ Finish \/ NextDay

Spec == Init /\ [][Next]_vars

-----------------------------------------------------------------------------
(* Properties *)

Fingerprints == [status : Statuses, row : Boundaries, evidence : SUBSET ReachTypes]

\* The shape of the state.
TypeOK ==
  /\ status \in [Orders -> Statuses]
  /\ boundary \in [Orders -> Boundaries]
  /\ evidence \in [Orders -> SUBSET ReachTypes]
  /\ other \in {"none", "queued", "active"}
  /\ gw \in [Orders -> {"held", "started", "preacked", "done"}]
  /\ pending \in [Orders -> SUBSET EventTypes]
  /\ reached \subseteq Orders
  /\ {version, asked, day} \subseteq Nat

\* The ledgers stay valid chains whatever several operators preview, apply late and
\* repeat: no row can be corrected (append-only triggers), so an invalid chain would
\* fence new orders for ever.
LedgersValid ==
  \A c \in Orders : ResolutionChainValid(ledger[c]) /\ FenceChainValid(fence[c])

\* No new order is claimed while an order that was declared "broker not reached" is at
\* the broker without the broker's confirmation, in whatever order previews, approvals,
\* a gateway that wakes up late and its events meet.
ClaimOnlyWithoutDoubt ==
  [][other = "queued" /\ other' = "active" =>
       \A c \in reached : boundary[c].state \in {"BROKER_ACCEPTED", "CHEJAN_CONFIRMED"}]_vars

\* A fence release that was invalidated (by evidence, by the day, by a revocation) never
\* opens the fence again: not when the resolution is recorded anew, nor when a status
\* returns.  Only a new approval does.
ReleaseNeverRevives ==
  [][\A c \in Orders :
       ActiveRelease(c) # 0 /\ ~Released(c) /\ fence'[c] = fence[c] => ~Released(c)']_vars
=============================================================================
